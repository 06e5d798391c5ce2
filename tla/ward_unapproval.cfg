SPECIFICATION Spec
CONSTANTS
  s1 = s1
  s2 = s2
  r1 = r1
  r2 = r2
  c1 = c1
  c2 = c2
  today = today
  yesterday = yesterday
  Students = {s1, s2}
  Grading = TRUE
  Contents = {c1, c2}
  Dates = {today, yesterday}
  DateOf <- MCDateOf
  Today = today
  Tracks = {k1}
  Requests = {r1, r2}
  MaxWards = 1
  Nobody = Nobody
  Nothing = Nothing
PROPERTY NoSilentUnapproval
SYMMETRY Symmetry
