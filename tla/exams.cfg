CONSTANTS
  Nominations = {n1, n2}
  Sessions = {s1, s2}
  Scores = {low, high}
  Requests = {r1, r2}
  None = None
SPECIFICATION Spec
SYMMETRY Symmetry
PROPERTY PublishedFrozen
PROPERTY GradesKept
PROPERTY NoneStranded
PROPERTY EndsAreFinal
CHECK_DEADLOCK FALSE
