INIT Init
NEXT Next
CONSTANTS
  a = a
  b = b
  c = c
  m1 = m1
  m2 = m2
  p1 = p1
  p2 = p2
  w1 = w1
  w2 = w2
  Refs = {a, b}
  MosqueOf <- MCMosqueOf
  PhoneOf <- MCPhoneOf
  ValidPhones = {p1, p2}
  MosqueCap = 1
  PhoneCap = 1
  Workers = {w1, w2}
  ResendAfter = 1
  StaleAfter = 2
  NoRef = NoRef
SYMMETRY Symmetry
INVARIANT PhoneCapKept
