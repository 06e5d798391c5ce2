\* One halaqah that accepts everybody, one registration.
CONSTANTS
  Halaqahs = {1}
  Regs = {1}
  Capacities = {1}
  Criteria <- MCAll
  NoLimit = NoLimit
  NoHalaqah = NoHalaqah
  Workers = {w1, w2}
  MaxStudents = 1
  MaxTurn = 1
INIT OneDeskInit
NEXT OneDeskNext
SYMMETRY Symmetry
INVARIANT NoIdleSeat
