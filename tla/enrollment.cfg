\* Two halaqahs that accept everybody and two registrations, or one halaqah with changing
\* criteria and three registrations in its line; two requests in flight.
CONSTANTS
  Halaqahs = {1, 2}
  Regs = {1, 2, 3}
  Capacities = {1}
  Criteria <- MCSome
  NoLimit = NoLimit
  NoHalaqah = NoHalaqah
  Workers = {w1, w2}
  MaxStudents = 1
  MaxTurn = 3
SPECIFICATION DeskSpec
SYMMETRY Symmetry
INVARIANTS
  PlacedOnce
  UniqueTurns
  SeatsOffered
PROPERTIES
  AutoKeepsCapacity
  PromotedInTurn
  ImplementsLine
