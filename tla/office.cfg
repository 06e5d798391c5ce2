CONSTANTS
  Workers = {w1, w2}
  MaxAttempts = 2
  MaxCodes = 2
  MaxVersion = 1
  Steps = 3
  SuspendStep = 2
  EscalateEvery = 2
  MaxViolations = 5
  Days = 3
  MaxSaves = 3
  WarnStreak = 1
  SummonsStreak = 2
  AlertStreak = 3
  WarnTerm = 2
  TermDays = 2
  GapDays = 1
  MaxLog = 6
  Associations = {a1, a2}
  Criteria = {c1, c2}
  MaxScore = 1
  MaxAmount = 3
  Keep = 2
  MaxUploads = 4
  Applications = {r1, r2}
  Usernames = {u1, u2}
  OldMosque = m0
  NoAdmin = NoAdmin
SPECIFICATION OfficeSpec
SYMMETRY OfficeSymmetry
INVARIANTS
  TypesOK
  GuessesCapped
  CodeOpensOnce
  OneCodeUnlessCrossed
  SessionsFollowPassword
  SuspensionGivesBack
  AbsenceToldOnce
  LadderToldOnce
  LogIsHistory
  MembershipAgreed
  DoneIsComplete
  BooksAgree
  KeptNearLimit
  ReviewToldOnce
  ProposalTruthful
  FoundedByApproval
PROPERTY
  CancelledIsFinal
CHECK_DEADLOCK FALSE
