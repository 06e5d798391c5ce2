\* One endpoint, two deliveries, two runs that claim one delivery each, two attempts.
CONSTANTS
  Endpoints = {e1}
  Deliveries = {1, 2}
  Runs = {r1, r2}
  Limit = 1
  Lease = 1
  MaxAttempts = 2
  Delay <- MCDelay
SPECIFICATION Spec
INVARIANT LeaseKeepsApart
INVARIANT AttemptsBounded
PROPERTY SettledIsFinal
PROPERTY NobodyStarves
CHECK_DEADLOCK FALSE
