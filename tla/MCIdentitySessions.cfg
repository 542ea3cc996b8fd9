SPECIFICATION Spec
CONSTANTS
  Ids = {1, 2}
  Passwords = {p1, p2}
  FirstPassword = p1
  ActionTokens = {k1, k2}
  FirstAction = k1
  Requests = {r1, r2}
  MaxTime = 2
  RefreshGrace = 0
  IdleTTL = 1
  AbsoluteTTL = 2
  ActionTTL = 1
  LockDuration = 1
  FailureThreshold = 2
  None = None
SYMMETRY HandlerSymmetry
CHECK_DEADLOCK FALSE
INVARIANTS TypeOK OneSuccessor RevokedSessionsHoldNoCurrentVersion DisabledIsCutOff LockTrips
PROPERTIES LockHolds ReactivationOnlyByFirstVerification
