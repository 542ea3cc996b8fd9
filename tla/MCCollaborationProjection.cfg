SPECIFICATION LiveSpec
CONSTANTS
  Updates = {u1, u2}
  MaxSequence = 2
  NoHead = NoHead
  NoJob = NoJob
  Workers = {w1, w2}
  MaxRestores = 1
  MaxLate = 1
  Commits = {{u1}}
  Idle = Idle
INVARIANTS RecoverableState PendingHasJob DrainedIsCurrent
PROPERTIES ImplementsLog ProjectionAdvances ProjectionCatchesUp 
CHECK_DEADLOCK FALSE
