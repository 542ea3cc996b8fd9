SPECIFICATION Spec
CONSTANTS
  Attachments = {a1}
  Keys = {k1}
  NoKey = NoKey
  Sizes = {1}
  MaxUserBytes = 2
  Requests = {p1}
  Scanners = {w1}
  MaxScanAttempts = 2
  MaxLost = 1
  MaxLostCommits = 0
  None = None
INVARIANTS ReferencedNotTrashed
CHECK_DEADLOCK FALSE
