SPECIFICATION LiveSpec
CONSTANTS
  Attachments = {a1, a2}
  Keys = {k1}
  NoKey = NoKey
  Sizes = {1}
  MaxUserBytes = 1
  Requests = {p1, p2}
  Scanners = {w1, w2}
  MaxScanAttempts = 2
  MaxLost = 1
  MaxLostCommits = 1
  None = None
INVARIANTS TypeOK JobFollowsStatus VerdictOnlyWhileScanning RetryReusesUpload
 
CHECK_DEADLOCK FALSE
