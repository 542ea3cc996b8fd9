SPECIFICATION Spec
CONSTANTS
  Docs = {d1}
  Owners = {u1}
  Attachments = {a1}
  MaxGeneration = 3
  NoOwner = NoOwner
  NoHash = NoHash
  OwnerOf <- MCOwnerOf
  MediaSets = {{a1}}
  Workers = {w1, w2}
  MaxAttempts = 2
  MaxLate = 1
  NoJob = NoJob
  Idle = Idle
SYMMETRY WorkerSymmetry
CHECK_DEADLOCK FALSE
INVARIANTS PublishedMediaIsHeld NothingHeldWhenWithdrawn RequestHasJob
PROPERTIES OnlyLatestPromoted PublicationKeptUntilNextRequest
