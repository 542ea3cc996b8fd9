SPECIFICATION LiveSpec
CONSTANTS
  Docs = {d1}
  Owners = {u1}
  Attachments = {a1}
  MaxGeneration = 2
  NoOwner = NoOwner
  NoHash = NoHash
  OwnerOf <- MCOwnerOf
  MediaSets = {{a1}}
  Workers = {w1, w2}
  MaxAttempts = 2
  MaxLate = 0
  NoJob = NoJob
  Idle = Idle
CHECK_DEADLOCK FALSE
PROPERTIES RequestSettles 
