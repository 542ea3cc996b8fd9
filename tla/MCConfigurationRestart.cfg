SPECIFICATION SyncLiveSpec
CONSTANTS
  MaxRevision = 1
  MaxDeliver = 2
PROPERTIES StaysOnDesired
CHECK_DEADLOCK FALSE
