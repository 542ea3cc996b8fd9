SPECIFICATION SyncLiveSpec
CONSTANTS
  MaxRevision = 2
  MaxDeliver = 2
INVARIANTS SyncTypeOK AppliedWasRun
PROPERTIES DesiredIsRun
CHECK_DEADLOCK FALSE
