SPECIFICATION LiveSpec
CONSTANTS
  Updates = {u1, u2}
  MaxSequence = 3
  NoHead = NoHead
  NoJob = NoJob
  Replicas = {r1}
  NoActor = NoActor
INVARIANTS TypeOK OnlyCommittedShown AckedIsApplied LoggedIsShown
PROPERTIES ReplicasCatchUp StaleActorEnds
CHECK_DEADLOCK FALSE
