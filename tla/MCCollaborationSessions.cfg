SPECIFICATION LiveSpec
CONSTANTS
  Clients = {c1}
  MaxRevision = 3
  NoActor = NoActor
INVARIANTS  ForbiddenIsOlder
 
