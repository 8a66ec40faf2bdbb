SPECIFICATION FairSpec
CONSTANTS
  Clients = {c1, c2, c3}
  MaxObjects = 8
  Spawned = 2
  NONE = NONE
INVARIANTS
  TypeOK
  NoOrphanUpdate
  CreatedOnce
  NobodyMissesAnObject
PROPERTIES
  ToldInTheEnd
CHECK_DEADLOCK FALSE
