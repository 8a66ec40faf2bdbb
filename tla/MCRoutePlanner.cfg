SPECIFICATION Spec
CONSTANTS
  n1 = n1
  n2 = n2
  n3 = n3
  a1 = a1
  a2 = a2
  NONE = NONE
  Nodes = {n1, n2, n3}
  Agvs = {a1, a2}
  Home <- MCHome
  Tables <- MCTables
  Clearance = 1
  Wait = 2
  Window = 3
  Penalty = 2
  Grace = 2
  SpawnHold = 3
  MaxTime = 7
  MaxRequests = 2
  MaxViewers = 2
SYMMETRY Mirror
CHECK_DEADLOCK FALSE
INVARIANTS
  TypeOK
  BookingsApart
  WayAheadBacked
  RetryKeepsFooting
  RefusedOnlyAtStart
