SPECIFICATION Spec
CONSTANTS
  n1 = n1
  n2 = n2
  n3 = n3
  a1 = a1
  a2 = a2
  NONE = NONE
  Nodes = {n1, n2, n3}
  Agvs = {a1, a2}
  MaxWalk = 3
  MaxViewers = 2
  Walks <- LineWalks
  Home <- HomeOfTwo
SYMMETRY Mirror
INVARIANTS
  TypeOK
  EdgeExclusion
  RiderHoldsEdge
  ArrivalSeenFirst
PROPERTIES
  BlockSpec
  StepEndsTwoWays
  OnlyReroutesEndJams
