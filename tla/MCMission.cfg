SPECIFICATION Spec
CONSTANTS
  load = load
  drop = drop
  home = home
  way = way
  a1 = a1
  a2 = a2
  NONE = NONE
  Agvs = {a1, a2}
  Loads = {load}
  Drops = {drop}
  HomeNode = home
  Way = way
  Links <- MCLinks
  MaxTickets = 1
  MaxViewers = 2
SYMMETRY AgvSymmetry
INVARIANTS
  TypeOK
  StateTrue
  ReportedOnce
  RideFollowsPlan
  ForgottenOnlyAtHome
PROPERTY JobSpec
