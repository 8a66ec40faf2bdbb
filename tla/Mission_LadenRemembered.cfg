SPECIFICATION Spec
CONSTANTS
  load = load
  drop = drop
  home = home
  way = way
  a1 = a1
  a2 = a2
  NONE = NONE
  Agvs = {a1, a2}
  Loads = {load}
  Drops = {drop}
  HomeNode = home
  Way = way
  Links <- MCLinks
  MaxTickets = 2
  MaxViewers = 1
INVARIANT LadenRemembered
