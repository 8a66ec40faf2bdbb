SPECIFICATION Spec
CONSTANTS
  Tables <- ThreeLinks
  MaxFrame = 2
  Second = 20
  MaxDelay = 2
  MaxTime = 75
CHECK_DEADLOCK FALSE
INVARIANTS
  TypeOK
  NeverEarly
  NoTimeGained
  LateByFrames
PROPERTIES
  RobotSpec
