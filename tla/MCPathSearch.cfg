SPECIFICATION Spec
CONSTANTS
  goal = goal
  n1 = n1
  n2 = n2
  n3 = n3
  n4 = n4
  n5 = n5
  a1 = a1
  a2 = a2
  NONE = NONE
  Far = Far
  Nodes = {goal, n1, n2, n3, n4, n5}
  Agvs = {a1, a2}
  Self = a1
  Goal = goal
  Length <- MCLength
  Ledgers <- MCLedgers
  CutOff = 9999990
  Wait = 40
  Slot = 4
  Clearance = 24
  Window = 180
  MaxSearches = 2
CHECK_DEADLOCK FALSE
INVARIANTS
  TypeOK
  ResultKeepsContract
  TableKnown
  PromiseKept
  NeverTooShort
  FirstQueryExact
  FrontierBeyondClosed
PROPERTIES
  AnswersStand
  SearchReturns
