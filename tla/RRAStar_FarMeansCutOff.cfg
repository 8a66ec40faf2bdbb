SPECIFICATION Spec
CONSTANTS
  goal = goal
  n1 = n1
  n2 = n2
  n3 = n3
  n4 = n4
  cut = cut
  Nodes = {goal, n1, n2, n3, n4, cut}
  Goal = goal
  Length <- MCLength
  Far = Far
  NONE = NONE
INVARIANT FarMeansCutOff
