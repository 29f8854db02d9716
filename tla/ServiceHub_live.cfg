SPECIFICATION FairSpec
CHECK_DEADLOCK FALSE
CONSTANTS
  w1 = w1  w2 = w2  w3 = w3  g0 = g0  g1 = g1
  Worker = {w1, w2, w3}
  Group = {g0, g1}
  GroupOf <- MCGroupOf
  None = None
  Orphan = Orphan
  MaxStarts = 2

PROPERTIES LockIsFreed RegistrationEnds
