SPECIFICATION Spec
CONSTANTS
  c1 = c1  c2 = c2
  Caller = {c1, c2}
  NoCaller = NoCaller
  WorkerIds = {3}
  NumberMax = 1
  MaxTime = 4
  MaxBacks = 0
INVARIANT IdsIncrease
CHECK_DEADLOCK FALSE
