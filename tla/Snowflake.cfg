SPECIFICATION FairSpec
CONSTANTS
  c1 = c1  c2 = c2
  Caller = {c1, c2}
  NoCaller = NoCaller
  WorkerIds = {2, 3}
  NumberMax = 1
  MaxTime = 4
  MaxBacks = 1
INVARIANT TypeOK
PROPERTIES IssuesUniqueIds WaitEnds
CHECK_DEADLOCK FALSE
