SPECIFICATION FairSpec
CHECK_DEADLOCK FALSE
CONSTANTS
  IntId = {1, 2, 3, 4}
  NoList = NoList
  MaxLists = 3
INVARIANTS TypeOK ResultIsCommon
PROPERTY Returns
