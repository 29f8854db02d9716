SPECIFICATION Spec
CONSTANTS
  h1 = h1  h2 = h2  main = main
  a = a  b = b  pa = pa  blank = blank
  x = x  y = y
  Handler = {h1, h2}
  Main = main
  Id = {a, b, blank}
  TrimSpace <- MCTrimSpace
  EmptyId = blank
  Keyword = {x, y}
  KeywordLists <- MCKeywordLists
  NoDoc = NoDoc
  Csv <- MCCsv
  BootModes = {TRUE, FALSE}
  SerialCallers = TRUE
  MaxId = 5
SYMMETRY Symm
INVARIANTS TypeOK StoredIsFound PostedIsStored
PROPERTY AcknowledgedIsStored
