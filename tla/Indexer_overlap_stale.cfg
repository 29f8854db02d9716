SPECIFICATION Spec
CONSTANTS
  h1 = h1  h2 = h2  main = main
  a = a  b = b  pa = pa  blank = blank
  x = x  y = y
  Handler = {h1, h2}
  Main = main
  Id = {a, blank}
  TrimSpace <- MCTrimSpace
  EmptyId = blank
  Keyword = {x, y}
  KeywordLists <- MCKeywordLists
  NoDoc = NoDoc
  Csv <- MCCsv
  BootModes = {FALSE}
  SerialCallers = FALSE
  MaxId = 5
SYMMETRY Symm
INVARIANT PostedIsStored
