SPECIFICATION Spec
CONSTANTS
  h1 = h1  h2 = h2  main = main
  a = a  b = b  pa = pa  blank = blank
  x = x  y = y
  Handler = {h1, h2}
  Main = main
  Id = {a, pa, blank}
  TrimSpace <- MCTrimSpace
  EmptyId = blank
  Keyword = {x, y}
  KeywordLists <- MCKeywordListsRepeated
  NoDoc = NoDoc
  Csv <- MCCsv
  BootModes = {FALSE}
  SerialCallers = FALSE
  MaxId = 4
SYMMETRY Symm
INVARIANT StoredIsPosted
