SPECIFICATION QuerySpec
CONSTANTS
  h1 = h1  main = main
  a = a  b = b  blank = blank
  x = x  y = y
  Handler = {h1}
  Main = main
  Id = {a, b, blank}
  TrimSpace <- MCTrimSpace
  EmptyId = blank
  Keyword = {x, y}
  KeywordLists <- MCKeywordLists
  NoDoc = NoDoc
  Csv <- MCCsv
  BootModes = {FALSE}
  SerialCallers = TRUE
  MaxId = 3
  Bit <- MCBit
  BitsOf <- MCBitsOf
  Term <- MCTerm
  KeywordOf <- MCKeywordOf
  TermQuery <- MCTermQuery
  Expr <- MCExpr
  Build <- MCBuild
  Asks <- MCAsks
  Written = {a, b}
  NoPosting = NoPosting
  ReadErrors = TRUE
  IdBytes <- MCIdBytes
  VideoOf <- MCVideoOf
  MaxAnswer = 2
INVARIANTS SearchTypeOK SearchIsExact WireIsExact CutIsRefused LaterIsUnderstood
PROPERTIES SearchEnds ImplementsSearch
CHECK_DEADLOCK FALSE
