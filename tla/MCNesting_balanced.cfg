CONSTANTS
  Names = {a, b}
  SourceLen = 7
  MaxTreeDepth = 1
  Widths <- MCWidths
  BomLengths <- MCBom
  CDataOpen = 1
  CDataClose = 1
  Flaws <- MCNoFlaws
  Marks <- MCPlain
SPECIFICATION BalancedSpec
INVARIANTS CounterIsExact
PROPERTY ImplementsDocumentTree
CHECK_DEADLOCK FALSE
