CONSTANTS
  Names = {a, b}
  SourceLen = 5
  MaxTreeDepth = 1
  Widths <- MCWidths
  BomLengths <- MCNoBom
  CDataOpen = 1
  CDataClose = 1
  Flaws <- MCNoFlaws
  Marks <- MCPlain
SPECIFICATION AnySpec
INVARIANTS ResumesAtLimit
CHECK_DEADLOCK FALSE
