CONSTANTS
  Names = {a}
  SourceLen = 4
  MaxTreeDepth = 1
  Widths <- MCTextWidths
  BomLengths <- MCNoBom
  CDataOpen = 1
  CDataClose = 1
  Flaws <- MCNoFlaws
  Marks <- MCMarks
SPECIFICATION Spec
INVARIANTS PendingIsCurrent
CHECK_DEADLOCK FALSE
