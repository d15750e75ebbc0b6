CONSTANTS
  Names = {a, b}
  SourceLen = 5
  MaxTreeDepth = 2
  Widths <- MCTextWidths
  BomLengths <- MCBoms
  CDataOpen = 1
  CDataClose = 1
  Flaws = {TRUE}
  Marks <- MCMarks
SPECIFICATION Spec
INVARIANTS SpansNest TreeIsWhole UnclosedReportedOnce OpenTextReportedOnce
PROPERTY Terminates
CHECK_DEADLOCK FALSE
