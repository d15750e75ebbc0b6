CONSTANTS
  Size = 8
  Nodes <- MCNodes
  RootBean = 1
  Documents <- MCDocuments
  DepthLimit = 2
SPECIFICATION Spec
INVARIANTS SameDiagnostics SameValues Handshake OneFramePerLevel
PROPERTY Terminates
CHECK_DEADLOCK FALSE
