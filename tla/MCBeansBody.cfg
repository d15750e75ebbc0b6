CONSTANTS
  Size = 5
  Nodes <- MCNodes
  RootElement = 1
  Documents <- MCDocuments
  NsPrefixes = {"", "x", "context", "util"}
  Uris <- MCUris
  Ids = {"a"}
  DepthLimit = 3
SPECIFICATION Spec
INVARIANTS SaidInOrder FilesAsDeclared DeliversToParent
PROPERTY Terminates
CHECK_DEADLOCK FALSE
