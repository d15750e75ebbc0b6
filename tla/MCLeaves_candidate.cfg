SPECIFICATION Spec
CONSTANTS
  NsOf <- MCNsOf
  MaxIndex = 11
  DepthLimit = 2
  Writers <- MCWriters
  Corpora <- MCCorpora
INVARIANT RecognizedChildWins
CHECK_DEADLOCK FALSE
