CONSTANTS
  Texts <- MCTexts
  DepthLimit = 2
SPECIFICATION Spec
INVARIANTS InnerAlwaysCloses DiagnosedIffNotHarvested HarvestIsComplete
PROPERTY Terminates
CHECK_DEADLOCK FALSE
