CONSTANTS
  Tags <- MCTags
  Resolvable <- MCResolvable
  MaxEntityScan = 3
SPECIFICATION Spec
INVARIANTS SpansApart FirstWins WellFormedIsKept AmpersandsToldOnce
PROPERTY Terminates
CHECK_DEADLOCK FALSE
