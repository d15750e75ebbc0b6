CONSTANTS
  Inputs <- MCInputs
  Encodings <- MCEncodings
  Registry <- MCRegistry
  Supplement <- MCSupplement
  MaxInputBytes <- MCMax
  PrologScanWindow = 8
SPECIFICATION Spec
INVARIANT ReportedIsUsed
CHECK_DEADLOCK FALSE
