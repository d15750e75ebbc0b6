CONSTANTS
  Inputs <- MCInputs
  Encodings <- MCEncodings
  Registry <- MCRegistry
  Supplement <- MCSupplement
  MaxInputBytes <- MCMax
  PrologScanWindow = 8
SPECIFICATION Spec
INVARIANTS BoundariesAgree JsAgrees TextAgrees NoSilentLoss TrueLabelIsBelieved LabelIsOfTheProlog
CHECK_DEADLOCK FALSE
