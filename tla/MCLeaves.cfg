SPECIFICATION Spec
CONSTANTS
  NsOf <- MCNsOf
  MaxIndex = 11
  DepthLimit = 2
  Writers <- MCWriters
  Corpora <- MCCorpora
INVARIANTS SpansSlice TokensCoverTheList SegmentsJoin SugarIsNested HarvestIsExact NullIsExplained OldReadersCope WalksAgree AllFreed
CHECK_DEADLOCK FALSE
