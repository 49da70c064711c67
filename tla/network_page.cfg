\* The user may do nothing more.
CONSTANTS
  Modes = {"LTE", "NSA"}
  Bands = {"b1", "b2"}
  ModelBands = {"b1", "b2"}
  CellKeys = {"c1", "c2"}
  Seconds = 1
  RetryLimit = 1
  ModelTries = 2
  LockLimit = 2
  MaxCells = 2
  MaxBandActs = 3
  MaxScanActs = 5
  MaxFormActs = 5
  MaxFails = 1
  MaxBreaks = 1
SPECIFICATION FairSpec
INVARIANTS TypeOK  LocksAsShown
PROPERTIES PageComesBack
CHECK_DEADLOCK FALSE
