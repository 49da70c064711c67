\* The user may do nothing more.
CONSTANTS
  IMEIs = {"imei1", "imei2"}
  Languages = {"zh", "en"}
  FirstIMEIs = {"imei1"}
  FirstModes = {"1"}
  FirstLanguages = {"zh"}
  Seconds = 2
  MaxActs = 3
  MaxBreaks = 1
SPECIFICATION FairSpec
INVARIANTS TypeOK TimersRight 
PROPERTIES PageRecovers
CHECK_DEADLOCK FALSE
