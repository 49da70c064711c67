CONSTANTS
  MaxCalls = 4
  MaxSockets = 4
  MaxBreaks = 2
SPECIFICATION FairSpec
INVARIANTS TypeOK NoOrphan
PROPERTIES OwnFailure EverySettles PromisedSpec
CHECK_DEADLOCK FALSE
