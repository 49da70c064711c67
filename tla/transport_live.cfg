CONSTANTS
  ServiceCallers = {g1, g2}
  CLICallers = {}
  Service = service
  Nobody = nobody
  MaxTx = 2
  MaxCrashes = 1
SPECIFICATION FairSpec
PROPERTY TransactionEnds
CHECK_DEADLOCK FALSE
