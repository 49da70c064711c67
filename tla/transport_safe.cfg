CONSTANTS
  ServiceCallers = {g1, g2}
  CLICallers = {cli}
  Service = service
  Nobody = nobody
  MaxTx = 2
  MaxCrashes = 1
SYMMETRY Symmetry
SPECIFICATION Spec
INVARIANTS TypeOK LockOwned OwnAnswer NoMissedSignal
PROPERTY PortSpec
CHECK_DEADLOCK FALSE
