CONSTANTS
  Reads = {dash}
  Models = {}
  SMSLists = {}
  Actions = {act}
  FirstRead = dash
  NoCommand = NoCommand
  Clients = {c1}
  Worker = worker
  Spills = {s1}
  QueueCap = 2
  MaxVersion = 1
  MaxDue = 1
SPECIFICATION FairSpec
INVARIANTS TypeOK SingleFlight WaitersCovered NoOverflow CoherentWhenSettled
PROPERTY CoalescerSpec
