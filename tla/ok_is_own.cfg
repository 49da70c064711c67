CONSTANTS
  Reads = {dash}
  Models = {cgmm}
  SMSLists = {cmgl}
  Actions = {act}
  FirstRead = dash
  NoCommand = NoCommand
  Clients = {c1, c2}
  Worker = worker
  Spills = {}
  QueueCap = 2
  MaxVersion = 1
  MaxDue = 1
SPECIFICATION HSpec
INVARIANT OKIsOwn
