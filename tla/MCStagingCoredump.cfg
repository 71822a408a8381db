SPECIFICATION Spec
CONSTANTS
  log = log
  metrics = metrics
  core = core
  MaxEntries = 2
  MaxFaults = 1
  Writers <- CoreOnly
  WriterKinds <- CoreOnlyKinds
  DaemonWriters = {}
  Clients = {}
  CarefulClients = {}
  Size <- MCSize
  MaxZip = 3
  MaxExportZip = 3
  Samplings <- OnOrOff
INVARIANTS CommittedIsComplete
