SPECIFICATION Spec
CONSTANTS
  log = log
  metrics = metrics
  core = core
  MaxEntries = 2
  MaxFaults = 1
  Writers <- AllWriters
  WriterKinds <- AllWriterKinds
  DaemonWriters <- DaemonThreads
  Clients = {}
  CarefulClients = {}
  Size <- MCSize
  MaxZip = 3
  MaxExportZip = 3
  Samplings <- OnOrOff
INVARIANTS NoSilentLoss ConstructionUntouched DuplicatesNeedFaults
PROPERTIES OnlySampledAreSent
