SPECIFICATION FairSpec
CONSTANTS
  log = log
  metrics = metrics
  core = core
  MaxEntries = 2
  MaxFaults = 1
  Writers <- MetricsOnly
  WriterKinds <- MetricsOnlyKinds
  DaemonWriters <- MetricsOnly
  Clients = {careful, raw}
  CarefulClients = {careful}
  Size <- MCSize
  MaxZip = 1
  MaxExportZip = 1
  Samplings <- AlwaysOn
INVARIANTS CarefulDeleteIsSafe
PROPERTIES EventuallyDelivered
