SPECIFICATION FairSpec
CONSTANTS
  CounterKeys <- MCCounterKeys
  GaugeKeys <- MCGaugeKeys
  SessionNames <- MCSessionNames
  Captured <- MCCaptured
  Interval = 2
  Milli = 2
  Levels = {50, 40}
  Payloads <- MCPayloads
  Streams <- MCStreams
  MaxConnections = 2
  MaxBuffered = 2
  Budgets <- Mixes
CHECK_DEADLOCK FALSE
INVARIANTS CountsAreExact TimeIsCountedOnce AverageIsBounded LinesStayInOrder
PROPERTIES CrashFreeHasNoCrash ImplementsLedger CrashesAreReported
