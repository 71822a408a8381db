SPECIFICATION FairSpec
CONSTANTS
  Crashes <- MCCrashes
  SIZEOF_EHDR = 2
  SIZEOF_PHDR = 1
  SIZEOF_PTR = 2
  SIZEOF_RDEBUG = 1
  SIZEOF_LINKMAP = 1
  PATH_MAX = 3
  MetadataSize = 2
  DebugSize = 1
  LogChannel = 2
  U16 = 16
INVARIANTS MergeIsExact EvidenceIsCaptured StagedCoreIsGood
PROPERTIES CaptureEnds
CHECK_DEADLOCK FALSE
