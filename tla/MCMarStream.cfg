SPECIFICATION Spec
CONSTANTS
  Files <- MCFiles
  Lengths = {0, 40}
  Growth = 20
  BufSizes = {25, 100}
  U16 = 4
  U32 = 450
  MaxRequests = 2
CHECK_DEADLOCK FALSE
INVARIANTS DirectoryIsTrue AnswerIsReadable ChunkIsIntact
