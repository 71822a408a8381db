SPECIFICATION FairSpec
CONSTANTS
  MaxLines = 2
  MaxCids = 8
  MaxCrashes = 2
  MaxFailures = 1
  MaxSize = 2
  MinHeadroom <- MCMinHeadroom
  Spaces <- MCSpaces
INVARIANTS ChainIsSound NothingTwice DropsAreCounted
PROPERTIES EventuallyStaged
