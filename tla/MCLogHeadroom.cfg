SPECIFICATION Spec
CONSTANTS
  MaxLines = 2
  MaxCids = 7
  MaxCrashes = 1
  MaxFailures = 1
  MaxSize = 2
  MinHeadroom <- MCMinHeadroom
  Spaces <- MCSpaces
INVARIANTS HeadroomNeverPanics
