SPECIFICATION HeapSpec
CONSTANTS
  TotalPages = 5
  HeapLow = 1024
  Boots = 1
  ImagePages = 2
INVARIANT
  FailureIsNull
CHECK_DEADLOCK FALSE
