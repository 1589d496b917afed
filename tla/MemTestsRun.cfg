SPECIFICATION MCSpec
CONSTANTS
  PageSize = 4096
  RegionMinSize = 8192
  HeaderSize = 17
  BlockMinCapacity = 24
  HEAP_START = 4096
  SizeModulus = 1048576
  AddrLimit = 98304
  InitialSizes = {10000}
  Queries = {0}
  OtherPages <- MCOtherPages
INVARIANTS
  AssertionsHold
  FirstFit
  TestsPass
CHECK_DEADLOCK FALSE
