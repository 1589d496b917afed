SPECIFICATION Spec
CONSTANTS
  PageSize = 8
  RegionMinSize = 16
  HeaderSize = 2
  BlockMinCapacity = 4
  HEAP_START = 24
  SizeModulus = 128
  AddrLimit = 56
  InitialSizes = {1}
  Queries <- MCQueries
  OtherPages <- MCOtherPages
INVARIANT
  HeapUsable
