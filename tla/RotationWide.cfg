SPECIFICATION MatcherSpec
CONSTANTS
  HeaderSize = 2
  Word = 4
  Inputs <- MCWide
  Rooms = {1000}
  MallocMayFail = FALSE
  CMP_BUFFER_SIZE = 4
  Expectations <- MCExpectations
INVARIANT
  ImageHasRoom
