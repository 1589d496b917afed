SPECIFICATION MatcherSpec
CONSTANTS
  HeaderSize = 6
  Word = 128
  Inputs <- MCInputs
  Rooms = {10, 1000}
  MallocMayFail = FALSE
  CMP_BUFFER_SIZE = 4
  Expectations <- MCExpectations
INVARIANT
  StatusTrue
