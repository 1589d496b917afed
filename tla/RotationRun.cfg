SPECIFICATION MatcherSpec
CONSTANTS
  HeaderSize = 6
  Word = 128
  Inputs <- MCInputs
  Rooms = {0, 10, 1000}
  MallocMayFail = TRUE
  CMP_BUFFER_SIZE = 4
  Expectations <- MCExpectations
INVARIANTS
  TypeOK InBounds ReadVerdict RotationSaved InputSafe
  BadInputChangesNothing Released VerdictRight TestVerdict
