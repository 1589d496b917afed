SPECIFICATION MCSpec
CONSTANTS
  Sources <- MCSources
  MallocMayFail = FALSE
INVARIANT
  AsmCopiesImage
