SPECIFICATION MCSpec
CONSTANTS
  Sources <- MCSources
  MallocMayFail = TRUE
INVARIANTS
  TypeOK InBounds AsmFilters OutputsAgree OutputsSaved
