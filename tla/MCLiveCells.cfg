SPECIFICATION FairSpec
CONSTANTS
  Count = 4
  ProviderLimit = 2
CHECK_DEADLOCK FALSE
INVARIANTS
  CellsSafe
PROPERTIES
  NoAdmissionPastFailure
  CellsEnd
