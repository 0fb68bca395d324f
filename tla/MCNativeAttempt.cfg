SPECIFICATION Spec
CONSTANTS
  Ids = {"ingest", "retrieve", "answer"}
  MemoryCalls = {"ingest", "retrieve"}
  Ingests = {"ingest"}
  Owners = {"role", "provider"}
  Dims = {"attempts", "tokens"}
  ParentCeiling <- MCParentCeiling
  OwnerCeiling <- MCOwnerCeiling
  Requests <- MCRequests
  Observations <- MCObservations
  RequestOf <- MCRequestOf
CHECK_DEADLOCK FALSE
INVARIANTS
  CeilingsHold
  HoldsAddUp
  SentIsAccountable
  LedgerMatchesRecords
