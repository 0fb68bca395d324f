SPECIFICATION CompletionSpec
CONSTANTS
  MaxOuter = 3
  MaxTransport = 2
CHECK_DEADLOCK FALSE
INVARIANTS
  AllSealedChainsClose
