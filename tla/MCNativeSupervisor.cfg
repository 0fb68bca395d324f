SPECIFICATION FairSpec
CONSTANTS
  Clients = 2
  MaxSignals = 3
CHECK_DEADLOCK FALSE
INVARIANTS
  TerminalIsTruthful
  FailureAccounted
PROPERTIES
  ProcessesEnd
