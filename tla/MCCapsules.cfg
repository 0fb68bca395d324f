SPECIFICATION CapsulesSpec
CONSTANTS
  Systems = {"hindsight", "mem0", "openviking_batch", "openviking", "scripted"}
  Sources <- MCSources
  TroubleLimit = 3
  MaxOuter = 2
  PageLimit = 1
  TopK = 1
CHECK_DEADLOCK FALSE
INVARIANTS
  ProducedValidates
  LossDetected
  CrossWiringDetected
