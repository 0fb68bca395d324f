SPECIFICATION FairSpec
CONSTANTS
  h1 = h1
  h2 = h2
  q1 = q1
  q2 = q2
  q3 = q3
  Plans = {h1, h2}
  Questions = {q1, q2, q3}
  PlanOf <- MCPlanOf
  HistoryLimit = 2
  QuestionLimit = 1
  Batches = 1
  MaxAttempts = 2
CHECK_DEADLOCK FALSE
INVARIANTS
  FailuresKept
  ReturnedIsComplete
PROPERTIES
  NothingStartedAfterStop
  PipelineEnds
