SPECIFICATION Spec
CONSTANTS
  d1 = d1
  d2 = d2
  r1 = r1
  r2 = r2
  r3 = r3
  up = up
  prepare = prepare
  stop = stop
  None = None
  Attempts = {"a"}
  Domains = {d1, d2}
  Runs = {r1, r2, r3}
  DomainOf <- MCTwoDomains
  Commands = {up, prepare, stop}
  KindOf <- MCAllKinds
  StopWhileAlive = FALSE
  PrepareWhileStarting = TRUE
CHECK_DEADLOCK FALSE
INVARIANTS
  MutationExcludesRun
