\* Three agents, one retry, two slots; every mode and policy.
SPECIFICATION Spec
CONSTANTS
  Agents = 3
  MaxRetries = 1
  MaxParallel = 2
  Modes = {"parallel", "sequential"}
  Policies = {"ask_user", "continue", "abort"}
INVARIANTS
  
  ReportIsTrue
PROPERTIES
  CompletedIsKept
  RunEndsOrAsks
  CancelledRunEnds
CHECK_DEADLOCK FALSE
