\* A queued task is cancelled.
SPECIFICATION Spec
CONSTANTS
  Agents = 2
  MaxRetries = 0
  MaxParallel = 1
  Modes = {"parallel", "sequential"}
  Policies = {"continue"}
INVARIANTS
  AlwaysReports
CHECK_DEADLOCK FALSE
