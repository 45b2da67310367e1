\* Tasks and the run are cancelled between two tasks.
SPECIFICATION Spec
CONSTANTS
  Agents = 2
  MaxRetries = 0
  MaxParallel = 1
  Modes = {"parallel", "sequential"}
  Policies = {"continue"}
PROPERTIES
  CancelledDoesNotRun
CHECK_DEADLOCK FALSE
