\* The failure of a parallel task is answered with a retry.
SPECIFICATION Spec
CONSTANTS
  Agents = 1
  MaxRetries = 1
  MaxParallel = 1
  Modes = {"parallel"}
  Policies = {"ask_user"}
INVARIANTS
  WaitAll
CHECK_DEADLOCK FALSE
