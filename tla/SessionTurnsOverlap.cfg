\* Two requests pass the check before the first of them is registered.
SPECIFICATION Spec
CONSTANTS
  NRequests = 2
  NJobs = 0
  NMessages = 0
  MaxArrivals = 2
INVARIANTS
  OneTurnPerSession
CHECK_DEADLOCK FALSE
