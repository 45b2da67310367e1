\* A request runs while a compression waits for its summary.
SPECIFICATION Spec
CONSTANTS
  NRequests = 1
  NJobs = 0
  NMessages = 0
  MaxArrivals = 2
PROPERTIES
  CompressKeepsTranscript
CHECK_DEADLOCK FALSE
