\* Three arrivals out of two requests, two scheduled tasks, a channel message, a compression.
SPECIFICATION Spec
CONSTANTS
  NRequests = 2
  NJobs = 2
  NMessages = 1
  MaxArrivals = 3
INVARIANTS
  EntriesAreTrue
PROPERTIES
  TranscriptGrows
  InterruptAnswered
CHECK_DEADLOCK FALSE
