\* What app/_ingest.py says of the scheduler and the content jobs.
SPECIFICATION Spec
CONSTANTS
  Object <- MCObject
  Batched <- MCBatched
  Deletes <- MCDeletes
  Limit = 2
  Flush = 2
  AckLimit = 2
  Graceful = FALSE
  OtherJobs = TRUE
  MaxVersion = 1
  MaxTroubles = 0
PROPERTIES NeverRolledBack
