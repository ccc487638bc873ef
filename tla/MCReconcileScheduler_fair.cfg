\* Liveness beside other writers and graceful stops: pages of one row, one thing
\* goes wrong, the first failed ack request trips the breaker.
SPECIFICATION FairSpec
CONSTANTS
  Object <- MCObject
  Batched <- MCBatched
  Deletes <- MCDeletes
  Limit = 1
  Flush = 2
  AckLimit = 1
  Graceful = TRUE
  OtherJobs = TRUE
  MaxVersion = 1
  MaxTroubles = 1
PROPERTIES CatchesUp
