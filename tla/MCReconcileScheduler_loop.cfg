\* The loop, or single passes where it is off: a study and a citation that
\* change twice, two things go wrong.
SPECIFICATION Spec
CONSTANTS
  Object <- MCObject
  Batched <- MCBatched
  Deletes <- MCDeletes
  Limit = 2
  Flush = 1
  AckLimit = 2
  Graceful = FALSE
  OtherJobs = FALSE
  MaxVersion = 2
  MaxTroubles = 2
INVARIANTS TypeOK AckedMeansCurrent WorkNeedsAcks NoRedoInPass
PROPERTIES IsIndexSync
