\* Two runs on OpenSearch or on Qdrant, fresh, resumed or recreating: cancelled,
\* crashed, aborted, overlapping, with the index dropped beside them.
SPECIFICATION Spec
CONSTANTS
  Study <- MCStudy
  Chunks <- MCChunks
  Stale = {"s1", "s2"}
  Microdata = {"s1"}
  NoFile = NoFile
  SaveEvery = 2
  MaxRuns = 2
INVARIANTS TypeOK CheckpointedMeansWritten OldUntilNew IndexedMeansWritten
PROPERTIES EveryStudyAccounted
CHECK_DEADLOCK FALSE
