\* What the contract says of titles that name the whole query.
SPECIFICATION ServicesSpec
CONSTANTS
  None = None
  \* the request gate
  Threads = {t1, t2}
  Interval = 1
  MaxRetries = 1
  RetryBase = 1
  RetryAfterMax = 2
  Slowdown = 3
  Delays <- GateDelays
  MaxTime = 5
  MaxSends = 0
  \* two keys, one of them a default; an admin's requests, and a sync in a job's thread
  Keys = {k1, k2}
  Fixed = {}
  Defaults = {k1}
  Admins = {a1, a2}
  Syncs = {s1}
  FacetsOps = 0
  \* reading and admin keys, at an admin's route
  Ids = {i1, i2}
  Roles = {0, 2}
  Required = {2}
  Asking = {"request"}
  Writers = {w1, w2}
  \* the index generation
  Callers = {c1, c2}
  Recreates = {"admin"}
  Ingests = {g1}
  TTL = 2
  Attempts = 2
  Unstamped = Unstamped
  GenTime = 2
  Generations = 1
  GenCalls = 0
  \* studies and what they are searched by
  Titled = {1, 2, 3, 4}
  Type <- StudyTypes
  Scorings <- StudyScorings
  Rankings <- StudyRankings
  Complete = {1, 3}
  Tokens = {2}
  FusionWindow = 2
  SemanticWindow = 2
  Limits = {1, 2}
  StudyChanges = 0
  \* chunks; a scroll and a count take two requests, the cap on the count falls inside one
  Points = {1, 2, 3, 4, 5}
  Idno <- ChunkIdnos
  Matching = {1, 2, 4}
  Lexical <- SparseOrder
  Nearest <- DenseOrder
  Close = 4
  ScrollBatch = 2
  CountBatch = 2
  CountCap = 3
  Prefetch = 3
  Inner = 3
  ScanCap = 5
  Factor = 2
  Sizes = {1, 2}
  MaxFrom = 4
  ChunkChanges = 0
  \* a batch that contains the study
  Fields = {"country", "topic"}
  Values = {"v"}
  Bodies <- FilterBodies
  NadaRecords <- FilterRecords
  Jobs = {j1, j2}
  Batches = {"batch"}
  JobWork = 0
  \* a citation, a study, two variables
  Citations = {1}
  Studies = {2}
  Variables = {3, 4}
  PageSize = 1
  Workers = {u1, u2}
  Scheduler = "scheduler"
  WalkWork = 0
INVARIANTS TitlesFirst
CHECK_DEADLOCK FALSE
