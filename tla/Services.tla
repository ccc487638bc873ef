------------------------------- MODULE Services -------------------------------
(***************************************************************************)
(* Eight parts of the server that share no state with each other, in one       *)
(* specification: `part` says which of them runs, the variables of the       *)
(* others are None and stay so.                                            *)
(***************************************************************************)
EXTENDS Gate

CONSTANTS
  Keys, Fixed, Defaults, Admins, Syncs, FacetsOps,           \* the facets registry
  Ids, Roles, Required, Asking, Writers,                     \* the API keys
  Callers, Recreates, Ingests, TTL, Attempts, Unstamped,     \* the index generation
  GenTime, Generations, GenCalls,
  Titled, Type, Scorings, Rankings, Complete, Tokens,        \* the study search
  FusionWindow, SemanticWindow, Limits, StudyChanges,
  Points, Idno, Matching, Lexical, Nearest, Close,           \* the chunk search
  ScrollBatch, CountBatch, CountCap, Prefetch, Inner, ScanCap, Factor, Sizes, MaxFrom, ChunkChanges,
  Fields, Values, Bodies, NadaRecords, Jobs, Batches, JobWork,   \* a study's filters
  Citations, Studies, Variables, PageSize, Workers, Scheduler, WalkWork   \* the walks

VARIABLES
  part,
  facetsFile, facetsLock, op, begun, removed, serial, alone, overtaken,
  envKey, keysFile, lost, keysLock, writer, keysReq, issued, revoked, valid,
  index, next, cache, genLock, caller, admin, ingest, genNow, calls, settled,
  docs, score, near, req, page, pages, calm, changes,
  points, qreq, qpage, qpages, qcalm, qchanges,
  backend, record, indexed, rows, facets, studyFacets, job, asks, merged, crossed, refilled, torn,
  catalog, held, bare, belief, queue, walk, walks, done, older, imported

facetsVars == <<facetsFile, facetsLock, op, begun, removed, serial, alone, overtaken>>
keysVars == <<envKey, keysFile, lost, keysLock, writer, keysReq, issued, revoked, valid>>
genVars == <<index, next, cache, genLock, caller, admin, ingest, genNow, calls, settled>>
studyVars == <<docs, score, near, req, page, pages, calm, changes>>
qdrantVars == <<points, qreq, qpage, qpages, qcalm, qchanges>>
filterVars ==
  <<backend, record, indexed, rows, facets, studyFacets, job, asks, merged, crossed, refilled, torn>>
walkVars == <<catalog, held, bare, belief, queue, walk, walks, done, older, imported>>

F == INSTANCE Facets WITH
  file <- facetsFile, lock <- facetsLock, MaxOps <- FacetsOps

K == INSTANCE KeyStore WITH
  file <- keysFile, lock <- keysLock, req <- keysReq, Requests <- Asking

I == INSTANCE Generation WITH
  lock <- genLock, now <- genNow, Admins <- Recreates,
  MaxTime <- GenTime, MaxGenerations <- Generations, MaxCalls <- GenCalls

S == INSTANCE StudySearch WITH Studies <- Titled, MaxChanges <- StudyChanges

Q == INSTANCE QdrantSearch WITH
  req <- qreq, page <- qpage, pages <- qpages, calm <- qcalm, changes <- qchanges,
  Batch <- ScrollBatch, MaxChanges <- ChunkChanges

T == INSTANCE Filters WITH
  nada <- record, study <- studyFacets, used <- asks, serial <- merged, overtaken <- refilled,
  Records <- NadaRecords, MaxWork <- JobWork

W == INSTANCE Walks WITH
  nada <- catalog, index <- held, op <- walk, used <- walks, overtaken <- older,
  MaxWork <- WalkWork

\* What the parts take of their constants.
ASSUME ServicesAssumption ==
  /\ F!FacetsAssumption /\ K!KeysAssumption /\ I!GenerationAssumption
  /\ S!StudiesAssumption /\ Q!QdrantAssumption /\ T!FiltersAssumption /\ W!WalksAssumption

-----------------------------------------------------------------------------
NoGate ==
  /\ now = None /\ holder = None /\ th = None /\ lastEnd = None /\ slowUntil = None
  /\ notBefore = None /\ trouble = None /\ sends = None /\ asked = None /\ walls = None
NoFacets ==
  /\ facetsFile = None /\ facetsLock = None /\ op = None /\ begun = None /\ removed = None
  /\ serial = None /\ alone = None /\ overtaken = None
NoKeys ==
  /\ envKey = None /\ keysFile = None /\ lost = None /\ keysLock = None /\ writer = None /\ keysReq = None
  /\ issued = None /\ revoked = None /\ valid = None
NoGeneration ==
  /\ index = None /\ next = None /\ cache = None /\ genLock = None /\ caller = None
  /\ admin = None /\ ingest = None /\ genNow = None /\ calls = None /\ settled = None
NoStudies ==
  /\ docs = None /\ score = None /\ near = None /\ req = None /\ page = None /\ pages = None
  /\ calm = None /\ changes = None
NoQdrant ==
  /\ points = None /\ qreq = None /\ qpage = None /\ qpages = None /\ qcalm = None /\ qchanges = None

NoFilters ==
  /\ backend = None /\ record = None /\ indexed = None /\ rows = None /\ facets = None
  /\ studyFacets = None /\ job = None /\ asks = None /\ merged = None /\ crossed = None
  /\ refilled = None /\ torn = None
NoWalks ==
  /\ catalog = None /\ held = None /\ bare = None /\ belief = None /\ queue = None
  /\ walk = None /\ walks = None /\ done = None /\ older = None /\ imported = None

ServicesInit ==
  \/ /\ part = "gate" /\ Init
     /\ NoFacets /\ NoKeys /\ NoGeneration /\ NoStudies /\ NoQdrant /\ NoFilters /\ NoWalks
  \/ /\ part = "facets" /\ F!Init
     /\ NoGate /\ NoKeys /\ NoGeneration /\ NoStudies /\ NoQdrant /\ NoFilters /\ NoWalks
  \/ /\ part = "keys" /\ K!Init
     /\ NoGate /\ NoFacets /\ NoGeneration /\ NoStudies /\ NoQdrant /\ NoFilters /\ NoWalks
  \/ /\ part = "generation" /\ I!Init
     /\ NoGate /\ NoFacets /\ NoKeys /\ NoStudies /\ NoQdrant /\ NoFilters /\ NoWalks
  \/ /\ part = "studies" /\ S!Init
     /\ NoGate /\ NoFacets /\ NoKeys /\ NoGeneration /\ NoQdrant /\ NoFilters /\ NoWalks
  \/ /\ part = "qdrant" /\ Q!Init
     /\ NoGate /\ NoFacets /\ NoKeys /\ NoGeneration /\ NoStudies /\ NoFilters /\ NoWalks
  \/ /\ part = "filters" /\ T!Init
     /\ NoGate /\ NoFacets /\ NoKeys /\ NoGeneration /\ NoStudies /\ NoQdrant /\ NoWalks
  \/ /\ part = "walks" /\ W!Init
     /\ NoGate /\ NoFacets /\ NoKeys /\ NoGeneration /\ NoStudies /\ NoQdrant /\ NoFilters

ServicesNext ==
  \/ /\ part = "gate" /\ Next
     /\ UNCHANGED <<part, facetsVars, keysVars, genVars, studyVars, qdrantVars, filterVars, walkVars>>
  \/ /\ part = "facets" /\ F!Next
     /\ UNCHANGED <<part, vars, keysVars, genVars, studyVars, qdrantVars, filterVars, walkVars>>
  \/ /\ part = "keys" /\ K!Next
     /\ UNCHANGED <<part, vars, facetsVars, genVars, studyVars, qdrantVars, filterVars, walkVars>>
  \/ /\ part = "generation" /\ I!Next
     /\ UNCHANGED <<part, vars, facetsVars, keysVars, studyVars, qdrantVars, filterVars, walkVars>>
  \/ /\ part = "studies" /\ S!Next
     /\ UNCHANGED <<part, vars, facetsVars, keysVars, genVars, qdrantVars, filterVars, walkVars>>
  \/ /\ part = "qdrant" /\ Q!Next
     /\ UNCHANGED <<part, vars, facetsVars, keysVars, genVars, studyVars, filterVars, walkVars>>
  \/ /\ part = "filters" /\ T!Next
     /\ UNCHANGED <<part, vars, facetsVars, keysVars, genVars, studyVars, qdrantVars, walkVars>>
  \/ /\ part = "walks" /\ W!Next
     /\ UNCHANGED <<part, vars, facetsVars, keysVars, genVars, studyVars, qdrantVars, filterVars>>

servicesVars ==
  <<part, vars, facetsVars, keysVars, genVars, studyVars, qdrantVars, filterVars, walkVars>>

ServicesSpec == ServicesInit /\ [][ServicesNext]_servicesVars

-----------------------------------------------------------------------------
\* Type correctness of the part that runs.
ServicesTypeOK ==
  CASE part = "gate" -> TypeOK
    [] part = "facets" -> F!TypeOK
    [] part = "keys" -> K!TypeOK
    [] part = "generation" -> I!TypeOK
    [] part = "studies" -> S!TypeOK
    [] part = "qdrant" -> Q!TypeOK
    [] part = "filters" -> T!TypeOK
    [] part = "walks" -> W!TypeOK

\* nada/gate.py: no request leaves before the time a busy NADA asked for, a firewall
\* block ends the call, requests keep their distance whoever sends them, and who asks
\* for the trouble behind its failed call finds one.
GatePolite ==
  /\ [](part = "gate" => RetryAfterKept /\ FirewallEndsCall /\ FailureIsSeen)
  /\ [][part = "gate" => KeepsGap]_vars

\* search/dynamic_filters.py: requests under facets_config_lock lose no update, and a
\* removed key stays removed though NADA sends it again, unless the file could not be read
\* and the defaults were saved in its place.
RegistryHolds == part = "facets" => F!RequestsSerialised /\ F!RemovedStaysOut

\* app/keys_store.py: an answered creation or revocation lasts, and who is let in has a
\* key that was in force while its request ran.
KeysHold == part = "keys" => K!AnsweredStays /\ K!LetInByKey

\* search/backend/opensearch/generation.py: after a route or an ingest is through with
\* the index, no request to NADA carries the generation the index had before.
GenerationIsNew == part = "generation" => I!NewOneSent

\* app/studies_search.py: a response's hits, counts and total agree, whatever changes between
\* its requests, and the pages of an index at rest join up to what one page would answer.
StudyPagesHold == part = "studies" => S!ResponsesAddUp /\ S!PagesJoinUp

\* search/backend/qdrant/search_backend.py: totals keep their cap and their count, and
\* pages made from the same lists join up.
QdrantPagesHold == part = "qdrant" => Q!TotalsHold /\ Q!PagesJoinUp

\* filters/sync.py, app/catalog_admin.py: on Qdrant, a merge of a study's filters loses no
\* other request's, but for those of jobs under another key; on either backend the places a
\* study's filters are kept in agree.
FiltersHold ==
  part = "filters" => T!MergesLoseNothing /\ T!FacetsFollowRows /\ T!ChunksFollowStudy

\* ingest/citations_index.py, ingest/variables_index.py, import_index_state: what was written
\* is what the catalog has once all is quiet, an import leaves nothing undone, and nothing
\* is dropped because NADA could not be read, but the variables of a study that an item has
\* begun to replace, and its row stays.
WalksHold ==
  /\ [](part = "walks" => W!UpToDate /\ W!ImportSettles)
  /\ [][part = "walks" => W!DropsTheGone]_walkVars

-----------------------------------------------------------------------------
(* What docs and docstrings say and the code does not do. *)

\* app/catalog_admin.py: on OpenSearch, a request that replaces or merges a study's filters
\* is not undone by the write that carries it out.
RequestsStand == T!RequestsStand

\* docs/studies-search-contract.md, 6.1: a title that names the whole query comes first.
TitlesFirst == part = "studies" => S!TitlesComeFirst
=============================================================================
