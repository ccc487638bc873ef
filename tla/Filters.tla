------------------------------- MODULE Filters -------------------------------
(***************************************************************************)
(* The filters of one study, as its chunks hold them (filters/sync.py). A   *)
(* catalog route replaces, merges or clears them under the job key           *)
(* filters:{idno}, a batch sets them under a key of its own, a webhook       *)
(* re-indexes the study first (app/catalog_admin.py, app/webhooks.py); on    *)
(* Qdrant a backfill derives the flat facets of all old points from their    *)
(* rows, on OpenSearch the scheduler applies a study's options. Jobs of      *)
(* different keys run beside each other; any step may be a job's last.       *)
(***************************************************************************)
EXTENDS Integers, FiniteSets

CONSTANTS
  Fields, Values,  \* filter keys, and what a key may have
  Bodies, Records, \* the filters of requests, and those of NADA's record
  None,
  Jobs,            \* jobs under way
  Batches,         \* keys of batches that contain the study: one for each list of idnos
  MaxWork          \* bound: jobs begun and changes of NADA's record together

VARIABLES
  backend,   \* search_backend
  nada,      \* the filters of NADA's record
  indexed,   \* the study has chunks
  rows,      \* metadata.filter_fields of the chunks (Qdrant), None when they have none
  facets,    \* metadata.filter_facets of the chunks, None when they have none
  study,     \* filter_facets of the study document (OpenSearch), None without one
  job,       \* the jobs
  used,      \* how much of the bound was used
  serial,    \* history: what was asked for last, had each job read and written at once
  crossed,   \* history: a write came between a merge's reading and its writing
  overtaken, \* history: a write came between the backfill's reading and its writing
  torn       \* history: a job ended, or another wrote, between chunks and study document

vars == <<backend, nada, indexed, rows, facets, study, job, used, serial, crossed, overtaken, torn>>

Filter == [Fields -> Values \cup {None}]
Nothing == [k \in Fields |-> None]

\* The keys of the jobs that are no batches.
JobKeys == {"filters", "content", "backfill", "scheduler"}

\* None is no key and no filters, and a batch's key is none of the others.
FiltersAssumption ==
  /\ Bodies \subseteq Filter /\ Records \subseteq Filter /\ None \notin Filter
  /\ Batches \cap JobKeys = {} /\ None \notin JobKeys \cup Batches

\* The body of a PATCH: for a key a value, or none to remove the key.
Patches == UNION {[S -> Values \cup {None}] : S \in {{k} : k \in Fields}}

Merged(f, patch) == [k \in Fields |-> IF k \in DOMAIN patch THEN patch[k] ELSE f[k]]

OrNothing(f) == IF f = None THEN Nothing ELSE f

Idle == [pc |-> "idle", key |-> None, f |-> None, body |-> None]

\* Old points have rows without facets.
Init ==
  /\ backend \in {"qdrant", "opensearch"}
  /\ nada \in Records
  /\ indexed \in BOOLEAN
  /\ rows = IF backend = "qdrant" /\ indexed THEN nada ELSE None
  /\ facets \in IF indexed THEN IF backend = "qdrant" THEN {nada, None} ELSE {nada} ELSE {None}
  /\ study \in IF backend = "opensearch" /\ indexed THEN {nada, None} ELSE {None}
  /\ job = [j \in Jobs |-> Idle]
  /\ used = 0
  /\ serial = OrNothing(IF backend = "qdrant" THEN rows ELSE facets)
  /\ crossed = FALSE /\ overtaken = FALSE /\ torn = FALSE

-----------------------------------------------------------------------------
(* Submission, which the registry refuses while a job has the key. *)

\* Mutant: a request for the same filters runs beside the one under way.
FreeAlways(key) == TRUE

Free(key) == \A j \in Jobs : job[j].key # key

Submit(j, key, pc, f, body) ==
  /\ job[j] = Idle /\ j = (CHOOSE i \in Jobs : job[i] = Idle)
  /\ used < MaxWork /\ Free(key)
  /\ job' = [job EXCEPT ![j] = [pc |-> pc, key |-> key, f |-> f, body |-> body]]
  /\ used' = used + 1
  /\ UNCHANGED <<backend, nada, indexed, rows, facets, study, serial, crossed, overtaken, torn>>

Put(j) == \E f \in Bodies : Submit(j, "filters", "sync", f, None)
Clear(j) == Submit(j, "filters", "sync", Nothing, None)
Patch(j) == \E patch \in Patches : Submit(j, "filters", "read", None, patch)
Batch(j) == \E key \in Batches, f \in Bodies : Submit(j, key, "sync", f, None)
Upsert(j) == \E body \in Bodies \cup {None} : Submit(j, "content", "delete", None, body)
Backfill(j) == backend = "qdrant" /\ Submit(j, "backfill", "scan", None, None)

\* A partial update of the scheduler, which processes one item at a time.
Options(j) == backend = "opensearch" /\ Submit(j, "scheduler", "fetch", None, None)

-----------------------------------------------------------------------------
(* What the jobs write. *)

Does(j, pc, f) ==
  job' = [job EXCEPT ![j] = [pc |-> pc, key |-> job[j].key, f |-> f, body |-> job[j].body]]
GoesTo(j, pc) == Does(j, pc, job[j].f)
Ends(j) == job' = [job EXCEPT ![j] = Idle]

\* Between its write of the chunks and that of the study document, or the other way round.
Midway(j) ==
  \/ job[j].pc = "chunks"
  \/ job[j].pc \in {"fetch", "rewrite"} /\ job[j].key # "scheduler"

Crosses(j) ==
  /\ crossed' = (crossed \/ \E i \in Jobs \ {j} : job[i].pc = "merge" /\ job[i].key # job[j].key)
  /\ overtaken' = (overtaken \/ \E i \in Jobs \ {j} : job[i].pc = "facets")
  /\ torn' = (torn \/ \E i \in Jobs \ {j} : Midway(i))

Stored(j, f) ==
  /\ facets' = IF indexed THEN f ELSE facets
  /\ rows' = IF indexed /\ backend = "qdrant" THEN f ELSE rows
  /\ Crosses(j)

\* get_filter_fields_for_idno, and what the PATCH makes of it.
Read(j) ==
  /\ job[j].pc = "read"
  /\ LET seen == OrNothing(IF backend = "qdrant" THEN rows ELSE facets)
     IN Does(j, "merge", Merged(seen, job[j].body))
  /\ UNCHANGED <<backend, nada, indexed, rows, facets, study, used, serial, crossed, overtaken, torn>>

\* sync_filters_for_idno: rows and facets in one payload, or the chunks and then, where
\* there is a study document, what apply_study_options_op makes of NADA's record.
Sync(j) ==
  /\ job[j].pc \in {"sync", "merge"}
  /\ Stored(j, job[j].f)
  /\ serial' = IF ~indexed THEN serial
               ELSE IF job[j].pc = "merge" THEN Merged(serial, job[j].body) ELSE job[j].f
  /\ IF study = None THEN Ends(j) ELSE GoesTo(j, "fetch")
  /\ UNCHANGED <<backend, nada, indexed, study, used>>

Fetch(j) ==
  /\ job[j].pc = "fetch"
  /\ Does(j, "rewrite", nada)
  /\ UNCHANGED <<backend, nada, indexed, rows, facets, study, used, serial, crossed, overtaken, torn>>

\* apply_study_options_from_extract: without a study document there is nothing to do; it
\* is rewritten, then the chunks of its sid. The scheduler was asked for that, a request for
\* other filters was not.
Rewrite(j) ==
  /\ job[j].pc = "rewrite"
  /\ IF study = None THEN Ends(j) /\ UNCHANGED <<study, crossed, overtaken, torn>>
     ELSE GoesTo(j, "chunks") /\ study' = job[j].f /\ Crosses(j)
  /\ UNCHANGED <<backend, nada, indexed, rows, facets, used, serial>>

RewriteChunks(j) ==
  /\ job[j].pc = "chunks"
  /\ Stored(j, job[j].f)
  /\ serial' = IF indexed /\ job[j].key = "scheduler" THEN job[j].f ELSE serial
  /\ Ends(j)
  /\ UNCHANGED <<backend, nada, indexed, study, used>>

\* webhook_catalog: the study goes, comes back with the filters of NADA's record, and gets
\* those of the request, if it has any.
Delete(j) ==
  /\ job[j].pc = "delete"
  /\ indexed' = FALSE /\ rows' = None /\ facets' = None /\ study' = None
  /\ Crosses(j)
  /\ GoesTo(j, "load")
  /\ UNCHANGED <<backend, nada, used, serial>>

Load(j) ==
  /\ job[j].pc = "load"
  /\ Does(j, "index", nada)
  /\ UNCHANGED <<backend, nada, indexed, rows, facets, study, used, serial, crossed, overtaken, torn>>

Index(j) ==
  /\ job[j].pc = "index"
  /\ indexed' = TRUE /\ facets' = job[j].f /\ serial' = job[j].f
  /\ rows' = IF backend = "qdrant" THEN job[j].f ELSE None
  /\ study' = IF backend = "opensearch" THEN job[j].f ELSE None
  /\ Crosses(j)
  /\ IF job[j].body \in {None, Nothing} THEN Ends(j)
     ELSE Does(j, "sync", job[j].body)
  /\ UNCHANGED <<backend, nada, used>>

\* backfill_filter_facets reads every point, then writes those without facets.
Scan(j) ==
  /\ job[j].pc = "scan"
  /\ IF indexed /\ facets \in {None, Nothing} /\ OrNothing(rows) # Nothing
     THEN Does(j, "facets", rows) ELSE Ends(j)
  /\ UNCHANGED <<backend, nada, indexed, rows, facets, study, used, serial, crossed, overtaken, torn>>

WriteFacets(j) ==
  /\ job[j].pc = "facets"
  /\ facets' = IF indexed THEN job[j].f ELSE facets
  /\ Ends(j)
  /\ UNCHANGED <<backend, nada, indexed, rows, study, used, serial, crossed, overtaken, torn>>

-----------------------------------------------------------------------------
\* A request to the backend or to NADA fails, and the job with it.
Fails(j) ==
  /\ job[j] # Idle
  /\ torn' = (torn \/ Midway(j))
  /\ Ends(j)
  /\ UNCHANGED <<backend, nada, indexed, rows, facets, study, used, serial, crossed, overtaken>>

Crash ==
  /\ \E j \in Jobs : job[j] # Idle
  /\ torn' = (torn \/ \E j \in Jobs : Midway(j))
  /\ job' = [j \in Jobs |-> Idle]
  /\ UNCHANGED <<backend, nada, indexed, rows, facets, study, used, serial, crossed, overtaken>>

Change ==
  /\ used < MaxWork
  /\ nada' \in Records \ {nada}
  /\ used' = used + 1
  /\ UNCHANGED <<backend, indexed, rows, facets, study, job, serial, crossed, overtaken, torn>>

Request(j) == Put(j) \/ Clear(j) \/ Patch(j) \/ Batch(j) \/ Upsert(j) \/ Backfill(j) \/ Options(j)

Step(j) ==
  \/ Read(j) \/ Sync(j) \/ Fetch(j) \/ Rewrite(j) \/ RewriteChunks(j)
  \/ Delete(j) \/ Load(j) \/ Index(j) \/ Scan(j) \/ WriteFacets(j)

Next == (\E j \in Jobs : Request(j) \/ Step(j) \/ Fails(j)) \/ Crash \/ Change

Spec == Init /\ [][Next]_vars

-----------------------------------------------------------------------------
\* Rows are only on Qdrant, a study document only on OpenSearch, nothing without chunks.
TypeOK ==
  /\ backend \in {"qdrant", "opensearch"} /\ nada \in Filter /\ indexed \in BOOLEAN
  /\ rows \in IF backend = "qdrant" /\ indexed THEN Filter ELSE {None}
  /\ facets \in IF indexed THEN Filter \cup {None} ELSE {None}
  /\ study \in IF backend = "opensearch" THEN Filter \cup {None} ELSE {None}
  /\ \A i, j \in Jobs : job[i].key = job[j].key => i = j \/ job[i] = Idle

\* app/catalog_admin.py:182, Qdrant: a merge loses no field that another request set, and
\* brings none back, though it reads and writes in two steps, unless a job under another
\* key wrote between them. (On OpenSearch it is lost at once: RequestsStand.)
MergesLoseNothing == backend = "qdrant" /\ indexed /\ ~crossed => serial = OrNothing(rows)

\* filters/sync.py:86, Qdrant: what a search filters by is what the rows say, unless the
\* backfill wrote what it had read before another job's write.
FacetsFollowRows ==
  backend = "qdrant" /\ ~overtaken => facets \in {None, rows}

\* filters/sync.py:175, OpenSearch: once no sync is half-way, the study document and its
\* chunks have the same filters, unless a sync failed there or two of them crossed.
ChunksFollowStudy ==
  indexed /\ study # None /\ ~torn /\ (\A j \in Jobs : ~Midway(j)) => facets = study

-----------------------------------------------------------------------------
(* What docstrings say and the code does not do. *)

\* app/catalog_admin.py:151, 175, OpenSearch: a PUT is to "Replace all filter_fields", a
\* PATCH to merge new ones "into existing ones". So when such a job has run to its end, and
\* none under another key wrote in between, the chunks have what was asked for.
RequestsStand ==
  [][\A j \in Jobs :
       backend = "opensearch" /\ indexed /\ ~crossed /\ job[j].key = "filters"
         /\ job'[j] = Idle /\ (Sync(j) \/ RewriteChunks(j))
         => OrNothing(facets') = serial']_vars
=============================================================================
