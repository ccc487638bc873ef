--------------------------- MODULE CatalogIngest ----------------------------
(***************************************************************************)
(* Full-catalog ingest of one catalog type: index_from_catalog_op with the *)
(* pipeline, the backend writer and the checkpoint file under it.          *)
(*                                                                         *)
(* A run is one synchronous loop on a worker thread. A second run of the   *)
(* same type can be under way beside it only when the first one's job was  *)
(* cancelled: its key is free then, its thread still winds down (module    *)
(* JobRegistry). The process may stop at any point, and then only what is  *)
(* in the backend, in the checkpoint file and in NADA's books remains.     *)
(*                                                                         *)
(* The study's content does not change between runs; what an earlier       *)
(* content left in the index is `old`.                                     *)
(***************************************************************************)
EXTENDS Integers, FiniteSets

CONSTANTS
  Study,       \* the catalog's studies, by idno
  Chunks,      \* how many text chunks each one has now, for each backend
  Stale,       \* the studies with chunks of an earlier content in the index
  Microdata,   \* the studies that have variables
  NoFile,      \* there is no checkpoint file
  SaveEvery,   \* save_every: marks between two saves of the checkpoint
  MaxRuns      \* bound: how many runs are started

ASSUME CatalogAssumption ==
  /\ IsFiniteSet(Study)
  /\ Chunks \in [{"opensearch", "qdrant"} -> [Study -> Nat]]
  /\ Stale \subseteq Study
  /\ Microdata \subseteq Study
  /\ SaveEvery \in Nat \ {0}
  /\ MaxRuns \in Nat

Run == 1 .. MaxRuns

\* What a run is asked for: everything, the rest of an interrupted one, or
\* everything into a new index.
Requests == {"fresh", "resume", "recreate"}

Total == Cardinality(Study)

\* A document is <<its study, its place>>.
Doc == Study \X Nat

Checkpoint == [done : SUBSET Study, failed : SUBSET Study]

ASSUME NoFileAssumption == NoFile \notin Checkpoint

VARIABLES
  backend,  \* settings.search_backend
  file,     \* the checkpoint file
  index,    \* the documents in the search backend
  old,      \* the studies whose old chunks are still there
  vars,     \* the studies whose variables are in the variable index
  reported, \* what NADA's search_index_state was last told of each study
  run,      \* each run's own state, in memory
  recreated \* history: the index was dropped since the start

allVars == <<backend, file, index, old, vars, reported, run, recreated>>

OpenSearch == backend = "opensearch"

\* The study document has place 0 and exists on OpenSearch only.
ChunksOf(s) == {<<s, i>> : i \in 1 .. Chunks[backend][s]}
DocsOf(s) == ChunksOf(s) \cup (IF OpenSearch THEN {<<s, 0>>} ELSE {})

\* One run: `pairs` are the rows it set out to do and `todo` those left,
\* `done` and `failed` are its tracker's checkpoint, `pending` are documents
\* announced (progress.expect) and not sent, `answered` those the backend
\* answered and progress.confirm was not yet called for.
Idle == [pc |-> "new", token |-> FALSE, pairs |-> {}, todo |-> {}, loaded |-> {},
         done |-> {}, failed |-> {}, processed |-> 0, since |-> 0,
         pending |-> {}, answered |-> {}, rejected |-> {}, aborted |-> FALSE, novars |-> {}]

Over == [Idle EXCEPT !.pc = "over"]

RunState ==
  [pc : {"new", "load", "finalize", "variables", "report", "over"}, token : BOOLEAN,
   pairs : SUBSET Study, todo : SUBSET Study, loaded : SUBSET Study,
   done : SUBSET Study, failed : SUBSET Study, processed : Nat, since : Nat,
   pending : SUBSET Doc, answered : SUBSET Doc, rejected : SUBSET Doc,
   aborted : BOOLEAN, novars : SUBSET Study]

TypeOK ==
  /\ backend \in {"opensearch", "qdrant"}
  /\ file \in Checkpoint \cup {NoFile}
  /\ index \subseteq Doc
  /\ old \subseteq Study
  /\ vars \subseteq Study
  /\ reported \in [Study -> {"none", "indexed", "failed"}]
  /\ run \in [Run -> RunState]
  /\ recreated \in BOOLEAN

\* (On Qdrant nothing prunes old chunks: `old` stays.)
Init ==
  /\ backend \in {"opensearch", "qdrant"}
  /\ file = NoFile
  /\ index = {}
  /\ old = Stale
  /\ vars = {}
  /\ reported = [s \in Study |-> "none"]
  /\ run = [r \in Run |-> Idle]
  /\ recreated = FALSE

Live(r) == run[r].pc \notin {"new", "over"}

-----------------------------------------------------------------------------
\* (The definitions called mutants are bugs the code could have; no action uses
\* them. Each shows that a property would notice.)

\* Mutant: the failed studies are not written.
SaveDoneOnly(c) == file' = [done |-> c.done]

\* save_checkpoint: the file is replaced, atomically, by what run state c has.
Save(c) == file' = [done |-> c.done, failed |-> c.failed]

\* IngestProgressTracker.mark, for the run's state c: every SaveEvery marks,
\* and at the end of the list, the checkpoint is saved.
Mark(r, c, s, ok) ==
  LET full == c.since + 1 >= SaveEvery \/ c.processed + 1 >= Total
      m == [c EXCEPT !.done = IF ok THEN @ \cup {s} ELSE @,
                     !.failed = IF ok THEN @ \ {s} ELSE @ \cup {s},
                     !.processed = @ + 1,
                     !.since = IF full THEN 0 ELSE @ + 1]
  IN /\ run' = [run EXCEPT ![r] = m]
     /\ IF full THEN Save(m) ELSE UNCHANGED file

\* The index is dropped and created anew, with everything in it.
Drop == index' = {} /\ old' = {} /\ vars' = {} /\ recreated' = TRUE

\* index_from_catalog_op until its loop: a resumed run takes up the checkpoint
\* and skips what it has done, any other starts from nothing and leaves the
\* file as it is. Failed studies count as processed already, and are retried.
Start(r, request) ==
  /\ run[r].pc = "new"
  /\ \A q \in Run : q < r => run[q].pc = "over" \/ run[q].token
  /\ LET known == IF request = "resume" /\ file # NoFile
                  THEN file ELSE [done |-> {}, failed |-> {}]
     IN run' = [run EXCEPT ![r] =
          [Idle EXCEPT !.pc = "load",
                       !.pairs = Study \ known.done,
                       !.todo = Study \ known.done,
                       !.done = known.done,
                       !.failed = known.failed,
                       !.processed = Cardinality(known.done) + Cardinality(known.failed)]]
  /\ IF request = "recreate"
     THEN Drop
     ELSE UNCHANGED <<index, old, vars, recreated>>
  /\ UNCHANGED <<file, reported>>

\* iter_langdoc_records takes the next row, unless its token is set. The row
\* does not load, or its documents are announced; one without any is done.
Load(r, s) ==
  /\ run[r].pc = "load" /\ ~run[r].token /\ run[r].answered = {}
  /\ s \in run[r].todo
  /\ LET c == [run[r] EXCEPT !.todo = @ \ {s}]
         l == [c EXCEPT !.loaded = @ \cup {s}, !.pending = @ \cup DocsOf(s)]
     IN \/ Mark(r, c, s, FALSE)
        \/ IF DocsOf(s) = {}
           THEN Mark(r, l, s, TRUE)
           ELSE run' = [run EXCEPT ![r] = l] /\ UNCHANGED file
  /\ UNCHANGED <<index, old, vars, reported, recreated>>

\* A bulk request is answered: each document of the batch is in the index, or
\* was rejected.
Send(r, batch, bad) ==
  /\ run[r].pc = "load" /\ run[r].answered = {}
  /\ batch # {} /\ batch \subseteq run[r].pending
  /\ bad \subseteq batch
  /\ LET c == run[r]
     IN run' = [run EXCEPT ![r] = [c EXCEPT !.pending = @ \ batch,
                                            !.answered = batch,
                                            !.rejected = @ \cup bad]]
  /\ index' = index \cup (batch \ bad)
  /\ UNCHANGED <<file, old, vars, reported, recreated>>

\* Mutant: a study is done with the first of its documents.
ConfirmEach(r, d) ==
  /\ run[r].pc = "load"
  /\ d \in run[r].answered
  /\ Mark(r, [run[r] EXCEPT !.answered = @ \ {d}], d[1], d \notin run[r].rejected)
  /\ UNCHANGED <<index, old, vars, reported, recreated>>

\* progress.confirm for one answered document: the study's last one marks it.
Confirm(r, d) ==
  /\ run[r].pc = "load"
  /\ d \in run[r].answered
  /\ LET s == d[1]
         c == [run[r] EXCEPT !.answered = @ \ {d}]
     IN IF DocsOf(s) \cap (c.pending \cup c.answered) = {}
        THEN Mark(r, c, s, DocsOf(s) \cap c.rejected = {})
        ELSE run' = [run EXCEPT ![r] = c] /\ UNCHANGED file
  /\ UNCHANGED <<index, old, vars, reported, recreated>>

\* Mutant: the loop ends whenever nothing is waiting to be sent.
DrainedEarly(r) ==
  /\ run[r].pc = "load"
  /\ run[r].pending = {} /\ run[r].answered = {}

\* Every document the loop produced is written and confirmed.
Drained(r) ==
  /\ run[r].pc = "load"
  /\ run[r].todo = {} \/ run[r].token
  /\ run[r].pending = {} /\ run[r].answered = {}

\* Mutant: the studies whose chunks failed are pruned too.
PruneAll(r) ==
  /\ Drained(r)
  /\ run' = [run EXCEPT ![r].pc = "finalize"]
  /\ old' = old \ run[r].loaded
  /\ UNCHANGED <<file, index, vars, reported, recreated>>

\* _prune_stale_chunks: the old chunks of the studies this run loaded go, but
\* for those with a chunk that failed to write.
Prune(r) ==
  /\ Drained(r)
  /\ run' = [run EXCEPT ![r].pc = "finalize"]
  /\ old' = IF OpenSearch
            THEN old \ {s \in run[r].loaded : ChunksOf(s) \cap run[r].rejected = {}}
            ELSE old
  /\ UNCHANGED <<file, index, vars, reported, recreated>>

\* An exception no row can answer for: the backend is gone (a part of the last
\* request may have been carried out), the embedding model fails. The OpenSearch
\* run keeps its checkpoint and raises; the Qdrant writer notes the error,
\* drops what it has not sent, and returns as if it were done.
Abort(r) ==
  /\ run[r].pc = "load" /\ run[r].answered = {}
  /\ IF OpenSearch
     THEN /\ \E landed \in SUBSET run[r].pending : index' = index \cup landed
          /\ Save(run[r])
          /\ run' = [run EXCEPT ![r] = Over]
     ELSE /\ run' = [run EXCEPT ![r].pc = "finalize", ![r].pending = {}, ![r].aborted = TRUE]
          /\ UNCHANGED <<file, index>>
  /\ UNCHANGED <<old, vars, reported, recreated>>

\* The rows that did not load, and the microdata studies that need variables.
Unloaded(r) == (run[r].pairs \ run[r].todo) \ run[r].loaded
VariablesOf(r) == IF OpenSearch THEN (run[r].pairs \cap Microdata) \ Unloaded(r) ELSE {}

\* tracker.finalize: the file is removed, or kept up to date for a resume when
\* the run was cancelled; then no variables are synced.
Finalize(r) ==
  /\ run[r].pc = "finalize"
  /\ IF run[r].token
     THEN /\ Save(run[r])
          /\ run' = [run EXCEPT ![r].pc = "report", ![r].novars = VariablesOf(r)]
     ELSE /\ file' = NoFile
          /\ run' = [run EXCEPT ![r].pc = "variables"]
  /\ UNCHANGED <<index, old, vars, reported, recreated>>

\* _sync_variables_best_effort, for the studies of this run: some succeed, the
\* others fail or are not reached before a cancel.
Variables(r, synced) ==
  /\ run[r].pc = "variables"
  /\ synced \subseteq VariablesOf(r)
  /\ vars' = vars \cup synced
  /\ run' = [run EXCEPT ![r].pc = "report", ![r].novars = VariablesOf(r) \ synced]
  /\ UNCHANGED <<file, index, old, reported, recreated>>

\* _state_report_items: nothing is reported indexed when an error cannot be
\* tied to a study, as that of a study document (it carries no metadata.idno)
\* or of an aborted Qdrant run.
Failures(r) ==
  LET c == run[r]
  IN Unloaded(r) \cup c.novars
       \cup {s \in c.loaded : Chunks[backend][s] = 0 \/ ChunksOf(s) \cap c.rejected # {}}

\* Mutant: what loaded and did not fail is taken for indexed.
IndexedLoaded(r) == run[r].loaded \ Failures(r)

Indexed(r) ==
  IF run[r].aborted \/ \E s \in Study : <<s, 0>> \in run[r].rejected
  THEN {} ELSE run[r].done \ Failures(r)

\* NADA is told, best effort: the call may fail, and nobody repeats it.
Report(r) ==
  /\ run[r].pc = "report"
  /\ \/ reported' = [s \in Study |-> CASE s \in Failures(r) -> "failed"
                                       [] s \in Indexed(r) -> "indexed"
                                       [] OTHER -> reported[s]]
     \/ UNCHANGED reported
  /\ run' = [run EXCEPT ![r] = Over]
  /\ UNCHANGED <<file, index, old, vars, recreated>>

\* DELETE /jobs/{id}: the token is set.
Cancel(r) ==
  /\ Live(r)
  /\ ~run[r].token
  /\ run' = [run EXCEPT ![r].token = TRUE]
  /\ UNCHANGED <<file, index, old, vars, reported, recreated>>

\* The process stops: every run is gone with what it had in memory.
Crash ==
  /\ \E r \in Run : Live(r)
  /\ run' = [r \in Run |-> IF Live(r) THEN Over ELSE run[r]]
  /\ UNCHANGED <<file, index, old, vars, reported, recreated>>

\* create_index_op(recreate=True), and a recreating run of another catalog
\* type: the index is shared by all of them.
RecreateIndex ==
  /\ Drop
  /\ UNCHANGED <<file, reported, run>>

Step(r) ==
  \/ \E s \in Study : Load(r, s)
  \/ \E batch \in SUBSET run[r].pending : \E bad \in SUBSET batch : Send(r, batch, bad)
  \/ \E d \in run[r].answered : Confirm(r, d)
  \/ Prune(r)
  \/ Abort(r)
  \/ Finalize(r)
  \/ \E synced \in SUBSET VariablesOf(r) : Variables(r, synced)
  \/ Report(r)

\* The backend is a setting of the process, and stays.
Next ==
  /\ UNCHANGED backend
  /\ \/ \E r \in Run : (\E request \in Requests : Start(r, request)) \/ Step(r) \/ Cancel(r)
     \/ Crash
     \/ RecreateIndex

Spec == Init /\ [][Next]_allVars

-----------------------------------------------------------------------------
(***************************************************************************)
(* Properties                                                              *)
(***************************************************************************)

Written(s) == DocsOf(s) \subseteq index

\* What the checkpoint file says is done is in the backend, all of it: a crash
\* between announcing, sending, answering and marking never lets a resume skip
\* a study with a chunk or a study document missing.
CheckpointedMeansWritten ==
  ~recreated /\ file # NoFile => \A s \in file.done : Written(s)

\* A study's old chunks stay searchable until every new one has landed: a
\* failed, cancelled or crashed re-index never leaves it with holes.
OldUntilNew ==
  ~recreated => \A s \in Stale \ old : ChunksOf(s) \subseteq index

\* NADA is never told that a study is indexed whose documents are not there
\* (it would drop it from its "missing" diff, and nothing would retry it).
IndexedMeansWritten ==
  ~recreated => \A s \in Study : reported[s] = "indexed" => Written(s)

\* On OpenSearch, a run that takes itself for complete, and so removes the
\* checkpoint, has accounted for every study of the catalog, as done or as failed.
\* service.py: "Ran through the whole (possibly resumed) list". (On Qdrant it does
\* not hold: a run whose loop ended in an exception returns as if it were through.)
EveryStudyAccounted ==
  [][\A r \in Run :
       OpenSearch /\ run[r].pc = "finalize" /\ ~run[r].token /\ run'[r].pc \in {"variables", "report"}
         => run[r].done \cup run[r].failed = Study]_allVars

-----------------------------------------------------------------------------
(***************************************************************************)
(* What comments and docs say and the code does not do.                    *)
(***************************************************************************)

=============================================================================
