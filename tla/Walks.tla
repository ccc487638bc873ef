-------------------------------- MODULE Walks --------------------------------
(***************************************************************************)
(* The ways in which the OpenSearch indexes are filled beside the ingest:   *)
(* walks over all of NADA's citations or variables, jobs that sync some of   *)
(* them (ingest/citations_index.py, ingest/variables_index.py), the          *)
(* scheduler's items, and the import that tells NADA what an older index     *)
(* holds (import_index_state). NADA is external: a catalog whose changes     *)
(* queue a row, its belief in what is indexed, and the rows it queues on a   *)
(* trigger. Between its reading and its writing, an operation holds what it  *)
(* read; other operations and NADA go on. The variables are those of one     *)
(* study, with one row: an item of theirs removes them all and writes them   *)
(* again page by page, and may fail between. What the study's own items and  *)
(* the jobs for given studies do to them is in Content.                      *)
(***************************************************************************)
EXTENDS Integers, FiniteSets

CONSTANTS
  Citations, Variables, Studies,  \* what is indexed, numbered in the order of a walk
  PageSize,
  Workers,       \* jobs' threads
  Scheduler,     \* the scheduler's thread, which applies one row at a time
  None,
  MaxWork        \* bound: jobs begun and changes of the catalog together

VARIABLES
  nada,      \* the version the catalog has of each object, or None
  index,     \* the version the index has
  bare,      \* the studies whose document has no chunks
  belief,    \* NADA's search_index_state: what it takes for indexed
  queue,     \* NADA's row for each object, or None; `taken` until it changes; the
             \* variables have theirs together
  op,        \* each operation under way
  used,      \* how much of the bound was used
  done,      \* history: what some operation brought up to date
  overtaken, \* history: where the last write was older than the one before, or lost before its ack
  imported   \* history: an import came to its end, and the index was not dropped since it began

vars == <<nada, index, bare, belief, queue, op, used, done, overtaken, imported>>

Objects == Citations \cup Variables \cup Studies
Actors == Workers \cup {Scheduler}

\* What a row asks for.
Acts == {"upsert", "delete", "partial", "variables"}

\* The objects that are queued together with o.
RowOf(o) == IF o \in Variables THEN Variables ELSE {o}

\* Objects are numbered from one, each kind for itself; None is no version, key or row.
WalksAssumption ==
  /\ Citations \subseteq Nat \ {0} /\ Variables \subseteq Nat \ {0} /\ Studies \subseteq Nat \ {0}
  /\ IsFiniteSet(Citations) /\ IsFiniteSet(Variables) /\ IsFiniteSet(Studies)
  /\ Citations \cap Variables = {} /\ Citations \cap Studies = {} /\ Variables \cap Studies = {}
  /\ PageSize \in Nat \ {0} /\ None \notin Nat /\ Scheduler \notin Workers
  /\ None \notin {"index_citations:all", "index_variables:all", "index_citations:ids",
                  "search_index_import"}
  /\ None \notin [act : Acts, taken : BOOLEAN]

\* What an operation holds: objects with the version read of them, None for none.
NoHand == [o \in {} |-> None]

\* `at`: the last object a walk or a job is through with; `stale`: what it holds of that
\* another operation has written since.
Doing(key, pc, at, hand) == [key |-> key, pc |-> pc, at |-> at, hand |-> hand, stale |-> {}]
Idle == Doing(None, "idle", 0, NoHand)

\* An index that NADA tracks, with all there is in the catalog; or one from before it did:
\* then NADA believes nothing, some of what is indexed is gone from the catalog, some of
\* the catalog was never indexed, and the variables' index is new.
Init ==
  /\ bare \in SUBSET Studies
  /\ \/ /\ bare = {}
        /\ index = [o \in Objects |-> 1] /\ nada = index /\ belief = Citations \cup Studies
     \/ \E there \in SUBSET (Citations \cup Studies) : \E gone \in SUBSET there :
          /\ bare \subseteq there
          /\ index = [o \in Objects |-> IF o \in there THEN 1 ELSE None]
          /\ nada = [o \in Objects |-> IF o \in gone THEN None ELSE 1]
          /\ belief = {}
  /\ queue = [o \in Objects |-> None]
  /\ op = [a \in Actors |-> Idle]
  /\ used = 0
  /\ done = {} /\ overtaken = {} /\ imported = "no"

-----------------------------------------------------------------------------
(* Jobs. The registry has one for each key; any free thread will do. *)

Unique(key) == \A v \in Workers : op[v].key # key

Starts(w, key, pc) ==
  /\ op[w] = Idle /\ w = (CHOOSE v \in Workers : op[v] = Idle)
  /\ used < MaxWork
  /\ op' = [op EXCEPT ![w] = Doing(key, pc, 0, NoHand)]
  /\ used' = used + 1

\* backfill_citations_op and backfill_variables_op; the command line may drop the index first.
StartWalk(w, key, covered) ==
  /\ Starts(w, key, "read") /\ Unique(key)
  /\ \/ UNCHANGED <<index, done, overtaken, imported>>
     \/ /\ index' = [o \in Objects |-> IF o \in covered THEN None ELSE index[o]]
        /\ done' = done \ covered
        /\ overtaken' = (overtaken \ covered)
             \cup {c \in covered \cap Citations : op[Scheduler].pc = "ack" /\ op[Scheduler].at = c}
        /\ imported' = IF covered = Citations THEN "no" ELSE imported
  /\ UNCHANGED <<nada, bare, belief, queue>>

StartCitations(w) == StartWalk(w, "index_citations:all", Citations)
StartVariables(w) == StartWalk(w, "index_variables:all", Variables)

\* sync_citations_op with ids: a job for each list of them.
StartIds(w) ==
  /\ Starts(w, "index_citations:ids", "fetch")
  /\ UNCHANGED <<nada, index, bare, belief, queue, done, overtaken, imported>>

StartImport(w) ==
  /\ Starts(w, "search_index_import", "chunks") /\ Unique("search_index_import")
  /\ imported' = "under way"
  /\ UNCHANGED <<nada, index, bare, belief, queue, done, overtaken>>

-----------------------------------------------------------------------------
(* Reading from NADA and writing to the index. *)

Covered(w) == IF op[w].key = "index_variables:all" THEN Variables ELSE Citations

\* The page of `n` objects behind the cursor, in the catalog or not.
After(S, at, n) ==
  LET rest == {o \in S : o > at} IN {o \in rest : Cardinality({p \in rest : p < o}) < n}

Last(S) == CHOOSE o \in S : \A p \in S : p <= o

Fetched(S) == [o \in S |-> nada[o]]
Listing(S) == [o \in S |-> None]

\* An operation that neither reads nor writes what others hold.
Steps(a, pc, at, hand) == op' = [op EXCEPT ![a] = Doing(op[a].key, pc, at, hand)]

\* `a` writes what it holds of S, or removes what NADA no longer has.
Written(a, S) ==
  /\ index' = [o \in Objects |-> IF o \in S THEN op[a].hand[o] ELSE index[o]]
  /\ done' = done \cup S
  /\ overtaken' = (overtaken \ S) \cup (S \cap op[a].stale)

\* The next state of an operation, and of the others that are about to write: what they
\* hold of S is older now.
Goes(a, next, S) ==
  op' = [b \in Actors |->
           IF b = a THEN next
           ELSE IF op[b].pc \in {"write", "sync", "apply"}
                THEN [op[b] EXCEPT !.stale = @ \cup (S \cap DOMAIN op[b].hand)]
                ELSE op[b]]

\* A walk: a page of what the catalog has, the bulk request, whose documents fail one by
\* one; nothing is removed.
ReadPage(w) ==
  /\ op[w].pc = "read"
  /\ LET page == After({o \in Covered(w) : nada[o] # None}, op[w].at, PageSize)
     IN IF page = {} THEN op' = [op EXCEPT ![w] = Idle]
        ELSE Steps(w, "write", op[w].at, Fetched(page))
  /\ UNCHANGED <<nada, index, bare, belief, queue, used, done, overtaken, imported>>

WritePage(w) ==
  /\ op[w].pc = "write" /\ op[w].key \in {"index_citations:all", "index_variables:all"}
  /\ LET page == DOMAIN op[w].hand
     IN \E ok \in SUBSET page :
          /\ Written(w, ok)
          /\ Goes(w, Doing(op[w].key, "read", Last(page), NoHand), ok)
  /\ UNCHANGED <<nada, bare, belief, queue, used, imported>>

WalkCitations(w) == op[w].key = "index_citations:all" /\ (ReadPage(w) \/ WritePage(w))
WalkVariables(w) == op[w].key = "index_variables:all" /\ (ReadPage(w) \/ WritePage(w))

\* sync_citations_op, one id after the other: NADA's record is written; when NADA answers
\* that there is none, the document is removed; any other failure is counted.
FetchId(w) ==
  /\ op[w].pc = "fetch" /\ w \in Workers
  /\ LET next == After(Citations, op[w].at, 1)
     IN \/ next = {} /\ op' = [op EXCEPT ![w] = Idle]
        \/ \E o \in next :
             Steps(w, "fetch", o, NoHand) \/ Steps(w, "sync", o, Fetched(next))
  /\ UNCHANGED <<nada, index, bare, belief, queue, used, done, overtaken, imported>>

SyncId(w) ==
  /\ op[w].pc = "sync"
  /\ \E ok \in SUBSET DOMAIN op[w].hand :
       /\ Written(w, ok)
       /\ Goes(w, Doing(op[w].key, "fetch", op[w].at, NoHand), ok)
  /\ UNCHANGED <<nada, bare, belief, queue, used, imported>>

-----------------------------------------------------------------------------
(* The scheduler's items; `key` is what their row says is to be done. *)

TakeRow(o) ==
  /\ op[Scheduler] = Idle /\ queue[o] # None
  /\ queue' = [p \in Objects |->
                 IF p \in RowOf(o) THEN [act |-> queue[o].act, taken |-> TRUE] ELSE queue[p]]
  /\ op' = [op EXCEPT ![Scheduler] =
              IF queue[o].act = "delete" THEN Doing("delete", "apply", o, Listing({o}))
              ELSE Doing(queue[o].act, "fetch", IF o \in Variables THEN 0 ELSE o, NoHand)]
  /\ UNCHANGED <<nada, index, bare, belief, used, done, overtaken, imported>>

\* An extract record that is not there is an error, where an answer without the citation is one.
FetchItem ==
  /\ op[Scheduler].pc = "fetch" /\ op[Scheduler].key # "variables"
  /\ LET o == op[Scheduler].at
     IN /\ o \in Studies => nada[o] # None
        /\ Steps(Scheduler, "apply", o, Fetched({o}))
  /\ UNCHANGED <<nada, index, bare, belief, queue, used, done, overtaken, imported>>

\* A partial update of a study without a document becomes a full one; one with a document
\* keeps its chunks, or their lack.
Apply ==
  /\ op[Scheduler].pc = "apply"
  /\ LET o == op[Scheduler].at
     IN /\ Written(Scheduler, {o})
        /\ bare' = IF op[Scheduler].key = "partial" /\ index[o] # None THEN bare ELSE bare \ {o}
        /\ Goes(Scheduler, Doing(op[Scheduler].key, "ack", o, NoHand), {o})
  /\ UNCHANGED <<nada, belief, queue, used, imported>>

\* sync_survey_variables_op: the first page is read before anything is removed.
VariablesPage == After({v \in Variables : nada[v] # None}, op[Scheduler].at, PageSize)

FirstPage ==
  /\ op[Scheduler].pc = "fetch" /\ op[Scheduler].key = "variables"
  /\ Steps(Scheduler, "empty", 0, Fetched(VariablesPage))
  /\ UNCHANGED <<nada, index, bare, belief, queue, used, done, overtaken, imported>>

RemoveAll ==
  /\ op[Scheduler].pc = "empty"
  /\ index' = [o \in Objects |-> IF o \in Variables THEN None ELSE index[o]]
  /\ done' = done \cup Variables /\ overtaken' = overtaken \ Variables
  /\ LET hand == op[Scheduler].hand
     IN Goes(Scheduler, Doing("variables", IF DOMAIN hand = {} THEN "read" ELSE "write", 0, hand),
             Variables)
  /\ UNCHANGED <<nada, bare, belief, queue, used, imported>>

\* The pages to the last one; a variable that was not written fails the item in the end.
NextPage ==
  /\ op[Scheduler].pc = "read"
  /\ LET at == op[Scheduler].at
     IN IF VariablesPage # {} THEN Steps(Scheduler, "write", at, Fetched(VariablesPage))
        ELSE IF op[Scheduler].key = "variables" THEN Steps(Scheduler, "ack", at, NoHand)
        ELSE op' = [op EXCEPT ![Scheduler] = Idle]
  /\ UNCHANGED <<nada, index, bare, belief, queue, used, done, overtaken, imported>>

WriteVariables ==
  /\ op[Scheduler].pc = "write"
  /\ LET page == DOMAIN op[Scheduler].hand
     IN \E ok \in SUBSET page :
          /\ Written(Scheduler, ok)
          /\ Goes(Scheduler, Doing(IF ok = page THEN op[Scheduler].key ELSE "spoiled", "read",
                                   Last(page), NoHand), ok)
  /\ UNCHANGED <<nada, bare, belief, queue, used, imported>>

Replace == FirstPage \/ RemoveAll \/ NextPage \/ WriteVariables

\* NADA settles the row if it did not change since, and has its own state for the object.
\* The answer, or the request, may get lost.
Ack ==
  /\ op[Scheduler].pc = "ack"
  /\ LET o == op[Scheduler].at
         row == IF op[Scheduler].key = "variables" THEN Variables ELSE {o}
     IN \/ /\ \A p \in row : queue[p] # None /\ queue[p].taken
           /\ queue' = [p \in Objects |-> IF p \in row THEN None ELSE queue[p]]
           /\ belief' = CASE op[Scheduler].key = "variables" -> belief
                          [] op[Scheduler].key = "delete" -> belief \ {o}
                          [] OTHER -> belief \cup {o}
        \/ UNCHANGED <<queue, belief>>
  /\ op' = [op EXCEPT ![Scheduler] = Idle]
  /\ UNCHANGED <<nada, index, bare, used, done, overtaken, imported>>

-----------------------------------------------------------------------------
(* import_index_state *)

\* Mutant: a study counts as indexed though it has no chunks.
ChunksUnasked(w) ==
  /\ op[w].pc = "chunks"
  /\ Steps(w, "studies", 0, Listing(Studies))
  /\ UNCHANGED <<nada, index, bare, belief, queue, used, done, overtaken, imported>>

\* _sids_with_chunks
Chunks(w) ==
  /\ op[w].pc = "chunks"
  /\ Steps(w, "studies", 0, Listing({s \in Studies \ bare : index[s] # None}))
  /\ UNCHANGED <<nada, index, bare, belief, queue, used, done, overtaken, imported>>

\* The study index, and the citation index: what is reported, by their ids.
Scan(w) ==
  /\ LET seen == DOMAIN op[w].hand
     IN \/ /\ op[w].pc = "studies"
           /\ Steps(w, "citations", 0, Listing({s \in seen : index[s] # None}))
        \/ /\ op[w].pc = "citations"
           /\ Steps(w, "report", 0, Listing(seen \cup {c \in Citations : index[c] # None}))
  /\ UNCHANGED <<nada, index, bare, belief, queue, used, done, overtaken, imported>>

ReportState(w) ==
  /\ op[w].pc = "report"
  /\ LET chunk == After(DOMAIN op[w].hand, op[w].at, PageSize)
     IN IF chunk = {} THEN Steps(w, "trigger", 0, NoHand) /\ UNCHANGED belief
        ELSE Steps(w, "report", Last(chunk), op[w].hand) /\ belief' = belief \cup chunk
  /\ UNCHANGED <<nada, index, bare, queue, used, done, overtaken, imported>>

\* trigger_sync(refresh_indexed): NADA queues what is left to do, where nothing is queued.
Queued(o) ==
  IF o \in Variables \/ queue[o] # None \/ (nada[o] = None /\ o \notin belief) THEN queue[o]
  ELSE [act |-> IF nada[o] = None THEN "delete"
                ELSE IF o \in belief \cap Studies THEN "partial" ELSE "upsert",
        taken |-> FALSE]

Trigger(w) ==
  /\ op[w].pc = "trigger"
  /\ queue' = [o \in Objects |-> Queued(o)]
  /\ imported' = IF imported = "under way" THEN "yes" ELSE imported
  /\ op' = [op EXCEPT ![w] = Idle]
  /\ UNCHANGED <<nada, index, bare, belief, used, done, overtaken>>

-----------------------------------------------------------------------------
\* A request fails, or a job finds its token set; a row stays as it is.
Fails(a) ==
  /\ op[a] # Idle
  /\ op' = [op EXCEPT ![a] = Idle]
  /\ UNCHANGED <<nada, index, bare, belief, queue, used, done, overtaken, imported>>

Crash ==
  /\ \E a \in Actors : op[a] # Idle
  /\ op' = [a \in Actors |-> Idle]
  /\ UNCHANGED <<nada, index, bare, belief, queue, used, done, overtaken, imported>>

\* An object of the catalog is edited, or goes; ids are not used again.
Change(o) ==
  /\ nada[o] # None /\ used < MaxWork
  /\ used' = used + 1
  /\ \E version \in {nada[o] + 1, None} :
       /\ nada' = [nada EXCEPT ![o] = version]
       /\ LET act == CASE o \in Variables -> "variables"
                       [] version = None /\ o \notin Variables -> "delete"
                       [] OTHER -> "upsert"
          IN queue' = [p \in Objects |->
                         IF p \in RowOf(o) THEN [act |-> act, taken |-> FALSE] ELSE queue[p]]
  /\ UNCHANGED <<index, bare, belief, op, done, overtaken, imported>>

Job(w) ==
  \/ StartCitations(w) \/ StartVariables(w) \/ StartIds(w) \/ StartImport(w)
  \/ WalkCitations(w) \/ WalkVariables(w) \/ FetchId(w) \/ SyncId(w)
  \/ Chunks(w) \/ Scan(w) \/ ReportState(w) \/ Trigger(w)

Next ==
  \/ \E w \in Workers : Job(w)
  \/ (\E o \in Objects : TakeRow(o)) \/ FetchItem \/ Apply \/ Replace \/ Ack
  \/ (\E a \in Actors : Fails(a)) \/ Crash \/ \E o \in Objects : Change(o)

Spec == Init /\ [][Next]_vars

-----------------------------------------------------------------------------
\* What is held was read for one purpose; a history is about what there is.
TypeOK ==
  /\ nada \in [Objects -> Nat \cup {None}] /\ index \in [Objects -> Nat \cup {None}]
  /\ bare \subseteq {s \in Studies : index[s] # None}
  /\ belief \subseteq Citations \cup Studies
  /\ \A a \in Actors :
       op[a].stale \subseteq DOMAIN op[a].hand /\ DOMAIN op[a].hand \subseteq Objects
  /\ overtaken \subseteq Objects /\ imported \in {"no", "under way", "yes"}

Quiet == (\A a \in Actors : op[a] = Idle) /\ \A o \in Objects : queue[o] = None

\* ingest/citations_index.py, ingest/variables_index.py: with nothing queued and nothing
\* under way, what any of the walks, jobs or items wrote or removed is what the catalog has,
\* unless a write older than another's came last. So the variables of a study that a failed
\* item left half written, or not at all, have a row until they are all back.
UpToDate == Quiet => \A o \in done \ overtaken : index[o] = nada[o]

\* ingest/search_index_sync.py:888: after an import, once NADA's queue is worked off, every
\* study and citation of the catalog is in the index, chunks included, and NADA knows;
\* nothing else is, but documents without chunks of studies that are gone: the import does
\* not report them. Whatever changed while it ran.
ImportSettles ==
  Quiet /\ imported = "yes" =>
    /\ \A o \in bare : nada[o] = None
    /\ \A o \in (Studies \cup Citations) \ (overtaken \cup bare) :
         index[o] = nada[o] /\ (o \in belief <=> nada[o] # None)

\* ingest/citations_index.py:71, ingest/variables_index.py:130: a document goes when NADA has
\* none; with the index that a walk recreates; or as a variable of a study whose variables are
\* replaced, and then the item holds a first page that NADA answered it. A study that cannot
\* be read keeps its variables; one whose later pages cannot be read or written does not.
DropsTheGone ==
  \A o \in Objects :
    index[o] # None /\ index'[o] = None =>
      \/ nada[o] = None
      \/ \E w \in Workers :
           op[w] = Idle /\ op'[w].key \in {"index_citations:all", "index_variables:all"}
      \/ o \in Variables /\ queue[o] # None /\ op[Scheduler].pc = "empty"

NeverDropped == [][DropsTheGone]_vars
=============================================================================
