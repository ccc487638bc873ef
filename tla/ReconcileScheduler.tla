------------------------- MODULE ReconcileScheduler -------------------------
(***************************************************************************)
(* The search-index scheduler (app/reconcile_scheduler.py): one coroutine  *)
(* that works through NADA's change queue. `pc` is where it is suspended,  *)
(* and between two of its steps the rest of the system goes on: catalog    *)
(* editors, operators, other writers of the index.                         *)
(*                                                                         *)
(* NADA is modelled by what its API shows: at most one row per object,     *)
(* re-stamped (`changed`) by every change, so the row's stamp is the       *)
(* version. A request to NADA and the status probe after a failed one are  *)
(* one step. How long a wait lasts is left out: it may always be over.     *)
(***************************************************************************)
EXTENDS Integers, FiniteSets

CONSTANTS
  Object,      \* studies and citations, each with at most one row
  Batched,     \* the objects whose records are fetched with their page
  Deletes,     \* the versions in which an object is deleted
  Limit,       \* reconcile_search_index_batch_limit: rows per page
  Flush,       \* ACK_FLUSH_SIZE
  AckLimit,    \* ack_failure_limit
  Graceful,    \* the process may be stopped with a call in a worker thread
  OtherJobs,   \* other jobs (webhook, admin routes) index the same objects
  MaxVersion,  \* bound: how often each object changes
  MaxTroubles  \* bound: requests that go wrong, crashes and stops

ASSUME SchedulerAssumption ==
  /\ IsFiniteSet(Object)
  /\ Batched \subseteq Object
  /\ Deletes \subseteq Nat \ {0}
  /\ Limit \in Nat \ {0}
  /\ Flush \in 1 .. 100          \* so one ack request is enough
  /\ AckLimit \in Nat \ {0}
  /\ Graceful \in BOOLEAN
  /\ OtherJobs \in BOOLEAN
  /\ MaxVersion \in Nat
  /\ MaxTroubles \in Nat

Version == 0 .. MaxVersion
Item == [o : Object, changed : Version]               \* a queue row, as listed
Extract == [o : Object, v : Version]                  \* a record, as fetched
Ack == [o : Object, changed : Version, ok : BOOLEAN]

\* Why st.pause is set.
Trouble == {"nada_unavailable", "firewall"}
Refusal == {"not_tracking", "access_denied"}
Reason == Trouble \cup Refusal \cup {"error", "acks_failing"}

VARIABLES
  enabled,  \* the setting: the loop runs; else each Process pending is one pass
  ver,      \* NADA: the version of each object
  row,      \* NADA: its row in the change queue
  idx,      \* the version of it in the search index
  strays,   \* writes under way on threads that are not this scheduler's
  manual,   \* the control file: paused by hand
  pc,       \* where the loop is
  wait,     \* what it waits for, when pc = "wait"
  wake,     \* _wake
  pause,    \* st.pause: the reason, or "none"
  unsent,   \* st.unsent_acks
  fails,    \* st.consecutive_ack_failures
  pass,     \* the local variables of _drain, _process_page, _process_items
  cur,      \* the item process_item is working on, at most one
  troubles  \* how much went wrong so far

\* What NADA has, with the setting: neither is the scheduler's to change.
nadaVars == <<enabled, ver, row>>
vars == <<enabled, ver, row, idx, strays, manual, pc, wait, wake, pause, unsent, fails,
          pass, cur, troubles>>

\* `items` are those of the page not looked at yet, `full` says that there were
\* Limit of them; `seen` (history) is what the pass has processed so far.
NoPass == [items |-> {}, extracts |-> {}, prefailed |-> {}, acks |-> {},
           exclude |-> {}, full |-> FALSE, stopped |-> FALSE, seen |-> {}]

Pass == [items : SUBSET Item, extracts : SUBSET Extract, prefailed : SUBSET Object,
         acks : SUBSET Ack, exclude : SUBSET Object, full : BOOLEAN,
         stopped : BOOLEAN, seen : SUBSET Item]

Work == [o : Object, changed : Version, v : Version]

TypeOK ==
  /\ enabled \in BOOLEAN
  /\ ver \in [Object -> Version]
  /\ row \in [Object -> {"none", "pending", "failed"}]
  /\ idx \in [Object -> Version]
  /\ strays \subseteq Extract
  /\ manual \in BOOLEAN
  /\ pc \in {"off", "top", "wait", "resend", "list", "fetch", "item", "write", "acks", "crashed"}
  /\ wait \in {"check", "pause", "interval"}
  /\ wake \in BOOLEAN
  /\ pause \in Reason \cup {"none"}
  /\ unsent \subseteq Ack
  /\ fails \in Nat
  /\ pass \in Pass
  /\ cur \subseteq Work
  /\ troubles \in 0 .. MaxTroubles

Init ==
  /\ enabled \in BOOLEAN
  /\ ver = [o \in Object |-> 0]
  /\ row = [o \in Object |-> "none"]
  /\ idx = [o \in Object |-> 0]
  /\ strays = {}
  /\ manual = FALSE
  /\ pc = "off" /\ wait = "check" /\ wake = FALSE /\ pause = "none"
  /\ unsent = {} /\ fails = 0 /\ pass = NoPass /\ cur = {}
  /\ troubles = 0

GoesWrong == troubles < MaxTroubles /\ troubles' = troubles + 1

-----------------------------------------------------------------------------
(***************************************************************************)
(* NADA                                                                    *)
(***************************************************************************)

\* An editor changes, creates or deletes an object: its row is pending, with a
\* new stamp, whatever it was before.
Change(o) ==
  /\ ver[o] < MaxVersion
  /\ ver' = [ver EXCEPT ![o] = @ + 1]
  /\ row' = [row EXCEPT ![o] = "pending"]
  /\ UNCHANGED <<enabled, idx, strays, manual, pc, wait, wake, pause, unsent, fails, pass,
                 cur, troubles>>

\* NADA takes acks: one with the row's present stamp settles the row, any other
\* is answered QUEUE_CHANGED or QUEUE_NOT_FOUND and changes nothing.
Current(acks, ok) == {o \in Object : row[o] # "none" /\ [o |-> o, changed |-> ver[o], ok |-> ok] \in acks}

Recorded(acks) ==
  row' = [o \in Object |-> IF o \in Current(acks, TRUE) THEN "none"
                           ELSE IF o \in Current(acks, FALSE) THEN "failed" ELSE row[o]]

-----------------------------------------------------------------------------
(***************************************************************************)
(* The loop                                                                *)
(***************************************************************************)

\* _wait: a wake from before the wait began is dropped.
StartWait(what) == pc' = "wait" /\ wait' = what /\ wake' = FALSE

\* _drain returns, with st.pause = p: the loop waits for the next check, or
\* (paused) goes on at its top; a one-off pass is over.
DrainOver(p) ==
  /\ pause' = p
  /\ pass' = NoPass
  /\ IF ~enabled THEN pc' = "off" /\ UNCHANGED <<wait, wake>>
     ELSE IF p = "none" THEN StartWait("interval")
     ELSE pc' = "top" /\ UNCHANGED <<wait, wake>>

GoOn(to, p) == pc' = to /\ pass' = p /\ UNCHANGED <<wait, wake, pause>>

\* (The definitions called mutants are bugs the code could have; no action uses
\* them. Each shows that a property would notice.)

\* Mutant: acks kept from before the pause wait for their turn.
ToWorkFirst == pc' = "list" /\ pass' = NoPass

\* Before the drain: acks kept from before the pause go first.
ToWork == pc' = (IF unsent # {} THEN "resend" ELSE "list") /\ pass' = NoPass

Top ==
  /\ pc = "top"
  /\ CASE manual -> StartWait("check") /\ UNCHANGED pass
       [] ~manual /\ pause # "none" -> StartWait("pause") /\ UNCHANGED pass
       [] OTHER -> ToWork /\ UNCHANGED <<wait, wake>>
  /\ UNCHANGED <<nadaVars, idx, strays, manual, pause, unsent, fails, cur, troubles>>

\* The time is up, or _wake is set.
WaitOver ==
  /\ pc = "wait"
  /\ wake' = FALSE
  /\ IF wait = "pause" THEN pause' = "none" /\ ToWork
     ELSE pc' = "top" /\ UNCHANGED <<pause, pass>>
  /\ UNCHANGED <<nadaVars, idx, strays, manual, wait, unsent, fails, cur, troubles>>

ListPaused ==
  /\ pc = "list"
  /\ manual
  /\ DrainOver(pause)
  /\ UNCHANGED <<nadaVars, idx, strays, manual, unsent, fails, cur, troubles>>

\* list_queue: a page of pending rows, the excluded ones skipped over.
List(page) ==
  /\ pc = "list"
  /\ ~manual
  /\ LET listed == {o \in Object : row[o] = "pending" /\ o \notin pass.exclude}
     IN /\ page \subseteq listed
        /\ Cardinality(page) <= Limit
        /\ page = listed \/ Cardinality(page) = Limit
  /\ IF page = {} THEN DrainOver(pause)
     ELSE GoOn("fetch", [pass EXCEPT !.items = {[o |-> o, changed |-> ver[o]] : o \in page},
                                     !.full = Cardinality(page) = Limit,
                                     !.extracts = {}, !.prefailed = {}])
  /\ UNCHANGED <<nadaVars, idx, strays, manual, unsent, fails, cur, troubles>>

\* The page is refused, or does not come (_stop_for).
ListFails(reason) ==
  /\ pc = "list"
  /\ ~manual
  /\ reason \in Trouble \cup Refusal \cup {"error"}
  /\ GoesWrong
  /\ DrainOver(reason)
  /\ UNCHANGED <<nadaVars, idx, strays, manual, unsent, fails, cur>>

\* The rows of the page whose records are still to be fetched.
ToFetch == {i \in pass.items : /\ i.o \in Batched
                               /\ i.changed \notin Deletes
                               /\ i.o \notin pass.prefailed
                               /\ \A e \in pass.extracts : e.o # i.o}

\* fetch_studies_by_sids: records as NADA has them now; some are missing (the
\* study is deleted) or `broken` (NADA cannot build them).
Fetch(batch, broken) ==
  /\ pc = "fetch"
  /\ batch # {}
  /\ LET gone == broken \cup {o \in batch : ver[o] \in Deletes}
     IN GoOn("fetch", [pass EXCEPT !.extracts = @ \cup {[o |-> o, v |-> ver[o]] : o \in batch \ gone},
                                   !.prefailed = @ \cup gone])
  /\ UNCHANGED <<nadaVars, idx, strays, manual, unsent, fails, cur, troubles>>

FetchFails(reason) ==
  /\ pc = "fetch"
  /\ ToFetch # {}
  /\ reason \in Trouble \cup {"access_denied", "error"}
  /\ GoesWrong
  /\ DrainOver(reason)
  /\ UNCHANGED <<nadaVars, idx, strays, manual, unsent, fails, cur>>

\* On to the items, once the model is loaded and the semaphore is free.
Fetched ==
  /\ pc = "fetch"
  /\ ToFetch = {}
  /\ GoOn("item", pass)
  /\ UNCHANGED <<nadaVars, idx, strays, manual, unsent, fails, cur, troubles>>

\* The model does not load: nothing in the loop catches that but the watchdog.
EmbeddingFails ==
  /\ pc = "fetch"
  /\ ToFetch = {}
  /\ \E i \in pass.items : i.o \in Batched /\ i.changed \notin Deletes
  /\ GoesWrong
  /\ pc' = IF enabled THEN "crashed" ELSE "off"
  /\ pass' = NoPass
  /\ UNCHANGED <<nadaVars, idx, strays, manual, wait, wake, pause, unsent, fails, cur>>

\* Mutant: the watchdog notes the crash and leaves it at that.
RestartNot == pc = "crashed" /\ UNCHANGED vars

\* _watchdog: the loop starts anew, with the state it had.
Restart ==
  /\ pc = "crashed"
  /\ pc' = "top"
  /\ UNCHANGED <<nadaVars, idx, strays, manual, wait, wake, pause, unsent, fails, pass, cur, troubles>>

\* After an item, with p as the pass and r as st.pause: on to the next one, or
\* first send the acks there are, when they are many or it was the last item.
Proceed(p, r) ==
  IF p.stopped \/ p.items = {} \/ Cardinality(p.acks) >= Flush
  THEN IF p.acks = {} THEN DrainOver(r)
       ELSE pc' = "acks" /\ pass' = p /\ pause' = r /\ UNCHANGED <<wait, wake>>
  ELSE pc' = "item" /\ pass' = p /\ pause' = r /\ UNCHANGED <<wait, wake>>

\* Paused by hand: the rest of the page stays pending.
ItemPaused ==
  /\ pc = "item"
  /\ manual
  /\ Proceed([pass EXCEPT !.stopped = TRUE], pause)
  /\ UNCHANGED <<nadaVars, idx, strays, manual, unsent, fails, cur, troubles>>

Taken(i) == [pass EXCEPT !.items = @ \ {i}, !.seen = @ \cup {i}]

\* Mutant: the ack is stamped with what NADA has when the item is done.
AckedLate(p, i, ok) ==
  [p EXCEPT !.acks = @ \cup {[o |-> i.o, changed |-> ver[i.o], ok |-> ok]}]

\* Mutant: the ack has no result.
AckedBare(p, i, ok) == [p EXCEPT !.acks = @ \cup {[o |-> i.o, changed |-> i.changed]}]

Acked(p, i, ok) == [p EXCEPT !.acks = @ \cup {[o |-> i.o, changed |-> i.changed, ok |-> ok]}]

\* The versions process_item may apply: a delete row's own, the record fetched
\* with the page, or what it fetches itself. A citation that NADA no longer has
\* is removed, whatever its row says; a study has to have a record.
Versions(i) ==
  IF i.changed \in Deletes THEN {i.changed}
  ELSE IF i.o \in Batched
  THEN ({e.v : e \in {e \in pass.extracts : e.o = i.o}} \cup {ver[i.o]}) \ Deletes
  ELSE {ver[i.o]}

\* A study with no record to index is failed at once.
FailItem(i) ==
  /\ pc = "item"
  /\ ~manual
  /\ \/ i.o \in pass.prefailed
     \/ /\ i.o \in Batched
        /\ i.changed \notin Deletes
        /\ ver[i.o] \in Deletes
  /\ Proceed(Acked(Taken(i), i, FALSE), pause)
  /\ UNCHANGED <<nadaVars, idx, strays, manual, unsent, fails, cur, troubles>>

\* process_item, on a worker thread.
StartItem(i, v) ==
  /\ pc = "item"
  /\ ~manual
  /\ i.o \notin pass.prefailed
  /\ v \in Versions(i)
  /\ cur' = {[o |-> i.o, changed |-> i.changed, v |-> v]}
  /\ GoOn("write", Taken(i))
  /\ UNCHANGED <<nadaVars, idx, strays, manual, unsent, fails, troubles>>

Written(c) == idx' = [idx EXCEPT ![c.o] = c.v]

ItemDone(c) ==
  /\ pc = "write"
  /\ Written(c)
  /\ Proceed(Acked(pass, c, TRUE), pause)
  /\ cur' = {}
  /\ UNCHANGED <<nadaVars, strays, manual, unsent, fails, troubles>>

\* Mutant: the error is logged, the item acked as indexed.
ItemFailsQuietly(c) ==
  /\ pc = "write"
  /\ Written(c) \/ UNCHANGED idx
  /\ Proceed(Acked(pass, c, TRUE), pause)
  /\ cur' = {}
  /\ UNCHANGED <<nadaVars, strays, manual, unsent, fails, troubles>>

\* It fails while NADA answers, before or after the index was written.
ItemFails(c) ==
  /\ pc = "write"
  /\ Written(c) \/ UNCHANGED idx
  /\ Proceed(Acked(pass, c, FALSE), pause)
  /\ cur' = {}
  /\ UNCHANGED <<nadaVars, strays, manual, unsent, fails, troubles>>

\* NADA is down, or a firewall blocks the way: no ack, and no further item.
ItemTrouble(c, reason) ==
  /\ pc = "write"
  /\ reason \in Trouble
  /\ GoesWrong
  /\ Written(c) \/ UNCHANGED idx
  /\ Proceed([pass EXCEPT !.stopped = TRUE], reason)
  /\ cur' = {}
  /\ UNCHANGED <<nadaVars, strays, manual, unsent, fails>>

-----------------------------------------------------------------------------
\* _send_acks, of the pass or (resend) of those kept.
Sent == IF pc = "resend" THEN unsent ELSE pass.acks
Sending == pc \in {"acks", "resend"}

\* Mutant: the rows of acks that were not recorded are not skipped.
AcksDoneNoSkip(skip) ==
  IF pc = "resend" THEN unsent' = {} /\ GoOn("list", NoPass)
  ELSE LET p == [pass EXCEPT !.acks = {}]
       IN /\ IF p.stopped \/ (p.items = {} /\ ~p.full) THEN DrainOver(pause)
             ELSE GoOn(IF p.items = {} THEN "list" ELSE "item", p)
          /\ UNCHANGED unsent

\* The acks are dealt with, those of the objects in `skip` without being
\* recorded: their rows are skipped in this pass.
AcksDone(skip) ==
  IF pc = "resend" THEN unsent' = {} /\ GoOn("list", NoPass)
  ELSE LET p == [pass EXCEPT !.acks = {}, !.exclude = @ \cup skip]
       IN /\ IF p.stopped \/ (p.items = {} /\ ~p.full) THEN DrainOver(pause)
             ELSE GoOn(IF p.items = {} THEN "list" ELSE "item", p)
          /\ UNCHANGED unsent

AcksKept(reason) == unsent' = Sent /\ DrainOver(reason)

\* NADA answers with a result for each; some (`odd`) are errors.
AcksTaken(odd) ==
  /\ Sending
  /\ IF odd = {} THEN UNCHANGED troubles ELSE GoesWrong
  /\ Recorded(Sent \ odd)
  /\ fails' = 0
  /\ AcksDone({a.o : a \in odd})
  /\ UNCHANGED <<enabled, ver, idx, strays, manual, cur>>

\* NADA refuses the request, or does not answer it (`landed`: what it recorded
\* nevertheless): the acks are kept, the scheduler pauses.
AcksStopped(reason, landed) ==
  /\ Sending
  /\ reason \in Trouble \cup Refusal
  /\ reason \in Refusal => landed = {}
  /\ GoesWrong
  /\ Recorded(landed)
  /\ AcksKept(reason)
  /\ UNCHANGED <<enabled, ver, idx, strays, manual, fails, cur>>

\* The request fails while NADA answers its status (_ack_failed): the breaker
\* trips at the limit, else the acks are dropped.
AcksFail(landed) ==
  /\ Sending
  /\ GoesWrong
  /\ Recorded(landed)
  /\ fails' = fails + Cardinality(Sent)
  /\ IF fails' >= AckLimit THEN AcksKept("acks_failing") ELSE AcksDone({a.o : a \in Sent})
  /\ UNCHANGED <<enabled, ver, idx, strays, manual, cur>>

-----------------------------------------------------------------------------
(***************************************************************************)
(* Operators, processes and other writers                                  *)
(***************************************************************************)

Pause ==
  /\ ~manual
  /\ manual' = TRUE
  /\ UNCHANGED <<nadaVars, idx, strays, pc, wait, wake, pause, unsent, fails, pass, cur, troubles>>

\* resume, in the scheduler's process or (the control file only) in another.
Resume(here) ==
  /\ manual
  /\ manual' = FALSE
  /\ here => enabled /\ pc # "off"
  /\ wake' = (wake \/ here)
  /\ UNCHANGED <<nadaVars, idx, strays, pc, wait, pause, unsent, fails, pass, cur, troubles>>

\* Process pending: the loop is woken, or one pass started.
Wake ==
  /\ ~manual
  /\ IF enabled THEN pc # "off" /\ wake' = TRUE /\ UNCHANGED pc
     ELSE pc = "off" /\ pc' = "list" /\ UNCHANGED wake
  /\ UNCHANGED <<nadaVars, idx, strays, manual, wait, pause, unsent, fails, pass, cur, troubles>>

Start ==
  /\ enabled
  /\ pc = "off"
  /\ pc' = "top"
  /\ UNCHANGED <<nadaVars, idx, strays, manual, wait, wake, pause, unsent, fails, pass, cur, troubles>>

\* What a process loses with its memory.
Forget ==
  /\ pc' = "off" /\ wait' = "check" /\ wake' = FALSE /\ pause' = "none"
  /\ unsent' = {} /\ fails' = 0 /\ pass' = NoPass /\ cur' = {}

\* The process dies; the item it was at is written or not.
Crash ==
  /\ pc # "off"
  /\ GoesWrong
  /\ UNCHANGED idx \/ \E c \in cur : Written(c)
  /\ Forget
  /\ UNCHANGED <<nadaVars, strays, manual>>

\* stop: the task is cancelled and the lock released; a call in a worker thread
\* goes on.
Stop ==
  /\ Graceful
  /\ pc # "off"
  /\ GoesWrong
  /\ strays' = strays \cup {[o |-> c.o, v |-> c.v] : c \in cur}
  /\ Forget
  /\ UNCHANGED <<nadaVars, idx, manual>>

\* Another job has read an object and is going to write it; the objects' keys
\* keep such jobs (not the scheduler) from each other.
OtherStarts(o) ==
  /\ OtherJobs
  /\ \A w \in strays : w.o # o
  /\ strays' = strays \cup {[o |-> o, v |-> ver[o]]}
  /\ UNCHANGED <<nadaVars, idx, manual, pc, wait, wake, pause, unsent, fails, pass, cur, troubles>>

Land(w) ==
  /\ Written(w)
  /\ strays' = strays \ {w}
  /\ UNCHANGED <<nadaVars, manual, pc, wait, wake, pause, unsent, fails, pass, cur, troubles>>

Loop ==
  \/ Top \/ WaitOver
  \/ ListPaused
  \/ \E page \in SUBSET Object : List(page)
  \/ \E batch \in SUBSET {i.o : i \in ToFetch} : \E broken \in SUBSET batch : Fetch(batch, broken)
  \/ Fetched \/ EmbeddingFails \/ Restart
  \/ ItemPaused
  \/ \E i \in pass.items : FailItem(i) \/ \E v \in Version : StartItem(i, v)
  \/ \E c \in cur : ItemDone(c) \/ ItemFails(c)
  \/ \E odd \in SUBSET Sent : AcksTaken(odd)
  \/ \E landed \in SUBSET Sent : AcksFail(landed)
  \/ \E reason \in Reason :
       \/ ListFails(reason) \/ FetchFails(reason)
       \/ \E c \in cur : ItemTrouble(c, reason)
       \/ \E landed \in SUBSET Sent : AcksStopped(reason, landed)

Next ==
  \/ Loop
  \/ \E o \in Object : Change(o) \/ OtherStarts(o)
  \/ \E w \in strays : Land(w)
  \/ Pause \/ (\E here \in BOOLEAN : Resume(here)) \/ Wake
  \/ Start \/ Crash \/ Stop

Spec == Init /\ [][Next]_vars

(***************************************************************************)
(* Fairness. The event loop runs the scheduler, its requests and waits     *)
(* come to an end (every one has a timeout), and a stopped process is      *)
(* started again.                                                          *)
(***************************************************************************)
FairSpec == Spec /\ WF_vars(Loop) /\ WF_vars(Start)

-----------------------------------------------------------------------------
(***************************************************************************)
(* Properties                                                              *)
(***************************************************************************)

\* A row is off the queue only when the index has what the catalog has: not
\* when the study changed between listing, fetching, indexing and acking, when
\* an ack is kept over a pause, or when the process dies with acks unsent.
AckedMeansCurrent == \A o \in Object : row[o] = "none" => idx[o] = ver[o]

\* The scheduler implements the promise: the index moves forward only, and no
\* row is settled early.
Sync == INSTANCE IndexSync
IsIndexSync == Sync!Spec

\* No work is started while results cannot be recorded: acks kept from before
\* go first, and the breaker holds.
WorkNeedsAcks ==
  enabled /\ pc \in {"item", "write"} => unsent = {} /\ fails < AckLimit

\* Within one pass nothing is done twice, however its acks fare: a row is
\* listed again in it only when its object changed.
NoRedoInPass == pc \in {"fetch", "item"} => pass.items \cap pass.seen = {}

\* Where the loop runs, and whatever went wrong before: once NADA works and nobody pauses it the
\* scheduler works off every row.
CatchesUp ==
  enabled /\ (<>[]~manual) => <>[](\A o \in Object : row[o] # "pending")

-----------------------------------------------------------------------------
(***************************************************************************)
(* What comments and docs say and the code does not do.                    *)
(***************************************************************************)

\* app/_ingest.py: every writer of a study's content submits under one key,
\* content:{type}:{idno}, the scheduler too, to be protected "against them racing
\* each other". So where the scheduler's loop runs, the index never goes back to
\* a study's content it had already left behind. (Citations have no such key.)
NeverRolledBack ==
  [][enabled => \A o \in Object \cap Batched : idx'[o] >= idx[o]]_vars
=============================================================================
