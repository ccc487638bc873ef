------------------------------ MODULE Content -------------------------------
(***************************************************************************)
(* Everything that puts a study into the OpenSearch index, or takes it out, *)
(* beside the full-catalog ingest: the catalog webhook (app/webhooks.py),   *)
(* the catalog routes (app/catalog_admin.py), the scheduler's items         *)
(* (process_item), and the run that resolves the difference between NADA's  *)
(* books and its catalog (reconcile_diff_once), and what replaces a study's *)
(* variables alone (sync_survey_variables_op, by itself or as part of a     *)
(* change of options). NADA is external: its catalog, and what it believes  *)
(* is indexed, which changes only by reports and by acks of the scheduler's *)
(* items, and either may get lost.                                          *)
(***************************************************************************)
EXTENDS Integers, FiniteSets

CONSTANTS
  Idnos,      \* the studies, numbered in the order NADA lists them
  Micro,      \* those with variables
  SameIdno,   \* those whose record has the idno that NADA has
  Unmapped,   \* those of a dataset_type without a metadata_type
  PageSize,
  Workers,    \* where jobs, requests and the scheduler's items run
  Runner,     \* where the reconcile run works
  None,
  RunCost,    \* what a run counts for, an operation being 1
  MaxWork, MaxChanges, MaxFaults   \* bounds

ASSUME ContentAssumption ==
  /\ Idnos \subseteq Nat /\ IsFiniteSet(Idnos)
  /\ Micro \subseteq Idnos /\ SameIdno \subseteq Idnos /\ Unmapped \subseteq Idnos
  /\ PageSize \in Nat \ {0} /\ Runner \notin Workers /\ None \notin Workers \cup {Runner}

VARIABLES
  catalog,   \* the studies in NADA's catalog
  belief,    \* NADA's search_index_state: none, indexed, failed, deleted
  docs,      \* what the index holds of each study: chunks, study, vars
  op,        \* each operation under way
  slot,      \* who has the ingest semaphore
  run,       \* the reconcile run
  mark,      \* history: what may have left a study's entry and NADA's belief apart
  alone,     \* history: only the run changed anything since it began
  used       \* how much of each bound was used

vars == <<catalog, belief, docs, op, slot, run, mark, alone, used>>

Actors == Workers \cup {Runner}

Full(i) == {"chunks", "study"} \cup (IF i \in Micro THEN {"vars"} ELSE {})

Quiet == [kind |-> None, ids |-> {}, pc |-> "idle", good |-> TRUE, cancelled |-> FALSE]

\* `todo` is the first page of the stale ones until their turn, `seen` what was tried in
\* each phase, `cut` that the run was cancelled or could not read a list.
NoRun == [pc |-> "idle", phase |-> "missing", offset |-> 0, page |-> {}, todo |-> {},
          succeeded |-> 0, seen |-> {}, cut |-> FALSE, only |-> FALSE]

\* A study is in the index and known to be, or neither.
Init ==
  /\ catalog \in SUBSET Idnos
  /\ \E known \in SUBSET Idnos :
       /\ belief = [i \in Idnos |-> IF i \in known THEN "indexed" ELSE "none"]
       /\ docs = [i \in Idnos |-> IF i \in known THEN Full(i) ELSE {}]
  /\ op = [a \in Actors |-> Quiet]
  /\ slot = None
  /\ run = NoRun
  /\ mark = [i \in Idnos |-> {}]
  /\ alone = TRUE
  /\ used = [work |-> 0, changes |-> 0, faults |-> 0]

Live(a) == op[a].pc # "idle"
Active(a) == op[a].pc \notin {"idle", "wait", "over"}
Busy(i) == \E a \in Actors : Live(a) /\ i \in op[a].ids

Spend(what, n, max) == used[what] + n <= max /\ used' = [used EXCEPT ![what] = @ + n]
Fault(n) == Spend("faults", n, MaxFaults)

Marked(ids, why) == mark' = [i \in Idnos |-> IF i \in ids THEN mark[i] \cup {why} ELSE mark[i]]
Healed(ids, why) == mark' = [i \in Idnos |-> IF i \in ids THEN mark[i] \ why ELSE mark[i]]

Goes(a, pc, good, cancelled) ==
  op' = [op EXCEPT ![a] = [kind |-> op[a].kind, ids |-> op[a].ids, pc |-> pc,
                           good |-> good, cancelled |-> cancelled]]

At(a, pc) == Goes(a, pc, op[a].good, op[a].cancelled)
Failing(a, pc) == Goes(a, pc, FALSE, op[a].cancelled)
Done(a, good) == IF a = Runner THEN Goes(a, "over", good, FALSE) ELSE op' = [op EXCEPT ![a] = Quiet]
GiveSlot(a) == slot' = IF slot = a THEN None ELSE slot

-----------------------------------------------------------------------------
(* Jobs, requests, items. *)

\* content_sync_job_key: what writes a study's content as a job.
SharesKey(kind) == kind \in {"index", "upsert"}
IsJob(kind) == SharesKey(kind) \/ kind \in {"remove", "sync"}

\* "index", "upsert" (a webhook's, or /reindex), "remove" (the webhook's) and "sync" (the
\* variables of one study, /admin/variables/sync) are jobs, one at a time for their key;
\* "unpublish" is the DELETE route; of the scheduler's items "item" is a full index,
\* "options" a rewrite of the study document (upsert_partial) and "variables" (the
\* change_class) replaces those alone. None of these is a job.
OnlyVariables(kind) == kind \in {"sync", "variables"}

Kinds == {"index", "upsert", "remove", "unpublish", "item", "options", "sync", "variables"}

FirstStep(kind) ==
  CASE kind = "index" -> "wait"
    [] kind \in {"upsert", "remove", "unpublish"} -> "delChunks"
    [] kind = "item" -> "load"
    [] kind = "options" -> "look"
    [] kind \in {"sync", "variables"} -> "resync"

SameKey(kind, other) ==
  (SharesKey(kind) /\ SharesKey(other)) \/ (kind = other /\ kind \in {"remove", "sync"})

\* What a now begins on a study crosses another operation on it that no key keeps apart
\* from it: the two may leave anything.
Crosses(a, kind, i) ==
  \E b \in Actors \ {a} : /\ Active(b) /\ i \in op[b].ids
                          /\ op[b].cancelled \/ ~SameKey(kind, op[b].kind)

Begins(a, kind, ids) == Marked({i \in ids : Crosses(a, kind, i)}, "raced")

Begun(kind, ids, pc) ==
  [kind |-> kind, ids |-> ids, pc |-> pc, good |-> TRUE, cancelled |-> FALSE]

\* A job whose key is taken is not started (409). Of a study that has no variables there
\* are none to replace.
Submit(a, kind, i) ==
  /\ a \in Workers /\ ~Live(a)
  /\ OnlyVariables(kind) => i \in Micro
  /\ ~\E b \in Workers : Live(b) /\ i \in op[b].ids /\ ~op[b].cancelled /\ SameKey(kind, op[b].kind)
  /\ Spend("work", 1, MaxWork)
  /\ op' = [op EXCEPT ![a] = Begun(kind, {i}, FirstStep(kind))]
  /\ IF FirstStep(kind) = "wait" THEN UNCHANGED mark ELSE Begins(a, kind, {i})
  /\ alone' = FALSE
  /\ UNCHANGED <<catalog, belief, docs, slot, run>>

\* A job is cancelled: its key and its semaphore are free at once, the thread it waits
\* for goes on; an upsert whose thread deletes never gets to index.
Cancel(a) ==
  /\ a \in Workers /\ Live(a) /\ ~op[a].cancelled
  /\ IsJob(op[a].kind)
  /\ Fault(1)
  /\ IF op[a].pc = "wait" THEN Done(a, FALSE) ELSE Goes(a, op[a].pc, op[a].good, TRUE)
  /\ GiveSlot(a)
  /\ UNCHANGED <<catalog, belief, docs, run, mark, alone>>

(* _delete_opensearch_by: three indexes, one after the other. *)

\* The chunks go by the idno they carry and by the sid the study index has.
Reached(i) == i \in SameIdno \/ "study" \in docs[i]

Without(ids, part) == docs' = [i \in Idnos |-> IF i \in ids THEN docs[i] \ {part} ELSE docs[i]]

DeleteStep(a, pc, part, ids, next) ==
  /\ op[a].pc = pc
  /\ Without(ids, part)
  /\ At(a, next)
  /\ UNCHANGED <<catalog, belief, slot, run, mark, alone, used>>

\* A request fails: the operation raises, what went before it stays gone.
DeleteFails(a) ==
  /\ op[a].pc \in {"delChunks", "delStudy", "delVars"}
  /\ Fault(1)
  /\ Marked(op[a].ids, "halfDeleted")
  /\ Done(a, FALSE)
  /\ UNCHANGED <<catalog, belief, docs, slot, run, alone>>

\* Mutant: the study document goes first.
DeleteStudyFirst(a) ==
  \/ DeleteStep(a, "delChunks", "study", op[a].ids, "delStudy")
  \/ DeleteStep(a, "delStudy", "chunks", {i \in op[a].ids : Reached(i)}, "delVars")
  \/ DeleteStep(a, "delVars", "vars", op[a].ids, "deleted")
  \/ DeleteFails(a)

Delete(a) ==
  \/ DeleteStep(a, "delChunks", "chunks", {i \in op[a].ids : Reached(i)}, "delStudy")
  \/ DeleteStep(a, "delStudy", "study", op[a].ids, "delVars")
  \/ DeleteStep(a, "delVars", "vars", op[a].ids, "deleted")
  \/ DeleteFails(a)

\* A report to NADA (_report_state_bulk_best_effort): it arrives, or it is lost and the
\* caller never learns. What arrives of an operation nothing crossed is the truth.
Report(a, state) ==
  \/ /\ belief' = [i \in Idnos |-> IF i \in op[a].ids THEN state ELSE belief[i]]
     /\ Healed(op[a].ids, {"halfDeleted", "unsaid", "unfilled"}
                            \cup IF state = "indexed" THEN {"halfWritten"} ELSE {})
     /\ UNCHANGED used
  \/ /\ Fault(1)
     /\ Marked(op[a].ids, "unsaid")
     /\ UNCHANGED belief

\* The end of a deletion; an upsert goes on to index, unless it was cancelled.
Deleted(a) ==
  /\ op[a].pc = "deleted"
  /\ Report(a, "deleted")
  /\ IF op[a].kind = "upsert" /\ ~op[a].cancelled THEN At(a, "wait") ELSE Done(a, TRUE)
  /\ UNCHANGED <<catalog, docs, slot, run, alone>>

(* index_ids_op of one study. *)

\* guarded_ingest: a job indexes when it has the semaphore.
TakeSlot(a) ==
  /\ op[a].pc = "wait" /\ slot = None
  /\ slot' = a
  /\ At(a, "load")
  /\ Begins(a, op[a].kind, op[a].ids)
  /\ UNCHANGED <<catalog, belief, docs, run, alone, used>>

\* The record is read: what is not in the catalog does not load.
Load(a) ==
  /\ op[a].pc = "load"
  /\ \/ op[a].ids \subseteq catalog /\ At(a, "write") /\ UNCHANGED used
     \/ /\ IF op[a].ids \subseteq catalog THEN Fault(1) ELSE UNCHANGED used
        /\ Failing(a, "indexed")
  /\ UNCHANGED <<catalog, belief, docs, slot, run, mark, alone>>

With(ids, parts) == docs' = [i \in Idnos |-> IF i \in ids THEN docs[i] \cup parts ELSE docs[i]]

\* The chunks and then the study document are written, or some are refused, or the
\* backend fails and the operation raises, reporting nothing; nor is anything reported
\* when the refusals name no study.
Write(a) ==
  /\ op[a].pc = "write"
  /\ \/ /\ With(op[a].ids, {"chunks", "study"})
        /\ At(a, IF op[a].ids \subseteq Micro THEN "variables" ELSE "indexed")
        /\ UNCHANGED <<mark, slot, used>>
     \/ /\ Fault(1)
        /\ With(op[a].ids, {"chunks"})
        /\ Marked(op[a].ids, "halfWritten")
        /\ \/ /\ Failing(a, IF op[a].ids \subseteq Micro THEN "variables" ELSE "indexed")
              /\ UNCHANGED slot
           \/ Done(a, FALSE) /\ GiveSlot(a)
  /\ UNCHANGED <<catalog, belief, run, alone>>

\* The first page of a study's variables is read, by the id that an item comes with and that
\* anything else looks up in the study index.
VariablesRead(a) ==
  /\ op[a].ids \subseteq catalog
  /\ op[a].kind \in {"options", "variables"} \/ \A i \in op[a].ids : "study" \in docs[i]

\* sync_survey_variables_op as the last part of an index: once it has a first page it deletes
\* what is there and writes, page by page.
Variables(a) ==
  /\ op[a].pc = "variables"
  /\ \/ VariablesRead(a) /\ With(op[a].ids, {"vars"}) /\ At(a, "indexed") /\ UNCHANGED used
     \/ /\ IF VariablesRead(a)
           THEN Fault(1) /\ (Without(op[a].ids, "vars") \/ UNCHANGED docs)
           ELSE UNCHANGED <<used, docs>>
        /\ Failing(a, "indexed")
  /\ UNCHANGED <<catalog, belief, slot, run, mark, alone>>

\* Mutant: a study is reported by its own documents alone.
IndexedRegardless(a) ==
  /\ op[a].pc = "indexed"
  /\ Report(a, "indexed")
  /\ Done(a, op[a].good)
  /\ GiveSlot(a)
  /\ UNCHANGED <<catalog, docs, run, alone>>

\* _state_report_items: indexed only when everything of it was written.
Indexed(a) ==
  /\ op[a].pc = "indexed"
  /\ Report(a, IF op[a].good THEN "indexed" ELSE "failed")
  /\ Done(a, op[a].good)
  /\ GiveSlot(a)
  /\ UNCHANGED <<catalog, docs, run, alone>>

(* A part of a study: its document, its variables. *)

\* What worked on a part of the study ends. NADA takes the ack of an item for all of the
\* study being indexed, whatever it was told of it before; a job reports nothing.
Settles(a) ==
  /\ Done(a, TRUE)
  /\ Marked({i \in op[a].ids : belief[i] # "indexed"}, "unsaid")
  /\ \/ /\ op[a].kind # "sync"
        /\ belief' = [i \in Idnos |-> IF i \in op[a].ids THEN "indexed" ELSE belief[i]]
        /\ UNCHANGED used
     \/ /\ IF op[a].kind = "sync" THEN UNCHANGED used ELSE Fault(1)
        /\ UNCHANGED belief

\* apply_study_options_from_extract: a study that is in the index is written again, with
\* nothing looked at in between; one that is not is indexed in full.
Look(a) ==
  /\ op[a].pc = "look"
  /\ IF \A i \in op[a].ids : "study" \in docs[i] THEN At(a, "rewrite") ELSE At(a, "load")
  /\ UNCHANGED <<catalog, belief, docs, slot, run, mark, alone, used>>

\* The study document is written, the chunks' facets with it, and when it was published or
\* taken back its variables, where there are any, are replaced. A request that fails ends
\* it there: the item is acked failed, and nothing is said of the study.
Rewrite(a) ==
  /\ op[a].pc = "rewrite"
  /\ \/ /\ With(op[a].ids, {"study"})
        /\ \/ Settles(a)
           \/ /\ \A i \in op[a].ids : "vars" \in docs[i]
              /\ At(a, "resync")
              /\ UNCHANGED <<belief, mark, used>>
     \/ /\ Fault(1)
        /\ With(op[a].ids, {"study"}) \/ UNCHANGED docs
        /\ Done(a, FALSE)
        /\ UNCHANGED <<belief, mark>>
  /\ UNCHANGED <<catalog, slot, run, alone>>

\* sync_survey_variables_op by itself: what cannot be read, or is cancelled by then, is left
\* alone; else what is there goes.
Resync(a) ==
  /\ op[a].pc = "resync"
  /\ \/ /\ VariablesRead(a) /\ ~op[a].cancelled
        /\ Without(op[a].ids, "vars")
        /\ At(a, "refill")
        /\ UNCHANGED used
     \/ /\ IF VariablesRead(a) /\ ~op[a].cancelled THEN Fault(1) ELSE UNCHANGED used
        /\ Done(a, FALSE)
        /\ UNCHANGED docs
  /\ UNCHANGED <<catalog, belief, slot, run, mark, alone>>

\* The pages are written, or not to their end: a page fails to come or is refused, or the
\* job is cancelled. Nothing is reported then of the study, which NADA may have for indexed.
Refill(a) ==
  /\ op[a].pc = "refill"
  /\ \/ With(op[a].ids, {"vars"}) /\ Settles(a)
     \/ /\ IF op[a].cancelled THEN UNCHANGED used ELSE Fault(1)
        /\ Marked(op[a].ids, "unfilled")
        /\ Done(a, FALSE)
        /\ UNCHANGED <<belief, docs>>
  /\ UNCHANGED <<catalog, slot, run, alone>>

-----------------------------------------------------------------------------
(* reconcile_diff_once. *)

Missing == {i \in catalog : belief[i] # "indexed"}
StaleIn == {i \in Idnos \ catalog : belief[i] = "indexed"}
Diff(phase) == IF phase = "missing" THEN Missing ELSE StaleIn

\* list_diff_missing, list_diff_stale: one page, in NADA's order.
Page(phase, offset) ==
  LET before(i) == Cardinality({j \in Diff(phase) : j < i})
  IN  {i \in Diff(phase) : offset <= before(i) /\ before(i) < offset + PageSize}

\* A job, waiting for the semaphore; remove_only leaves the missing ones alone.
StartRun(only) ==
  /\ run.pc = "idle" /\ Spend("work", RunCost, MaxWork)
  /\ run' = [NoRun EXCEPT !.pc = "wait", !.only = only]
  /\ UNCHANGED <<catalog, belief, docs, op, slot, mark, alone>>

\* The first pages of both lists are read at once; the stale one may be old when its turn
\* comes.
RunBegins ==
  /\ run.pc = "wait" /\ slot = None
  /\ slot' = Runner
  /\ run' = [run EXCEPT !.pc = "page", !.todo = Page("stale", 0),
                        !.page = IF run.only THEN {} ELSE Page("missing", 0)]
  /\ alone' = (\A a \in Workers : ~Live(a))
  /\ UNCHANGED <<catalog, belief, docs, op, mark, used>>

CancelRun ==
  /\ run.pc \in {"page", "item"} /\ ~run.cut
  /\ Fault(1)
  /\ run' = [run EXCEPT !.cut = TRUE]
  /\ GiveSlot(Runner)
  /\ UNCHANGED <<catalog, belief, docs, op, mark, alone>>

RunOver == run' = [run EXCEPT !.pc = "over"] /\ GiveSlot(Runner)

\* A page is in hand: an empty one ends the phase, else what is new in it is worked on.
TakePage ==
  /\ run.pc = "page" /\ op[Runner].pc = "idle"
  /\ IF run.cut THEN RunOver
     ELSE IF run.page # {}
     THEN run' = [run EXCEPT !.pc = "item", !.succeeded = 0] /\ UNCHANGED slot
     ELSE IF run.phase = "missing"
     THEN run' = [run EXCEPT !.phase = "stale", !.offset = 0, !.page = run.todo, !.todo = {}] /\ UNCHANGED slot
     ELSE RunOver
  /\ UNCHANGED <<catalog, belief, docs, op, mark, alone, used>>

New == {i \in run.page : <<run.phase, i>> \notin run.seen}

\* What is worked on next: the first missing study, or in one request all the stale ones
\* of the page.
Turns ==
  IF run.phase = "missing" THEN {{i} : i \in {j \in New : \A k \in New : j <= k}} ELSE {New}

\* A missing study is indexed, or skipped for its type; stale ones are deleted.
TakeItem ==
  /\ run.pc = "item" /\ op[Runner].pc = "idle" /\ New # {}
  /\ IF run.cut /\ run.phase = "missing"
     THEN RunOver /\ UNCHANGED <<op, mark>>
     ELSE \E ids \in Turns :
            /\ run' = [run EXCEPT !.seen = @ \cup {<<run.phase, i>> : i \in ids}]
            /\ IF run.phase = "missing" /\ ids \subseteq Unmapped THEN UNCHANGED <<op, mark>>
               ELSE /\ op' = [op EXCEPT ![Runner] =
                         Begun(run.phase, ids, IF run.phase = "missing" THEN "load" ELSE "delChunks")]
                    /\ Begins(Runner, run.phase, ids)
            /\ UNCHANGED slot
  /\ UNCHANGED <<catalog, belief, docs, alone, used>>

ItemOver ==
  /\ op[Runner].pc = "over"
  /\ op' = [op EXCEPT ![Runner] = Quiet]
  /\ run' = [run EXCEPT !.succeeded = @ + IF op[Runner].good THEN Cardinality(op[Runner].ids) ELSE 0]
  /\ UNCHANGED <<catalog, belief, docs, slot, mark, alone, used>>

\* Mutant: the next page is where this one was, as if all of it had left the list.
NextPageStays ==
  /\ run.pc = "item" /\ op[Runner].pc = "idle" /\ New = {}
  /\ run' = [run EXCEPT !.pc = "page", !.page = Page(run.phase, run.offset)]
  /\ UNCHANGED <<catalog, belief, docs, op, slot, mark, alone, used>>

\* Mutant: the next page is the one after this, as in a list that stays.
NextPageBySize ==
  /\ run.pc = "item" /\ op[Runner].pc = "idle" /\ New = {}
  /\ LET offset == run.offset + Cardinality(run.page)
     IN run' = [run EXCEPT !.pc = "page", !.offset = offset, !.page = Page(run.phase, offset)]
  /\ UNCHANGED <<catalog, belief, docs, op, slot, mark, alone, used>>

\* What stayed in the list is passed over, what left it made room.
NextPage ==
  /\ run.pc = "item" /\ op[Runner].pc = "idle" /\ New = {}
  /\ LET offset == run.offset + Cardinality(run.page) - run.succeeded
     IN run' = [run EXCEPT !.pc = "page", !.offset = offset, !.page = Page(run.phase, offset)]
  /\ UNCHANGED <<catalog, belief, docs, op, slot, mark, alone, used>>

\* The list cannot be read: the run fails.
PageFails ==
  /\ run.pc = "item" /\ op[Runner].pc = "idle" /\ New = {}
  /\ Fault(1)
  /\ run' = [run EXCEPT !.pc = "over", !.cut = TRUE]
  /\ GiveSlot(Runner)
  /\ UNCHANGED <<catalog, belief, docs, op, mark, alone>>

-----------------------------------------------------------------------------
\* NADA's catalog changes.
Change(i) ==
  /\ Spend("changes", 1, MaxChanges)
  /\ catalog' = IF i \in catalog THEN catalog \ {i} ELSE catalog \cup {i}
  /\ alone' = FALSE
  /\ UNCHANGED <<belief, docs, op, slot, run, mark>>

\* The process stops, and starts again with nothing under way.
Crash ==
  /\ \E a \in Actors : Live(a)
  /\ Fault(1)
  /\ Marked(UNION {op[a].ids : a \in {b \in Actors : op[b].pc \notin {"idle", "wait", "over"}}}, "halfWritten")
  /\ op' = [a \in Actors |-> Quiet]
  /\ slot' = None /\ run' = NoRun
  /\ alone' = FALSE
  /\ UNCHANGED <<catalog, belief, docs>>

RunStep == RunBegins \/ TakePage \/ TakeItem \/ ItemOver \/ NextPage

Step(a) ==
  Delete(a) \/ Deleted(a) \/ TakeSlot(a) \/ Load(a) \/ Write(a) \/ Variables(a) \/ Indexed(a)
    \/ Look(a) \/ Rewrite(a) \/ Resync(a) \/ Refill(a)

Next ==
  \/ \E a \in Workers, i \in Idnos, kind \in Kinds : Submit(a, kind, i)
  \/ \E a \in Actors : Cancel(a) \/ Step(a)
  \/ \E only \in BOOLEAN : StartRun(only)
  \/ CancelRun \/ PageFails \/ RunStep
  \/ \E i \in Idnos : Change(i)
  \/ Crash

Spec == Init /\ [][Next]_vars /\ WF_vars(RunStep) /\ \A a \in Actors : WF_vars(Step(a))

-----------------------------------------------------------------------------
(* Properties. *)

\* "so none are left behind": a deletion that ends well leaves nothing of the study,
\* also where earlier ones stopped half-way and the chunks' own idno is not NADA's,
\* unless an index write of it stopped half-way or crossed it.
DeleteLeavesNothing ==
  \A a \in Actors : op[a].pc = "deleted" =>
    \A i \in op[a].ids : mark[i] \cap {"raced", "halfWritten"} = {} => docs[i] = {}

\* What NADA believes of a study is so, whatever jobs, requests, items and runs worked on
\* it one after the other, and whichever of their requests failed: its whole entry is
\* there, or nothing of it. Where its variables were replaced by themselves and not to
\* their end, which is never reported, it is so but for the variables. Nothing is asked
\* where two operations crossed that no key keeps apart; nor, until the next report
\* arrives, where a deletion failed half-way, a report was lost, or an item or a job did
\* its part of a study that NADA had not for indexed; nor, until it is indexed again, where
\* a write was refused or the process stopped.
BeliefHolds ==
  \A i \in Idnos : ~Busy(i) /\ mark[i] \subseteq {"unfilled"} =>
    LET unsure == IF mark[i] = {} THEN {} ELSE {"vars"}
    IN  /\ belief[i] = "indexed" => Full(i) \ docs[i] \subseteq unsure
        /\ belief[i] \in {"none", "deleted"} => docs[i] \subseteq unsure

\* A run that was not cut short, and that nothing else worked beside, has tried all
\* that is still missing and all that is still stale, although both lists shrank as it
\* paged through them, by some reports and not by those that failed or were lost.
NothingSkipped ==
  run.pc = "over" /\ alone /\ ~run.cut =>
    /\ ~run.only => \A i \in Missing : <<"missing", i>> \in run.seen
    /\ \A i \in StaleIn : <<"stale", i>> \in run.seen

\* A run ends, however many of its studies stay in the lists.
RunEnds == run.pc # "idle" ~> run.pc \in {"idle", "over"}
=============================================================================
