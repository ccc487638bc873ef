---------------------------- MODULE ContentProofs ----------------------------
(***************************************************************************)
(* What holds of a study's entry in the index, and of what NADA believes of *)
(* it, for any studies, workers, page sizes and operations, whichever way    *)
(* their requests interleave, fail and get lost.                            *)
(*                                                                         *)
(* The argument is local to a study: two operations at work on it at once   *)
(* are keeping their key apart, or it is marked as raced (Apart), so that   *)
(* of a study without the mark one operation alone changes the entry, and   *)
(* at each of its steps what the steps before have done still stands        *)
(* (Sound). For a run the argument is about ranks in its two lists (RInv).   *)
(***************************************************************************)
EXTENDS Content, FiniteSetTheorems, WellFoundedInduction, TLAPS

Deleting == {"delChunks", "delStudy", "delVars", "deleted"}
Indexing == {"load", "write", "variables", "indexed"}
Rewriting == {"look", "rewrite", "resync"}
Place == Deleting \cup Indexing \cup Rewriting \cup {"refill", "idle", "wait", "over"}

\* An operation: one study but for a deletion; the run's are of no job's kind; what waits is
\* a job nobody cancelled; only a study that has variables has them replaced.
OpOK(a) ==
  /\ op[a].pc \in Place /\ op[a].ids \subseteq Idnos
  /\ op[a].good \in BOOLEAN /\ op[a].cancelled \in BOOLEAN
  /\ op[a].pc \in Indexing \cup Rewriting \cup {"refill", "wait"} \/ (Live(a) /\ op[a].kind = "upsert") =>
       \E i \in Idnos : op[a].ids = {i}
  /\ op[a].pc \in {"variables", "resync", "refill"} => op[a].ids \subseteq Micro
  /\ a = Runner /\ Live(a) => op[a].kind \notin {"index", "upsert", "remove", "sync"}
  /\ op[a].pc = "wait" => ~op[a].cancelled /\ op[a].kind \in {"index", "upsert"}

Trials == SUBSET ({"missing", "stale"} \X Idnos)

Runs ==
  [pc : {"idle", "wait", "page", "item", "over"}, phase : {"missing", "stale"}, offset : Int,
   page : SUBSET Idnos, todo : SUBSET Idnos, succeeded : Int,
   seen : Trials, cut : BOOLEAN, only : BOOLEAN]

Typed ==
  /\ DOMAIN op = Actors /\ \A a \in Actors : OpOK(a)
  /\ DOMAIN docs = Idnos /\ DOMAIN belief = Idnos /\ DOMAIN mark = Idnos
  /\ \A i \in Idnos : docs[i] \subseteq Full(i)
  /\ catalog \subseteq Idnos /\ run \in Runs

\* Of a key, one job that was not cancelled.
KeysHeld ==
  \A a, b \in Workers :
    a # b /\ Live(a) /\ Live(b) /\ ~op[a].cancelled /\ ~op[b].cancelled
      /\ SameKey(op[a].kind, op[b].kind)
      => op[a].ids \cap op[b].ids = {}

\* Two operations at work on a study have raced.
Apart ==
  \A a, b \in Actors : a # b /\ Active(a) /\ Active(b) =>
    \A i \in op[a].ids \cap op[b].ids : "raced" \in mark[i]

\* What an operation has done so far to a study that nothing else works on; of a deletion,
\* to one that no write left half done.
Sound(a, i) ==
  /\ "halfWritten" \notin mark[i] =>
       /\ op[a].pc \in {"delStudy", "delVars", "deleted"} => "chunks" \notin docs[i]
       /\ op[a].pc \in {"delVars", "deleted"} => "study" \notin docs[i]
  /\ op[a].pc = "deleted" => "vars" \notin docs[i]
  /\ op[a].pc \in {"variables", "indexed"} /\ op[a].good => {"chunks", "study"} \subseteq docs[i]
  /\ op[a].pc = "indexed" /\ op[a].good /\ i \in Micro => "vars" \in docs[i]
  /\ op[a].pc = "rewrite" => "study" \in docs[i]
  /\ op[a].pc = "refill" /\ mark[i] \subseteq {"unfilled"} =>
       /\ belief[i] = "indexed" => {"chunks", "study"} \subseteq docs[i]
       /\ belief[i] \in {"none", "deleted"} => docs[i] \subseteq {"vars"}

\* No chunks without the study document, which alone knows their sid.
Entry(i) ==
  mark[i] \cap {"raced", "halfWritten"} = {} => ("chunks" \in docs[i] => "study" \in docs[i])

\* What NADA believes is so, but for variables that were not replaced to their end.
Told(i) ==
  LET unsure == IF mark[i] = {} THEN {} ELSE {"vars"}
  IN  /\ belief[i] = "indexed" => Full(i) \ docs[i] \subseteq unsure
      /\ belief[i] \in {"none", "deleted"} => docs[i] \subseteq unsure

\* It is, where nothing is at work or a document is only written again.
Known(i) ==
  mark[i] \subseteq {"unfilled"} /\ (\A a \in Actors : Active(a) /\ i \in op[a].ids => op[a].pc \in Rewriting)
    => Told(i)

StudyOK(i) ==
  /\ Entry(i) /\ Known(i)
  /\ "raced" \notin mark[i] =>
       \A a \in Actors : Active(a) /\ i \in op[a].ids => Sound(a, i)

IInv == Typed /\ KeysHeld /\ Apart /\ \A i \in Idnos : StudyOK(i)

-----------------------------------------------------------------------------
LEMMA Places ==
  /\ \A p \in Deleting \cup Indexing \cup Rewriting : p \notin {"idle", "wait", "over"}
  /\ Quiet.pc = "idle" /\ Quiet.ids = {} /\ Quiet.cancelled = FALSE
  BY DEF Deleting, Indexing, Rewriting, Quiet

\* The operations after one of them went on, or ended.
LEMMA GoesMoves ==
  ASSUME Typed, NEW a \in Actors, NEW STATE pc, NEW STATE good, NEW STATE cancelled,
         Goes(a, pc, good, cancelled)
  PROVE  /\ DOMAIN op' = Actors /\ \A b \in Actors : b # a => op'[b] = op[b]
         /\ op'[a].pc = pc /\ op'[a].good = good /\ op'[a].cancelled = cancelled
         /\ op'[a].kind = op[a].kind /\ op'[a].ids = op[a].ids
<1> DEFINE o == [kind |-> op[a].kind, ids |-> op[a].ids, pc |-> pc,
                 good |-> good, cancelled |-> cancelled]
<1>1. op' = [op EXCEPT ![a] = o]  BY DEF Goes
<1>2. /\ o.pc = pc /\ o.good = good /\ o.cancelled = cancelled
      /\ o.kind = op[a].kind /\ o.ids = op[a].ids
  OBVIOUS
<1> HIDE DEF o
<1> QED  BY <1>1, <1>2 DEF Typed

\* Of the actor a, its operation and its studies, and of nothing else.
Moves(a) ==
  /\ DOMAIN op' = Actors /\ \A b \in Actors : b # a => op'[b] = op[b]
  /\ \/ op'[a] = Quiet
     \/ /\ op'[a].ids = op[a].ids /\ op'[a].kind = op[a].kind
        /\ a \in Workers => op'[a].cancelled = op[a].cancelled
  /\ DOMAIN docs' = Idnos /\ DOMAIN belief' = Idnos /\ DOMAIN mark' = Idnos
  /\ \A i \in Idnos \ op[a].ids :
       docs'[i] = docs[i] /\ belief'[i] = belief[i] /\ mark'[i] = mark[i]
  /\ \A i \in op[a].ids : "raced" \in mark[i] => "raced" \in mark'[i]
  /\ UNCHANGED <<catalog, run>>

\* A step of an operation at work, then, has to keep what is said of its own studies, of
\* those nothing else works on.
StepOK(a, i) ==
  /\ docs'[i] \subseteq Full(i)
  /\ "raced" \notin mark[i] =>
       /\ Entry(i)'
       /\ Active(a)' => Sound(a, i)'
       /\ mark'[i] \subseteq {"unfilled"} /\ (Active(a)' => op'[a].pc \in Rewriting) => Told(i)'

LEMMA StepKeeps ==
  ASSUME IInv, NEW a \in Actors, Active(a), Moves(a), OpOK(a)',
         \A i \in op[a].ids : StepOK(a, i)
  PROVE  IInv'
<1> USE DEF IInv
<1>1. op[a].ids \subseteq Idnos /\ op'[a].ids \subseteq op[a].ids
  BY Places DEF Typed, OpOK, Moves
<1>2. Typed'
  <2>1. \A b \in Actors : OpOK(b)'
    <3> SUFFICES ASSUME NEW b \in Actors, b # a PROVE OpOK(b)'  OBVIOUS
    <3>1. OpOK(b) /\ op'[b] = op[b]  BY DEF Typed, Moves
    <3> QED  BY <3>1 DEF OpOK, Live
  <2>2. \A i \in Idnos : docs'[i] \subseteq Full(i)
    BY <1>1 DEF Typed, Moves, StepOK
  <2> QED  BY <2>1, <2>2 DEF Typed, Moves, Full
<1>3. KeysHeld'
  <2>1. \A b \in Workers : Live(b)' => /\ Live(b) /\ op'[b].kind = op[b].kind
                                      /\ op'[b].ids = op[b].ids /\ op'[b].cancelled = op[b].cancelled
    BY Places DEF Moves, Live, Active, Actors
  <2> QED  BY <2>1 DEF KeysHeld
<1>4. \A b \in Actors : Active(b)' => Active(b) /\ op'[b].ids = op[b].ids
  BY Places DEF Moves, Active
<1>5. \A i \in Idnos : "raced" \in mark[i] => "raced" \in mark'[i]
  BY DEF Moves
<1>6. Apart'  BY <1>1, <1>4, <1>5 DEF Apart, Typed, OpOK
<1>7. ASSUME NEW i \in Idnos PROVE StudyOK(i)'
  <2>1. CASE i \notin op[a].ids
    <3>1. docs'[i] = docs[i] /\ belief'[i] = belief[i] /\ mark'[i] = mark[i]  BY <2>1 DEF Moves
    <3>2. \A b \in Actors : (Active(b)' /\ i \in op'[b].ids) =>
            Active(b) /\ i \in op[b].ids /\ op'[b] = op[b]
      BY <1>1, <1>4, <2>1 DEF Moves
    <3>3. \A b \in Actors : (Active(b) /\ i \in op[b].ids) => Active(b)' /\ i \in op'[b].ids /\ op'[b] = op[b]
      BY <2>1 DEF Moves, Active
    <3>4. Entry(i)'  BY <3>1 DEF StudyOK, Entry
    <3>5. Known(i)'  BY <3>1, <3>2, <3>3 DEF StudyOK, Known, Told, Full
    <3>6. "raced" \notin mark'[i] =>
            \A b \in Actors : Active(b)' /\ i \in op'[b].ids => Sound(b, i)'
      BY <3>1, <3>2 DEF StudyOK, Sound
    <3> QED  BY <3>4, <3>5, <3>6 DEF StudyOK
  <2>2. CASE i \in op[a].ids /\ "raced" \notin mark[i]
    <3>1. \A b \in Actors : b # a => ~(Active(b) /\ i \in op[b].ids)  BY <2>2 DEF Apart
    <3>2. \A b \in Actors : b # a => ~(Active(b)' /\ i \in op'[b].ids)
      BY <1>4, <3>1
    <3>3. StepOK(a, i)  BY <2>2
    <3>4. Known(i)'
      <4> SUFFICES ASSUME mark'[i] \subseteq {"unfilled"},
                          \A b \in Actors : Active(b)' /\ i \in op'[b].ids => op'[b].pc \in Rewriting
                   PROVE  Told(i)'
        BY DEF Known
      <4>1. Active(a)' => op'[a].pc \in Rewriting  BY <1>4, <2>2
      <4> QED  BY <2>2, <3>3, <4>1 DEF StepOK
    <3> QED  BY <2>2, <3>2, <3>3, <3>4 DEF StudyOK, StepOK
  <2>3. CASE i \in op[a].ids /\ "raced" \in mark[i]
    <3>1. "raced" \in mark'[i]  BY <1>5, <2>3
    <3> QED  BY <3>1 DEF StudyOK, Entry, Known
  <2> QED  BY <2>1, <2>2, <2>3
<1> QED  BY <1>2, <1>3, <1>6, <1>7

LEMMA DoneMoves ==
  ASSUME Typed, NEW a \in Actors, NEW STATE good, good \in BOOLEAN, Done(a, good)
  PROVE  /\ DOMAIN op' = Actors /\ \A b \in Actors : b # a => op'[b] = op[b]
         /\ \/ op'[a] = Quiet
            \/ /\ op'[a].ids = op[a].ids /\ op'[a].kind = op[a].kind
               /\ a = Runner /\ op'[a].pc = "over"
         /\ ~Active(a)' /\ (Live(a) => OpOK(a)')
<1>1. CASE a = Runner
  <2>1. Goes(a, "over", good, FALSE)  BY <1>1 DEF Done
  <2>2. /\ DOMAIN op' = Actors /\ \A b \in Actors : b # a => op'[b] = op[b]
        /\ op'[a].pc = "over" /\ op'[a].good = good /\ op'[a].cancelled = FALSE
        /\ op'[a].kind = op[a].kind /\ op'[a].ids = op[a].ids
    BY <2>1, GoesMoves
  <2>3. Live(a) => OpOK(a)'
    BY <1>1, <2>2 DEF Typed, OpOK, Place, Indexing, Rewriting, Live
  <2> QED  BY <1>1, <2>2, <2>3 DEF Active
<1>2. CASE a # Runner
  <2>1. op' = [op EXCEPT ![a] = Quiet]  BY <1>2 DEF Done
  <2>2. DOMAIN op' = Actors /\ op'[a] = Quiet /\ \A b \in Actors : b # a => op'[b] = op[b]
    BY <2>1 DEF Typed
  <2>3. OpOK(a)'  BY <2>2 DEF OpOK, Quiet, Place, Indexing, Rewriting, Live
  <2> QED  BY <2>2, <2>3, Places DEF Active
<1> QED  BY <1>1, <1>2

\* The deletion of one part, the others still to go.
LEMMA DeleteKeeps ==
  ASSUME IInv, NEW a \in Actors, Delete(a)
  PROVE  IInv'
<1> USE DEF IInv
<1>0. OpOK(a) /\ \A i \in op[a].ids : StudyOK(i) /\ docs[i] \subseteq Full(i)
  BY DEF Typed, OpOK
<1>1. ASSUME NEW pc, NEW part, NEW STATE ids, NEW next,
             DeleteStep(a, pc, part, ids, next), ids \subseteq op[a].ids,
             pc \in Deleting, next \in Deleting,
             \A i \in op[a].ids : "raced" \notin mark[i] => Entry(i)' /\ Sound(a, i)'
      PROVE  IInv'
  <2>1. /\ DOMAIN op' = Actors /\ \A b \in Actors : b # a => op'[b] = op[b]
        /\ op'[a].pc = next /\ op'[a].good = op[a].good /\ op'[a].cancelled = op[a].cancelled
        /\ op'[a].kind = op[a].kind /\ op'[a].ids = op[a].ids
    BY <1>1, GoesMoves DEF DeleteStep, At
  <2>2. /\ docs' = [i \in Idnos |-> IF i \in ids THEN docs[i] \ {part} ELSE docs[i]]
        /\ UNCHANGED <<catalog, belief, run, mark>>
    BY <1>1 DEF DeleteStep, Without
  <2>3. Active(a)  BY <1>1, Places DEF Active, DeleteStep
  <2>4. Moves(a)  BY <1>1, <2>1, <2>2 DEF Moves, Typed
  <2>5. OpOK(a)'
    BY <1>0, <1>1, <2>1 DEF OpOK, Place, Deleting, Indexing, Rewriting, Live, DeleteStep
  <2>6. Active(a)' /\ op'[a].pc \notin Rewriting
    BY <1>1, <2>1 DEF Active, Deleting, Rewriting
  <2>7. \A i \in op[a].ids : StepOK(a, i)
    BY <1>0, <1>1, <2>2, <2>6 DEF StepOK, OpOK
  <2> QED  BY <2>3, <2>4, <2>5, <2>7, StepKeeps
<1>2. CASE DeleteStep(a, "delChunks", "chunks", {i \in op[a].ids : Reached(i)}, "delStudy")
  <2> DEFINE ids == {i \in op[a].ids : Reached(i)}
  <2>1. op'[a].pc = "delStudy"  BY <1>2, GoesMoves DEF DeleteStep, At
  <2>2. ASSUME NEW i \in op[a].ids, "raced" \notin mark[i] PROVE Entry(i)' /\ Sound(a, i)'
    <3>1. docs'[i] = (IF Reached(i) THEN docs[i] \ {"chunks"} ELSE docs[i]) /\ mark' = mark
      BY <1>0, <1>2 DEF DeleteStep, Without, OpOK
    <3>2. "halfWritten" \notin mark[i] => "chunks" \notin docs'[i]
      BY <1>0, <2>2, <3>1 DEF StudyOK, Entry, Reached
    <3> QED  BY <1>0, <2>1, <2>2, <3>1, <3>2 DEF StudyOK, Entry, Sound
  <2>3. ids \subseteq op[a].ids  OBVIOUS
  <2> HIDE DEF ids
  <2> QED  BY <1>1, <1>2, <2>2, <2>3 DEF ids, Deleting
<1>3. CASE DeleteStep(a, "delStudy", "study", op[a].ids, "delVars")
  <2>1. op[a].pc = "delStudy" /\ op'[a].pc = "delVars"
    BY <1>3, GoesMoves DEF DeleteStep, At
  <2>2. ASSUME NEW i \in op[a].ids, "raced" \notin mark[i] PROVE Entry(i)' /\ Sound(a, i)'
    <3>1. docs'[i] = docs[i] \ {"study"} /\ mark' = mark
      BY <1>0, <1>3 DEF DeleteStep, Without, OpOK
    <3>2. Sound(a, i)  BY <1>0, <2>1, <2>2 DEF StudyOK, Active
    <3> QED  BY <1>0, <2>1, <3>1, <3>2 DEF StudyOK, Entry, Sound
  <2> QED  BY <1>1, <1>3, <2>2 DEF Deleting
<1>4. CASE DeleteStep(a, "delVars", "vars", op[a].ids, "deleted")
  <2>1. op[a].pc = "delVars" /\ op'[a].pc = "deleted"
    BY <1>4, GoesMoves DEF DeleteStep, At
  <2>2. ASSUME NEW i \in op[a].ids, "raced" \notin mark[i] PROVE Entry(i)' /\ Sound(a, i)'
    <3>1. docs'[i] = docs[i] \ {"vars"} /\ mark' = mark
      BY <1>0, <1>4 DEF DeleteStep, Without, OpOK
    <3>2. Sound(a, i)  BY <1>0, <2>1, <2>2 DEF StudyOK, Active
    <3> QED  BY <1>0, <2>1, <3>1, <3>2 DEF StudyOK, Entry, Sound
  <2> QED  BY <1>1, <1>4, <2>2 DEF Deleting
<1>5. CASE DeleteFails(a)
  <2>1. op[a].pc \in Deleting /\ Active(a) /\ Live(a)
    BY <1>5 DEF DeleteFails, Deleting, Active, Live
  <2>2. /\ DOMAIN op' = Actors /\ \A b \in Actors : b # a => op'[b] = op[b]
        /\ \/ op'[a] = Quiet
           \/ op'[a].ids = op[a].ids /\ op'[a].kind = op[a].kind /\ a = Runner
        /\ ~Active(a)' /\ OpOK(a)'
    BY <1>5, <2>1, DoneMoves DEF DeleteFails
  <2>3. /\ mark' = [i \in Idnos |-> IF i \in op[a].ids THEN mark[i] \cup {"halfDeleted"} ELSE mark[i]]
        /\ UNCHANGED <<catalog, belief, docs, run>>
    BY <1>5 DEF DeleteFails, Marked
  <2>4. Moves(a)
    BY <1>0, <2>2, <2>3, ContentAssumption DEF Moves, Typed, Actors, OpOK
  <2>5. \A i \in op[a].ids : StepOK(a, i)
    BY <1>0, <2>2, <2>3 DEF StepOK, StudyOK, Entry, OpOK
  <2> QED  BY <2>1, <2>2, <2>4, <2>5, StepKeeps
<1> QED  BY <1>2, <1>3, <1>4, <1>5 DEF Delete

\* What a report makes of belief and marks, whether it arrives or is lost.
LEMMA ReportTells ==
  ASSUME IInv, NEW a \in Actors, NEW state, Report(a, state), op[a].ids \subseteq Idnos
  PROVE  /\ DOMAIN belief' = Idnos /\ DOMAIN mark' = Idnos
         /\ \A i \in Idnos \ op[a].ids : belief'[i] = belief[i] /\ mark'[i] = mark[i]
         /\ \A i \in op[a].ids :
              /\ "raced" \in mark[i] <=> "raced" \in mark'[i]
              /\ "halfWritten" \in mark'[i] => "halfWritten" \in mark[i]
              /\ state # "indexed" /\ "halfWritten" \in mark[i] => "halfWritten" \in mark'[i]
              /\ mark'[i] \subseteq {"unfilled"} => belief'[i] = state /\ mark'[i] = {}
<1>1. CASE /\ belief' = [i \in Idnos |-> IF i \in op[a].ids THEN state ELSE belief[i]]
           /\ Healed(op[a].ids, {"halfDeleted", "unsaid", "unfilled"}
                                  \cup IF state = "indexed" THEN {"halfWritten"} ELSE {})
  BY <1>1 DEF Healed
<1>2. CASE Marked(op[a].ids, "unsaid") /\ UNCHANGED belief
  BY <1>2 DEF Marked, IInv, Typed
<1> QED  BY <1>1, <1>2 DEF Report

LEMMA DeletedKeeps ==
  ASSUME IInv, NEW a \in Actors, Deleted(a)
  PROVE  IInv'
<1> USE DEF IInv
<1>1. /\ OpOK(a) /\ Active(a) /\ Live(a) /\ op[a].pc = "deleted"
      /\ \A i \in op[a].ids : StudyOK(i) /\ docs[i] \subseteq Full(i)
  BY DEF Typed, OpOK, Deleted, Active, Live
<1>2. /\ DOMAIN op' = Actors /\ \A b \in Actors : b # a => op'[b] = op[b]
      /\ \/ op'[a] = Quiet
         \/ /\ op'[a].ids = op[a].ids /\ op'[a].kind = op[a].kind
            /\ a \in Workers => op'[a].cancelled = op[a].cancelled
      /\ OpOK(a)' /\ ~Active(a)'
  <2>1. CASE op[a].kind = "upsert" /\ ~op[a].cancelled /\ At(a, "wait")
    <3>1. /\ DOMAIN op' = Actors /\ \A b \in Actors : b # a => op'[b] = op[b]
          /\ op'[a].pc = "wait" /\ op'[a].good = op[a].good /\ op'[a].cancelled = op[a].cancelled
          /\ op'[a].kind = op[a].kind /\ op'[a].ids = op[a].ids
      BY <2>1, GoesMoves DEF At
    <3> QED  BY <1>1, <2>1, <3>1 DEF Active, OpOK, Place, Indexing, Rewriting, Live
  <2>2. CASE Done(a, TRUE)
    <3>1. TRUE \in BOOLEAN  OBVIOUS
    <3> QED  BY <1>1, <2>2, <3>1, DoneMoves, ContentAssumption
  <2> QED  BY <2>1, <2>2 DEF Deleted
<1>3. UNCHANGED <<catalog, docs, run>> /\ Report(a, "deleted")  BY DEF Deleted
<1>4. Moves(a)
  BY <1>1, <1>2, <1>3, ReportTells DEF Moves, Typed, OpOK
<1>5. ASSUME NEW i \in op[a].ids PROVE StepOK(a, i)
  <2>1. "raced" \notin mark[i] => Sound(a, i)  BY <1>1 DEF StudyOK
  <2>2. /\ "halfWritten" \in mark[i] => "halfWritten" \in mark'[i]
        /\ mark'[i] \subseteq {"unfilled"} => belief'[i] = "deleted"
        /\ "raced" \in mark'[i] <=> "raced" \in mark[i]
    BY <1>1, <1>3, ReportTells DEF OpOK
  <2>3. "raced" \notin mark[i] /\ mark'[i] \subseteq {"unfilled"} => docs'[i] = {}
    BY <1>1, <1>3, <2>1, <2>2 DEF Sound, Full
  <2> QED  BY <1>1, <1>2, <1>3, <2>2, <2>3 DEF StepOK, StudyOK, Entry, Told, Full
<1> QED  BY <1>1, <1>2, <1>4, <1>5, StepKeeps

LEMMA LoadKeeps ==
  ASSUME IInv, NEW a \in Actors, Load(a)
  PROVE  IInv'
<1> USE DEF IInv
<1>1. /\ OpOK(a) /\ Active(a) /\ op[a].pc = "load"
      /\ \A i \in op[a].ids : StudyOK(i) /\ docs[i] \subseteq Full(i)
  BY DEF Typed, OpOK, Load, Active
<1>2. /\ DOMAIN op' = Actors /\ \A b \in Actors : b # a => op'[b] = op[b]
      /\ op'[a].cancelled = op[a].cancelled /\ op'[a].kind = op[a].kind /\ op'[a].ids = op[a].ids
      /\ \/ op'[a].pc = "write" /\ op'[a].good = op[a].good
         \/ op'[a].pc = "indexed" /\ op'[a].good = FALSE
  <2>1. CASE At(a, "write")
    BY <2>1, GoesMoves DEF At
  <2>2. CASE Failing(a, "indexed")
    <3>1. /\ DOMAIN op' = Actors /\ \A b \in Actors : b # a => op'[b] = op[b]
          /\ op'[a].pc = "indexed" /\ op'[a].good = FALSE /\ op'[a].cancelled = op[a].cancelled
          /\ op'[a].kind = op[a].kind /\ op'[a].ids = op[a].ids
      BY <2>2, GoesMoves DEF Failing
    <3> QED  BY <3>1
  <2> QED  BY <2>1, <2>2 DEF Load
<1>3. UNCHANGED <<catalog, belief, docs, run, mark>>  BY DEF Load
<1>4. Moves(a)  BY <1>1, <1>2, <1>3 DEF Moves, Typed
<1>5. OpOK(a)' /\ op'[a].pc \notin Rewriting /\ Active(a)'
  BY <1>1, <1>2 DEF OpOK, Place, Indexing, Rewriting, Live, Active
<1>6. \A i \in op[a].ids : StepOK(a, i)
  BY <1>1, <1>2, <1>3, <1>5 DEF StepOK, StudyOK, Entry, Sound
<1> QED  BY <1>1, <1>4, <1>5, <1>6, StepKeeps

LEMMA WriteKeeps ==
  ASSUME IInv, NEW a \in Actors, Write(a)
  PROVE  IInv'
<1> USE DEF IInv
<1> DEFINE next == IF op[a].ids \subseteq Micro THEN "variables" ELSE "indexed"
<1>1. /\ OpOK(a) /\ Active(a) /\ Live(a) /\ op[a].pc = "write"
      /\ \A i \in op[a].ids : StudyOK(i) /\ docs[i] \subseteq Full(i)
  BY DEF Typed, OpOK, Write, Active, Live
<1>2. PICK n \in Idnos : op[a].ids = {n}  BY <1>1 DEF OpOK, Indexing
<1>3. UNCHANGED <<catalog, belief, run>>  BY DEF Write
<1>4. CASE /\ With(op[a].ids, {"chunks", "study"})
           /\ At(a, next) /\ UNCHANGED mark
  <2>1. /\ DOMAIN op' = Actors /\ \A b \in Actors : b # a => op'[b] = op[b]
        /\ op'[a].cancelled = op[a].cancelled /\ op'[a].kind = op[a].kind /\ op'[a].ids = op[a].ids
        /\ op'[a].pc = next /\ op'[a].good = op[a].good
    <3> HIDE DEF next
    <3> QED  BY <1>4, GoesMoves DEF At
  <2>2. docs' = [i \in Idnos |-> IF i \in op[a].ids THEN docs[i] \cup {"chunks", "study"} ELSE docs[i]]
    BY <1>4 DEF With
  <2>3. Moves(a)  BY <1>1, <1>3, <1>4, <2>1, <2>2 DEF Moves, Typed
  <2>4. OpOK(a)' /\ op'[a].pc \notin Rewriting /\ Active(a)'
    BY <1>1, <2>1 DEF OpOK, Place, Indexing, Rewriting, Live, Active
  <2>5. StepOK(a, n)
    BY <1>1, <1>2, <1>4, <2>1, <2>2, <2>4 DEF StepOK, Entry, Sound, Full
  <2> QED  BY <1>1, <1>2, <2>3, <2>4, <2>5, StepKeeps
<1>5. CASE /\ With(op[a].ids, {"chunks"}) /\ Marked(op[a].ids, "halfWritten")
           /\ Failing(a, next) \/ Done(a, FALSE)
  <2>1. /\ DOMAIN op' = Actors /\ \A b \in Actors : b # a => op'[b] = op[b]
        /\ \/ op'[a] = Quiet
           \/ /\ op'[a].ids = op[a].ids /\ op'[a].kind = op[a].kind
              /\ a \in Workers => op'[a].cancelled = op[a].cancelled
        /\ OpOK(a)'
        /\ ~Active(a)' \/ (op'[a].pc = next /\ op'[a].good = FALSE /\ op'[a].ids = op[a].ids)
    <3>1. CASE Failing(a, next)
      <4>1. /\ DOMAIN op' = Actors /\ \A b \in Actors : b # a => op'[b] = op[b]
            /\ op'[a].pc = next /\ op'[a].good = FALSE /\ op'[a].cancelled = op[a].cancelled
            /\ op'[a].kind = op[a].kind /\ op'[a].ids = op[a].ids
        <5> HIDE DEF next
        <5> QED  BY <3>1, GoesMoves DEF Failing
      <4> QED  BY <1>1, <4>1 DEF OpOK, Place, Indexing, Rewriting, Live
    <3>2. CASE Done(a, FALSE)
      <4>1. FALSE \in BOOLEAN  OBVIOUS
      <4> QED  BY <1>1, <3>2, <4>1, DoneMoves, ContentAssumption
    <3> QED  BY <1>5, <3>1, <3>2
  <2>2. /\ docs' = [i \in Idnos |-> IF i \in op[a].ids THEN docs[i] \cup {"chunks"} ELSE docs[i]]
        /\ mark' = [i \in Idnos |-> IF i \in op[a].ids THEN mark[i] \cup {"halfWritten"} ELSE mark[i]]
    BY <1>5 DEF With, Marked
  <2>3. Moves(a)  BY <1>1, <1>2, <1>3, <2>1, <2>2 DEF Moves, Typed
  <2>4. StepOK(a, n)
    BY <1>1, <1>2, <2>1, <2>2 DEF StepOK, Entry, Sound, Full
  <2> QED  BY <1>1, <1>2, <2>1, <2>3, <2>4, StepKeeps
<1> QED  BY <1>4, <1>5 DEF Write

LEMMA VariablesKeep ==
  ASSUME IInv, NEW a \in Actors, Variables(a)
  PROVE  IInv'
<1> USE DEF IInv
<1>1. /\ OpOK(a) /\ Active(a) /\ op[a].pc = "variables"
      /\ \A i \in op[a].ids : StudyOK(i) /\ docs[i] \subseteq Full(i)
  BY DEF Typed, OpOK, Variables, Active
<1>2. PICK n \in Idnos : op[a].ids = {n} /\ n \in Micro  BY <1>1 DEF OpOK, Indexing
<1>3. UNCHANGED <<catalog, belief, run, mark>>  BY DEF Variables
<1>4. /\ DOMAIN op' = Actors /\ \A b \in Actors : b # a => op'[b] = op[b]
      /\ op'[a].cancelled = op[a].cancelled /\ op'[a].kind = op[a].kind /\ op'[a].ids = op[a].ids
      /\ op'[a].pc = "indexed" /\ (op'[a].good = op[a].good \/ op'[a].good = FALSE)
  BY GoesMoves DEF Variables, At, Failing
<1>5. /\ DOMAIN docs' = Idnos /\ \A i \in Idnos \ op[a].ids : docs'[i] = docs[i]
      /\ docs'[n] \in {docs[n] \cup {"vars"}, docs[n] \ {"vars"}, docs[n]}
      /\ op'[a].good => docs'[n] = docs[n] \cup {"vars"}
  <2>1. CASE With(op[a].ids, {"vars"})
    BY <1>2, <2>1 DEF With
  <2>2. CASE Failing(a, "indexed") /\ (Without(op[a].ids, "vars") \/ UNCHANGED docs)
    <3>1. Failing(a, "indexed")  BY <2>2
    <3>2. /\ DOMAIN op' = Actors /\ \A b \in Actors : b # a => op'[b] = op[b]
          /\ op'[a].pc = "indexed" /\ op'[a].good = FALSE /\ op'[a].cancelled = op[a].cancelled
          /\ op'[a].kind = op[a].kind /\ op'[a].ids = op[a].ids
      BY <3>1, GoesMoves DEF Failing
    <3> QED  BY <1>2, <2>2, <3>2 DEF Without, Typed
  <2> QED  BY <2>1, <2>2 DEF Variables
<1>6. op'[a].pc = "indexed"  BY GoesMoves DEF Variables, At, Failing
<1>7. Moves(a)  BY <1>1, <1>2, <1>3, <1>4, <1>5 DEF Moves, Typed
<1>8. OpOK(a)' /\ op'[a].pc \notin Rewriting /\ Active(a)'
  BY <1>1, <1>4, <1>6 DEF OpOK, Place, Indexing, Rewriting, Live, Active
<1>9. StepOK(a, n)
  <2>1. "raced" \notin mark[n] => Sound(a, n) /\ Entry(n)  BY <1>1, <1>2 DEF StudyOK
  <2>2. op'[a].good => op[a].good  BY <1>1, <1>4 DEF OpOK
  <2> QED
    BY <1>1, <1>2, <1>3, <1>5, <1>6, <1>8, <2>1, <2>2 DEF StepOK, Entry, Sound, Full
<1> QED  BY <1>1, <1>2, <1>7, <1>8, <1>9, StepKeeps

LEMMA IndexedKeeps ==
  ASSUME IInv, NEW a \in Actors, Indexed(a)
  PROVE  IInv'
<1> USE DEF IInv
<1> DEFINE state == IF op[a].good THEN "indexed" ELSE "failed"
<1>1. /\ OpOK(a) /\ Active(a) /\ Live(a) /\ op[a].pc = "indexed"
      /\ \A i \in op[a].ids : StudyOK(i) /\ docs[i] \subseteq Full(i)
  BY DEF Typed, OpOK, Indexed, Active, Live
<1>2. /\ DOMAIN op' = Actors /\ \A b \in Actors : b # a => op'[b] = op[b]
      /\ op'[a] = Quiet \/ (op'[a].ids = op[a].ids /\ op'[a].kind = op[a].kind /\ a = Runner)
      /\ ~Active(a)' /\ OpOK(a)'
  <2>1. Done(a, op[a].good) /\ op[a].good \in BOOLEAN  BY <1>1 DEF Indexed, OpOK
  <2> QED  BY <1>1, <2>1, DoneMoves
<1>3. UNCHANGED <<catalog, docs, run>> /\ Report(a, state)  BY DEF Indexed
<1>4. /\ DOMAIN belief' = Idnos /\ DOMAIN mark' = Idnos
      /\ \A i \in Idnos \ op[a].ids : belief'[i] = belief[i] /\ mark'[i] = mark[i]
      /\ \A i \in op[a].ids :
           /\ "raced" \in mark[i] <=> "raced" \in mark'[i]
           /\ "halfWritten" \in mark'[i] => "halfWritten" \in mark[i]
           /\ state # "indexed" /\ "halfWritten" \in mark[i] => "halfWritten" \in mark'[i]
           /\ mark'[i] \subseteq {"unfilled"} => belief'[i] = state /\ mark'[i] = {}
  <2>1. op[a].ids \subseteq Idnos  BY <1>1 DEF OpOK
  <2> HIDE DEF state
  <2> QED  BY <1>3, <2>1, ReportTells
<1>5. Moves(a)
  BY <1>2, <1>3, <1>4, ContentAssumption DEF Moves, Typed
<1>6. ASSUME NEW i \in op[a].ids PROVE StepOK(a, i)
  <2>1. "raced" \notin mark[i] => Sound(a, i) /\ Entry(i)  BY <1>1 DEF StudyOK
  <2>2. op[a].good /\ "raced" \notin mark[i] => docs[i] = Full(i)
    BY <1>1, <2>1 DEF Sound, Full
  <2>3. "raced" \notin mark[i] => Entry(i)'
    BY <1>3, <1>4, <2>1, <2>2 DEF Entry, Full
  <2>4. "raced" \notin mark[i] /\ mark'[i] \subseteq {"unfilled"} => Told(i)'
    BY <1>3, <1>4, <2>2 DEF Told, Full
  <2> QED  BY <1>1, <1>2, <1>3, <2>3, <2>4 DEF StepOK, Full
<1> QED  BY <1>1, <1>2, <1>5, <1>6, StepKeeps

\* What is at work on a study alone, and only writes its document again, finds what was
\* told of it to be so.
LEMMA AloneTold ==
  ASSUME IInv, NEW a \in Actors, Active(a), op[a].pc \in Rewriting, NEW i \in Idnos, i \in op[a].ids,
         mark[i] \subseteq {"unfilled"}
  PROVE  Told(i)
<1>1. \A b \in Actors : Active(b) /\ i \in op[b].ids => b = a  BY DEF IInv, Apart
<1> QED  BY <1>1 DEF IInv, StudyOK, Known

LEMMA LookKeeps ==
  ASSUME IInv, NEW a \in Actors, Look(a)
  PROVE  IInv'
<1> USE DEF IInv
<1>1. /\ OpOK(a) /\ Active(a) /\ Live(a) /\ op[a].pc = "look" /\ op[a].pc \in Rewriting
      /\ op[a].ids \subseteq Idnos
      /\ \A i \in op[a].ids : StudyOK(i) /\ docs[i] \subseteq Full(i)
  BY DEF Typed, OpOK, Look, Active, Live, Rewriting
<1>2. UNCHANGED <<catalog, belief, docs, run, mark>>  BY DEF Look
<1>3. /\ DOMAIN op' = Actors /\ \A b \in Actors : b # a => op'[b] = op[b]
      /\ op'[a].good = op[a].good /\ op'[a].cancelled = op[a].cancelled
      /\ op'[a].kind = op[a].kind /\ op'[a].ids = op[a].ids
      /\ \/ op'[a].pc = "rewrite" /\ \A i \in op[a].ids : "study" \in docs[i]
         \/ op'[a].pc = "load"
  <2>1. CASE At(a, "rewrite") /\ \A i \in op[a].ids : "study" \in docs[i]
    BY <2>1, GoesMoves DEF At
  <2>2. CASE At(a, "load")  BY <2>2, GoesMoves DEF At
  <2> QED  BY <2>1, <2>2 DEF Look
<1>4. Moves(a)  BY <1>1, <1>2, <1>3 DEF Moves, Typed
<1>5. OpOK(a)' /\ Active(a)'
  BY <1>1, <1>3 DEF OpOK, Place, Indexing, Rewriting, Live, Active
<1>6. ASSUME NEW i \in op[a].ids PROVE StepOK(a, i)
  <2>1. "raced" \notin mark[i] => Entry(i)  BY <1>1 DEF StudyOK
  <2>2. mark[i] \subseteq {"unfilled"} => Told(i)  BY <1>1, AloneTold
  <2>3. Entry(i)' <=> Entry(i)  BY <1>2 DEF Entry
  <2>4. Told(i)' <=> Told(i)  BY <1>2 DEF Told, Full
  <2>5. Sound(a, i)'  BY <1>2, <1>3 DEF Sound
  <2> QED  BY <1>1, <1>2, <2>1, <2>2, <2>3, <2>4, <2>5 DEF StepOK, Full
<1> QED  BY <1>1, <1>4, <1>5, <1>6, StepKeeps

\* What an end of work on a part makes of belief and marks.
LEMMA SettlesTells ==
  ASSUME IInv, NEW a \in Actors, Active(a), Settles(a)
  PROVE  /\ DOMAIN op' = Actors /\ \A b \in Actors : b # a => op'[b] = op[b]
         /\ op'[a] = Quiet \/ (op'[a].ids = op[a].ids /\ op'[a].kind = op[a].kind /\ a = Runner)
         /\ ~Active(a)' /\ OpOK(a)'
         /\ DOMAIN belief' = Idnos /\ DOMAIN mark' = Idnos
         /\ \A i \in Idnos \ op[a].ids : belief'[i] = belief[i] /\ mark'[i] = mark[i]
         /\ \A i \in op[a].ids :
              /\ mark[i] \subseteq mark'[i] /\ mark'[i] \subseteq mark[i] \cup {"unsaid"}
              /\ "unsaid" \notin mark'[i] =>
                   mark'[i] = mark[i] /\ belief[i] = "indexed" /\ belief'[i] = "indexed"
<1> USE DEF IInv
<1>1. TRUE \in BOOLEAN /\ Done(a, TRUE) /\ Live(a) /\ op[a].ids \subseteq Idnos
  BY DEF Settles, Active, Live, Typed, OpOK
<1>2. /\ DOMAIN op' = Actors /\ \A b \in Actors : b # a => op'[b] = op[b]
      /\ op'[a] = Quiet \/ (op'[a].ids = op[a].ids /\ op'[a].kind = op[a].kind /\ a = Runner)
      /\ ~Active(a)' /\ OpOK(a)'
  BY <1>1, DoneMoves DEF Typed
<1>3. mark' = [i \in Idnos |-> IF i \in {j \in op[a].ids : belief[j] # "indexed"}
                               THEN mark[i] \cup {"unsaid"} ELSE mark[i]]
  BY DEF Settles, Marked
<1>4. DOMAIN belief' = Idnos /\ \A i \in Idnos :
        belief'[i] = belief[i] \/ (i \in op[a].ids /\ belief'[i] = "indexed")
  BY DEF Settles, Typed
<1> QED  BY <1>1, <1>2, <1>3, <1>4

LEMMA RewriteKeeps ==
  ASSUME IInv, NEW a \in Actors, Rewrite(a)
  PROVE  IInv'
<1> USE DEF IInv
<1>1. /\ OpOK(a) /\ Active(a) /\ Live(a) /\ op[a].pc = "rewrite" /\ op[a].pc \in Rewriting
      /\ op[a].ids \subseteq Idnos
      /\ \A i \in op[a].ids : StudyOK(i) /\ docs[i] \subseteq Full(i)
  BY DEF Typed, OpOK, Rewrite, Active, Live, Rewriting
<1>2. UNCHANGED <<catalog, run>>  BY DEF Rewrite
<1>3. /\ DOMAIN docs' = Idnos /\ \A i \in Idnos \ op[a].ids : docs'[i] = docs[i]
      /\ \A i \in op[a].ids : docs'[i] \in {docs[i], docs[i] \cup {"study"}}
  BY <1>1 DEF Rewrite, With, Typed
<1>4. /\ DOMAIN op' = Actors /\ \A b \in Actors : b # a => op'[b] = op[b]
      /\ \/ op'[a] = Quiet
         \/ /\ op'[a].ids = op[a].ids /\ op'[a].kind = op[a].kind
            /\ a \in Workers => op'[a].cancelled = op[a].cancelled
      /\ OpOK(a)'
      /\ ~Active(a)' \/ op'[a].pc = "resync"
      /\ DOMAIN belief' = Idnos /\ DOMAIN mark' = Idnos
      /\ \A i \in Idnos \ op[a].ids : belief'[i] = belief[i] /\ mark'[i] = mark[i]
      /\ \A i \in op[a].ids :
           /\ mark[i] \subseteq mark'[i] /\ mark'[i] \subseteq mark[i] \cup {"unsaid"}
           /\ "unsaid" \notin mark'[i] => mark'[i] = mark[i] /\ belief'[i] = belief[i]
  <2>1. CASE Settles(a)
    BY <1>1, <2>1, SettlesTells, ContentAssumption
  <2>2. CASE /\ \A i \in op[a].ids : "vars" \in docs[i]
             /\ At(a, "resync") /\ UNCHANGED <<belief, mark>>
    <3>1. /\ DOMAIN op' = Actors /\ \A b \in Actors : b # a => op'[b] = op[b]
          /\ op'[a].pc = "resync" /\ op'[a].good = op[a].good /\ op'[a].cancelled = op[a].cancelled
          /\ op'[a].kind = op[a].kind /\ op'[a].ids = op[a].ids
      BY <2>2, GoesMoves DEF At
    <3>2. op[a].ids \subseteq Micro  BY <1>1, <2>2 DEF Full
    <3>3. OpOK(a)'
      BY <1>1, <3>1, <3>2 DEF OpOK, Place, Deleting, Indexing, Rewriting, Live
    <3> QED  BY <1>1, <2>2, <3>1, <3>3 DEF Typed
  <2>3. CASE Done(a, FALSE) /\ UNCHANGED <<belief, mark>>
    <3>1. FALSE \in BOOLEAN  OBVIOUS
    <3> QED  BY <1>1, <2>3, <3>1, DoneMoves, ContentAssumption DEF Typed
  <2> QED  BY <2>1, <2>2, <2>3 DEF Rewrite
<1>5. Moves(a)  BY <1>1, <1>2, <1>3, <1>4 DEF Moves
<1>6. ASSUME NEW i \in op[a].ids PROVE StepOK(a, i)
  <2>0. "raced" \notin mark[i] => Sound(a, i) /\ Entry(i)  BY <1>1 DEF StudyOK
  <2>1. "raced" \notin mark[i] => docs'[i] = docs[i] /\ Entry(i)
    <3>1. "raced" \notin mark[i] => "study" \in docs[i]  BY <1>1, <2>0 DEF Sound
    <3> QED  BY <1>3, <2>0, <3>1
  <2>2. docs'[i] \subseteq Full(i)  BY <1>1, <1>3 DEF Full
  <2>3. mark[i] \subseteq {"unfilled"} => Told(i)  BY <1>1, AloneTold
  <2>4. "raced" \notin mark[i] => Entry(i)'  BY <1>4, <2>1 DEF Entry
  <2>5. "raced" \notin mark[i] /\ mark'[i] \subseteq {"unfilled"} => Told(i)'
    BY <1>4, <2>1, <2>3 DEF Told, Full
  <2>6. Active(a)' => Sound(a, i)'  BY <1>4 DEF Sound
  <2> QED  BY <2>2, <2>4, <2>5, <2>6 DEF StepOK, Full
<1> QED  BY <1>1, <1>4, <1>5, <1>6, StepKeeps

LEMMA ResyncKeeps ==
  ASSUME IInv, NEW a \in Actors, Resync(a)
  PROVE  IInv'
<1> USE DEF IInv
<1>1. /\ OpOK(a) /\ Active(a) /\ Live(a) /\ op[a].pc = "resync" /\ op[a].pc \in Rewriting
      /\ op[a].ids \subseteq Idnos
      /\ \A i \in op[a].ids : StudyOK(i) /\ docs[i] \subseteq Full(i)
  BY DEF Typed, OpOK, Resync, Active, Live, Rewriting
<1>2. UNCHANGED <<catalog, belief, run, mark>>  BY DEF Resync
<1>3. ASSUME NEW i \in op[a].ids
      PROVE  /\ mark[i] \subseteq {"unfilled"} => Told(i)
             /\ "raced" \notin mark[i] => Entry(i)
  <2>1. mark[i] \subseteq {"unfilled"} => Told(i)  BY <1>1, AloneTold
  <2> QED  BY <1>1, <2>1 DEF StudyOK
<1>4. CASE Without(op[a].ids, "vars") /\ At(a, "refill")
  <2>1. /\ DOMAIN op' = Actors /\ \A b \in Actors : b # a => op'[b] = op[b]
        /\ op'[a].pc = "refill" /\ op'[a].good = op[a].good /\ op'[a].cancelled = op[a].cancelled
        /\ op'[a].kind = op[a].kind /\ op'[a].ids = op[a].ids
    BY <1>4, GoesMoves DEF At
  <2>2. docs' = [i \in Idnos |-> IF i \in op[a].ids THEN docs[i] \ {"vars"} ELSE docs[i]]
    BY <1>4 DEF Without
  <2>3. Moves(a)  BY <1>1, <1>2, <2>1, <2>2 DEF Moves, Typed
  <2>4. OpOK(a)' /\ op'[a].pc \notin Rewriting /\ Active(a)'
    BY <1>1, <2>1 DEF OpOK, Place, Indexing, Rewriting, Live, Active
  <2>5. ASSUME NEW i \in op[a].ids PROVE StepOK(a, i)
    <3>1. docs'[i] = docs[i] \ {"vars"}  BY <1>1, <2>2
    <3>2. Entry(i) => Entry(i)'  BY <1>2, <3>1 DEF Entry
    <3>3. (mark[i] \subseteq {"unfilled"} => Told(i)) => Sound(a, i)'
      BY <1>2, <2>1, <3>1 DEF Sound, Told, Full
    <3> QED  BY <1>1, <1>3, <2>4, <3>1, <3>2, <3>3 DEF StepOK, Full
  <2> QED  BY <1>1, <2>3, <2>4, <2>5, StepKeeps
<1>5. CASE Done(a, FALSE) /\ UNCHANGED docs
  <2>1. FALSE \in BOOLEAN  OBVIOUS
  <2>2. /\ DOMAIN op' = Actors /\ \A b \in Actors : b # a => op'[b] = op[b]
        /\ op'[a] = Quiet \/ (op'[a].ids = op[a].ids /\ op'[a].kind = op[a].kind /\ a = Runner)
        /\ ~Active(a)' /\ OpOK(a)'
    BY <1>1, <1>5, <2>1, DoneMoves
  <2>3. Moves(a)  BY <1>1, <1>2, <1>5, <2>2, ContentAssumption DEF Moves, Typed
  <2>4. ASSUME NEW i \in op[a].ids PROVE StepOK(a, i)
    <3>1. (Entry(i)' <=> Entry(i)) /\ (Told(i)' <=> Told(i))
      BY <1>2, <1>5 DEF Entry, Told, Full
    <3> QED  BY <1>1, <1>2, <1>3, <1>5, <2>2, <3>1 DEF StepOK, Full
  <2> QED  BY <1>1, <2>2, <2>3, <2>4, StepKeeps
<1> QED  BY <1>4, <1>5 DEF Resync

LEMMA RefillKeeps ==
  ASSUME IInv, NEW a \in Actors, Refill(a)
  PROVE  IInv'
<1> USE DEF IInv
<1>1. /\ OpOK(a) /\ Active(a) /\ Live(a) /\ op[a].pc = "refill"
      /\ op[a].ids \subseteq Idnos /\ op[a].ids \subseteq Micro
      /\ \A i \in op[a].ids : StudyOK(i) /\ docs[i] \subseteq Full(i)
  BY DEF Typed, OpOK, Refill, Active, Live
<1>2. UNCHANGED <<catalog, run>>  BY DEF Refill
<1>3. \A i \in op[a].ids : "raced" \notin mark[i] => Sound(a, i) /\ Entry(i)
  BY <1>1 DEF StudyOK
<1>4. CASE With(op[a].ids, {"vars"}) /\ Settles(a)
  <2>1. docs' = [i \in Idnos |-> IF i \in op[a].ids THEN docs[i] \cup {"vars"} ELSE docs[i]]
    BY <1>4 DEF With
  <2>2. /\ DOMAIN op' = Actors /\ \A b \in Actors : b # a => op'[b] = op[b]
        /\ op'[a] = Quiet \/ (op'[a].ids = op[a].ids /\ op'[a].kind = op[a].kind /\ a = Runner)
        /\ ~Active(a)' /\ OpOK(a)'
        /\ DOMAIN belief' = Idnos /\ DOMAIN mark' = Idnos
        /\ \A i \in Idnos \ op[a].ids : belief'[i] = belief[i] /\ mark'[i] = mark[i]
        /\ \A i \in op[a].ids :
             /\ mark[i] \subseteq mark'[i] /\ mark'[i] \subseteq mark[i] \cup {"unsaid"}
             /\ "unsaid" \notin mark'[i] =>
                  mark'[i] = mark[i] /\ belief[i] = "indexed" /\ belief'[i] = "indexed"
    BY <1>1, <1>4, SettlesTells
  <2>3. Moves(a)  BY <1>1, <1>2, <2>1, <2>2, ContentAssumption DEF Moves, Typed
  <2>4. ASSUME NEW i \in op[a].ids PROVE StepOK(a, i)
    <3>1. docs'[i] = docs[i] \cup {"vars"} /\ i \in Micro  BY <1>1, <2>1
    <3>2. docs'[i] \subseteq Full(i)  BY <1>1, <3>1 DEF Full
    <3>3. "raced" \notin mark[i] => Entry(i)'  BY <1>3, <2>2, <3>1 DEF Entry
    <3>4. "raced" \notin mark[i] /\ mark'[i] \subseteq {"unfilled"} => Full(i) \subseteq docs'[i]
      BY <1>1, <1>3, <2>2, <3>1 DEF Sound, Full
    <3>5. "raced" \notin mark[i] /\ mark'[i] \subseteq {"unfilled"} => Told(i)'
      BY <2>2, <3>4 DEF Told, Full
    <3> QED  BY <2>2, <3>2, <3>3, <3>5 DEF StepOK, Full
  <2> QED  BY <1>1, <2>2, <2>3, <2>4, StepKeeps
<1>5. CASE Marked(op[a].ids, "unfilled") /\ Done(a, FALSE) /\ UNCHANGED <<belief, docs>>
  <2>1. FALSE \in BOOLEAN  OBVIOUS
  <2>2. /\ DOMAIN op' = Actors /\ \A b \in Actors : b # a => op'[b] = op[b]
        /\ op'[a] = Quiet \/ (op'[a].ids = op[a].ids /\ op'[a].kind = op[a].kind /\ a = Runner)
        /\ ~Active(a)' /\ OpOK(a)'
    BY <1>1, <1>5, <2>1, DoneMoves
  <2>3. mark' = [i \in Idnos |-> IF i \in op[a].ids THEN mark[i] \cup {"unfilled"} ELSE mark[i]]
    BY <1>5 DEF Marked
  <2>4. Moves(a)  BY <1>1, <1>2, <1>5, <2>2, <2>3, ContentAssumption DEF Moves, Typed
  <2>5. ASSUME NEW i \in op[a].ids PROVE StepOK(a, i)
    <3>1. mark'[i] = mark[i] \cup {"unfilled"}  BY <1>1, <2>3
    <3>2. "raced" \notin mark[i] => Entry(i)'  BY <1>3, <1>5, <3>1 DEF Entry
    <3>3. "raced" \notin mark[i] /\ mark'[i] \subseteq {"unfilled"} => Told(i)'
      BY <1>1, <1>3, <1>5, <3>1 DEF Sound, Told, Full
    <3> QED  BY <1>1, <1>5, <2>2, <3>2, <3>3 DEF StepOK, Full
  <2> QED  BY <1>1, <2>2, <2>4, <2>5, StepKeeps
<1> QED  BY <1>4, <1>5 DEF Refill

\* A step that works on no study.
LEMMA CalmKeeps ==
  ASSUME IInv, NEW a \in Actors, DOMAIN op' = Actors, \A b \in Actors : b # a => op'[b] = op[b],
         OpOK(a)', KeysHeld', Active(a)' <=> Active(a),
         Active(a) => op'[a].ids = op[a].ids /\ op'[a].pc = op[a].pc /\ op'[a].good = op[a].good,
         UNCHANGED <<docs, belief, mark>>, catalog' \subseteq Idnos, run' \in Runs
  PROVE  IInv'
<1> USE DEF IInv
<1>1. Typed'
  <2>1. \A b \in Actors : OpOK(b)'
    <3> SUFFICES ASSUME NEW b \in Actors, b # a PROVE OpOK(b)'  OBVIOUS
    <3>1. OpOK(b) /\ op'[b] = op[b]  BY DEF Typed
    <3> QED  BY <3>1 DEF OpOK, Live
  <2> QED  BY <2>1 DEF Typed, Full
<1>2. \A b \in Actors : Active(b)' =>
        Active(b) /\ op'[b].ids = op[b].ids /\ op'[b].pc = op[b].pc /\ op'[b].good = op[b].good
  BY DEF Active
<1>3. \A b \in Actors : Active(b) => Active(b)' /\ op'[b].ids = op[b].ids /\ op'[b].pc = op[b].pc
  BY DEF Active
<1>4. Apart'  BY <1>2 DEF Apart, Typed, OpOK
<1>5. ASSUME NEW i \in Idnos PROVE StudyOK(i)'
  <2>1. Entry(i)'  BY DEF StudyOK, Entry
  <2>2. Known(i)'  BY <1>3 DEF StudyOK, Known, Told, Full
  <2>3. ASSUME NEW b \in Actors, "raced" \notin mark'[i], Active(b)', i \in op'[b].ids
        PROVE  Sound(b, i)'
    <3>1. Sound(b, i)  BY <1>2, <2>3 DEF StudyOK
    <3> QED  BY <1>2, <2>3, <3>1 DEF Sound
  <2> QED  BY <2>1, <2>2, <2>3 DEF StudyOK
<1> QED  BY <1>1, <1>4, <1>5

\* An operation begins its work: what crosses it is marked.
LEMMA BeginsKeeps ==
  ASSUME IInv, NEW a \in Actors, ~Active(a),
         DOMAIN op' = Actors, \A b \in Actors : b # a => op'[b] = op[b],
         OpOK(a)', KeysHeld', op'[a].pc \in {"delChunks", "load", "look", "resync"},
         Begins(a, op'[a].kind, op'[a].ids),
         \A b \in Actors \ {a} : Active(b) /\ ~op[b].cancelled /\ SameKey(op'[a].kind, op[b].kind)
           => op'[a].ids \cap op[b].ids = {},
         UNCHANGED <<docs, belief, catalog>>, run' \in Runs
  PROVE  IInv'
<1> USE DEF IInv
<1> DEFINE ids == op'[a].ids
           kind == op'[a].kind
<1>0. ids \subseteq Idnos  BY DEF OpOK
<1>1. mark' = [i \in Idnos |-> IF i \in {j \in ids : Crosses(a, kind, j)}
                               THEN mark[i] \cup {"raced"} ELSE mark[i]]
  BY DEF Begins, Marked
<1>2. \A i \in Idnos : mark'[i] = mark[i] \/ ("raced" \in mark'[i] /\ mark'[i] = mark[i] \cup {"raced"})
  BY <1>1
<1>3. ASSUME NEW b \in Actors \ {a}, Active(b), NEW i \in ids, i \in op[b].ids
      PROVE  "raced" \in mark'[i]
  <2>1. Crosses(a, kind, i)  BY <1>3 DEF Crosses
  <2> QED  BY <1>0, <1>1, <1>3, <2>1
<1>4. Typed'
  <2>1. \A b \in Actors : OpOK(b)'
    <3> SUFFICES ASSUME NEW b \in Actors, b # a PROVE OpOK(b)'  OBVIOUS
    <3>1. OpOK(b) /\ op'[b] = op[b]  BY DEF Typed
    <3> QED  BY <3>1 DEF OpOK, Live
  <2> QED  BY <1>1, <2>1 DEF Typed, Full
<1>5. \A b \in Actors : b # a /\ Active(b)' => Active(b) /\ op'[b] = op[b]
  BY DEF Active
<1>6. Apart'
  <2> SUFFICES ASSUME NEW b \in Actors, NEW c \in Actors, b # c, Active(b)', Active(c)',
                      NEW i \in op'[b].ids, i \in op'[c].ids
               PROVE  "raced" \in mark'[i]
    BY DEF Apart
  <2>1. CASE b = a  BY <1>3, <1>5, <2>1
  <2>2. CASE c = a  BY <1>3, <1>5, <2>2
  <2>3. CASE b # a /\ c # a
    <3>1. "raced" \in mark[i] /\ i \in Idnos
      BY <1>5, <2>3 DEF Apart, Typed, OpOK
    <3> QED  BY <1>2, <3>1
  <2> QED  BY <2>1, <2>2, <2>3
<1>7. ASSUME NEW i \in Idnos PROVE StudyOK(i)'
  <2>1. Entry(i)'  BY <1>2 DEF StudyOK, Entry
  <2>2. ASSUME mark'[i] \subseteq {"unfilled"},
               \A b \in Actors : Active(b)' /\ i \in op'[b].ids => op'[b].pc \in Rewriting
        PROVE  Told(i)'
    <3>1. mark'[i] = mark[i] /\ mark[i] \subseteq {"unfilled"}  BY <1>2, <2>2
    <3>2. \A b \in Actors : Active(b) /\ i \in op[b].ids => op[b].pc \in Rewriting
      BY <2>2 DEF Active
    <3>3. Told(i)  BY <3>1, <3>2 DEF StudyOK, Known
    <3> QED  BY <3>1, <3>3 DEF Told, Full
  <2>3. ASSUME NEW b \in Actors, "raced" \notin mark'[i], Active(b)', i \in op'[b].ids
        PROVE  Sound(b, i)'
    <3>1. mark'[i] = mark[i]  BY <1>2, <2>3
    <3>2. CASE b = a
      <4>1. op'[a].pc \notin {"delStudy", "delVars", "deleted", "variables", "indexed", "rewrite",
                           "refill"}
        OBVIOUS
      <4> QED  BY <3>2, <4>1 DEF Sound
    <3>3. CASE b # a
      <4>1. Active(b) /\ op'[b] = op[b]  BY <1>5, <2>3, <3>3
      <4>2. Sound(b, i)  BY <2>3, <3>1, <4>1 DEF StudyOK
      <4> QED  BY <3>1, <4>1, <4>2 DEF Sound
    <3> QED  BY <3>2, <3>3
  <2> QED  BY <2>1, <2>2, <2>3 DEF StudyOK, Known
<1> QED  BY <1>4, <1>6, <1>7

LEMMA SubmitKeeps ==
  ASSUME IInv, NEW a \in Workers, NEW i \in Idnos,
         NEW kind \in Kinds, Submit(a, kind, i)
  PROVE  IInv'
<1> USE DEF IInv
<1> DEFINE o == Begun(kind, {i}, FirstStep(kind))
<1>1. /\ o.kind = kind /\ o.ids = {i} /\ o.pc = FirstStep(kind) /\ o.good = TRUE /\ o.cancelled = FALSE
  BY DEF Begun
<1>2. FirstStep(kind) \in {"wait", "delChunks", "load", "look", "resync"}
  BY DEF FirstStep, Kinds
<1>3. a \in Actors /\ a # Runner  BY ContentAssumption DEF Actors
<1>4. op' = [op EXCEPT ![a] = o]  BY DEF Submit
<1>5. DOMAIN op' = Actors /\ op'[a] = o /\ \A b \in Actors : b # a => op'[b] = op[b]
  <2> HIDE DEF o
  <2> QED  BY <1>3, <1>4 DEF Typed
<1>6. OpOK(a)'
  <2>1. FirstStep(kind) = "wait" => kind = "index"  BY DEF FirstStep, Kinds
  <2>2. FirstStep(kind) = "resync" => kind \in {"sync", "variables"}  BY DEF FirstStep, Kinds
  <2>3. FirstStep(kind) = "resync" => i \in Micro  BY <2>2 DEF Submit, OnlyVariables
  <2> HIDE DEF o
  <2> QED  BY <1>1, <1>2, <1>3, <1>5, <2>1, <2>3 DEF OpOK, Place, Deleting, Indexing, Rewriting, Live
<1>7. ~Live(a) /\ ~Active(a)  BY DEF Submit, Live, Active
<1>8. \A b \in Workers : b # a /\ Live(b) /\ ~op[b].cancelled /\ SameKey(kind, op[b].kind) => i \notin op[b].ids
  BY DEF Submit
<1>9. KeysHeld'
  <2> HIDE DEF o
  <2> QED  BY <1>1, <1>3, <1>5, <1>8 DEF KeysHeld, Live, Actors, SameKey, SharesKey
<1>10. UNCHANGED <<docs, belief, catalog, run>> /\ run' \in Runs /\ catalog' \subseteq Idnos
  BY DEF Submit, Typed
<1>11. CASE FirstStep(kind) = "wait"
  <2>1. mark' = mark  BY <1>11 DEF Submit
  <2>2. ~Active(a)'  BY <1>1, <1>5, <1>11 DEF Active
  <2> HIDE DEF o
  <2> QED  BY <1>3, <1>5, <1>6, <1>7, <1>9, <1>10, <2>1, <2>2, CalmKeeps
<1>12. CASE FirstStep(kind) # "wait"
  <2>1. Begins(a, kind, {i})  BY <1>12 DEF Submit
  <2>2. \A b \in Actors \ {a} : Active(b) /\ ~op[b].cancelled /\ SameKey(kind, op[b].kind)
          => {i} \cap op[b].ids = {}
    <3> SUFFICES ASSUME NEW b \in Actors \ {a}, Active(b), ~op[b].cancelled, SameKey(kind, op[b].kind)
                 PROVE  i \notin op[b].ids
      OBVIOUS
    <3>1. Live(b)  BY DEF Live, Active
    <3>2. b # Runner
      BY <3>1 DEF Typed, OpOK, SameKey, SharesKey
    <3> QED  BY <1>8, <3>1, <3>2 DEF Actors
  <2>3. op'[a].kind = kind /\ op'[a].ids = {i} /\ op'[a].pc \in {"delChunks", "load", "look", "resync"}
    BY <1>1, <1>2, <1>5, <1>12
  <2> HIDE DEF o
  <2> QED  BY <1>3, <1>5, <1>6, <1>7, <1>9, <1>10, <2>1, <2>2, <2>3, BeginsKeeps
<1> QED  BY <1>11, <1>12

LEMMA TakeSlotKeeps ==
  ASSUME IInv, NEW a \in Actors, TakeSlot(a)
  PROVE  IInv'
<1> USE DEF IInv
<1>1. /\ OpOK(a) /\ op[a].pc = "wait" /\ Live(a) /\ ~Active(a) /\ ~op[a].cancelled
      /\ op[a].kind \in {"index", "upsert"}
  BY DEF Typed, OpOK, TakeSlot, Live, Active
<1>2. /\ DOMAIN op' = Actors /\ \A b \in Actors : b # a => op'[b] = op[b]
      /\ op'[a].pc = "load" /\ op'[a].good = op[a].good /\ op'[a].cancelled = op[a].cancelled
      /\ op'[a].kind = op[a].kind /\ op'[a].ids = op[a].ids
  BY GoesMoves DEF TakeSlot, At
<1>3. OpOK(a)'  BY <1>1, <1>2 DEF OpOK, Place, Indexing, Rewriting, Live
<1>4. a \in Workers  BY <1>1 DEF OpOK, Actors
<1>5. KeysHeld'  BY <1>1, <1>2 DEF KeysHeld, Live, Actors
<1>6. ASSUME NEW b \in Actors \ {a}, Active(b), ~op[b].cancelled, SameKey(op[a].kind, op[b].kind)
      PROVE  op[a].ids \cap op[b].ids = {}
  <2>1. Live(b)  BY <1>6 DEF Live, Active
  <2>2. b # Runner  BY <1>6, <2>1 DEF Typed, OpOK, SameKey, SharesKey
  <2> QED  BY <1>1, <1>4, <1>6, <2>1, <2>2 DEF KeysHeld, Actors
<1>7. Begins(a, op[a].kind, op[a].ids) /\ UNCHANGED <<docs, belief, catalog, run>> /\ run' \in Runs
  BY DEF TakeSlot, Typed
<1> QED  BY <1>1, <1>2, <1>3, <1>5, <1>6, <1>7, BeginsKeeps

LEMMA CancelKeeps ==
  ASSUME IInv, NEW a \in Actors, Cancel(a)
  PROVE  IInv'
<1> USE DEF IInv
<1>1. OpOK(a) /\ Live(a) /\ a \in Workers /\ a # Runner
  BY ContentAssumption DEF Typed, Cancel
<1>2. UNCHANGED <<docs, belief, catalog, run, mark>> /\ run' \in Runs /\ catalog' \subseteq Idnos
  BY DEF Cancel, Typed
<1>3. CASE op[a].pc = "wait"
  <2>1. Done(a, FALSE) /\ FALSE \in BOOLEAN  BY <1>3 DEF Cancel
  <2>2. /\ DOMAIN op' = Actors /\ \A b \in Actors : b # a => op'[b] = op[b]
        /\ op'[a] = Quiet /\ ~Active(a)' /\ OpOK(a)'
    BY <1>1, <2>1, DoneMoves
  <2>3. ~Active(a)  BY <1>3 DEF Active
  <2>4. KeysHeld'  BY <2>2, Places DEF KeysHeld, Live, Actors
  <2> QED  BY <1>2, <2>2, <2>3, <2>4, CalmKeeps
<1>4. CASE op[a].pc # "wait"
  <2>1. Goes(a, op[a].pc, op[a].good, TRUE)  BY <1>4 DEF Cancel
  <2>2. /\ DOMAIN op' = Actors /\ \A b \in Actors : b # a => op'[b] = op[b]
        /\ op'[a].pc = op[a].pc /\ op'[a].good = op[a].good /\ op'[a].cancelled = TRUE
        /\ op'[a].kind = op[a].kind /\ op'[a].ids = op[a].ids
    BY <2>1, GoesMoves
  <2>3. OpOK(a)'  BY <1>1, <1>4, <2>2 DEF OpOK, Live
  <2>4. KeysHeld'  BY <2>2 DEF KeysHeld, Live, Actors
  <2>5. Active(a)' <=> Active(a)  BY <2>2 DEF Active
  <2> QED  BY <1>2, <2>2, <2>3, <2>4, <2>5, CalmKeeps
<1> QED  BY <1>3, <1>4

-----------------------------------------------------------------------------
(* The run, the catalog, the process. *)

LEMMA PageOf ==
  ASSUME catalog \subseteq Idnos, NEW phase, NEW offset
  PROVE  Page(phase, offset) \subseteq Idnos
  BY DEF Page, Diff, Missing, StaleIn

\* Of the run and the catalog alone.
LEMMA RunKeeps ==
  ASSUME IInv, UNCHANGED <<op, docs, belief, mark>>, catalog' \subseteq Idnos, run' \in Runs
  PROVE  IInv'
<1>1. Runner \in Actors /\ OpOK(Runner) /\ KeysHeld /\ DOMAIN op' = Actors
  BY DEF IInv, Typed, Actors
<1>2. OpOK(Runner)' /\ KeysHeld' /\ (Active(Runner)' <=> Active(Runner))
  BY <1>1 DEF OpOK, KeysHeld, Live, Active
<1> QED  BY <1>1, <1>2, CalmKeeps

LEMMA RunStepKeeps ==
  ASSUME IInv,
         (\E only \in BOOLEAN : StartRun(only)) \/ CancelRun \/ PageFails \/ RunBegins \/ TakePage \/ NextPage
  PROVE  IInv'
<1> USE DEF IInv
<1>1. UNCHANGED <<catalog, op, docs, belief, mark>> /\ catalog' \subseteq Idnos
  BY DEF StartRun, CancelRun, PageFails, RunBegins, TakePage, NextPage, Typed
<1>2. run \in Runs /\ catalog \subseteq Idnos  BY DEF Typed
<1>3. ASSUME NEW only \in BOOLEAN, StartRun(only) PROVE run' \in Runs
  <2>1. NoRun \in Runs  BY DEF NoRun, Runs, Trials
  <2>2. run' = [NoRun EXCEPT !.pc = "wait", !.only = only]  BY <1>3 DEF StartRun
  <2> QED  BY <2>1, <2>2 DEF Runs
<1>4. CASE CancelRun  BY <1>1, <1>2, <1>4, RunKeeps DEF CancelRun, Runs
<1>5. CASE PageFails  BY <1>1, <1>2, <1>5, RunKeeps DEF PageFails, Runs
<1>6. CASE RunBegins
  <2>1. Page("stale", 0) \in SUBSET Idnos /\ Page("missing", 0) \in SUBSET Idnos
    BY <1>2, PageOf
  <2>2. run' \in Runs  BY <1>2, <1>6, <2>1 DEF RunBegins, Runs
  <2> QED  BY <1>1, <2>2, RunKeeps
<1>7. CASE TakePage
  <2>1. \/ run' = [run EXCEPT !.pc = "over"]
        \/ run' = [run EXCEPT !.pc = "item", !.succeeded = 0]
        \/ run' = [run EXCEPT !.phase = "stale", !.offset = 0, !.page = run.todo, !.todo = {}]
    BY <1>7 DEF TakePage, RunOver
  <2>2. CASE run' = [run EXCEPT !.pc = "over"]
    <3>1. run' \in Runs  BY <1>2, <2>2 DEF Runs
    <3> QED  BY <1>1, <3>1, RunKeeps
  <2>3. CASE run' = [run EXCEPT !.pc = "item", !.succeeded = 0]
    <3> DEFINE zero == 0
    <3>1. zero \in Int /\ run' = [run EXCEPT !.pc = "item", !.succeeded = zero]  BY <2>3
    <3> HIDE DEF zero
    <3>2. run' \in Runs  BY <1>2, <3>1 DEF Runs
    <3> QED  BY <1>1, <3>2, RunKeeps
  <2>4. CASE run' = [run EXCEPT !.phase = "stale", !.offset = 0, !.page = run.todo, !.todo = {}]
    <3> DEFINE todo == run.todo
               zero == 0
               none == {}
    <3>1. todo \in SUBSET Idnos /\ none \in SUBSET Idnos /\ zero \in Int  BY <1>2 DEF Runs
    <3>2. run' = [run EXCEPT !.phase = "stale", !.offset = zero, !.page = todo, !.todo = none]
      BY <2>4
    <3> HIDE DEF todo, zero, none
    <3>3. run' \in Runs  BY <1>2, <3>1, <3>2 DEF Runs
    <3> QED  BY <1>1, <3>3, RunKeeps
  <2> QED  BY <2>1, <2>2, <2>3, <2>4
<1>8. CASE NextPage
  <2> DEFINE offset == run.offset + Cardinality(run.page) - run.succeeded
             page == Page(run.phase, offset)
  <2>1. page \in SUBSET Idnos  BY <1>2, PageOf
  <2>2. offset \in Int
    <3>1. IsFiniteSet(run.page)  BY <1>2, ContentAssumption, FS_Subset DEF Runs
    <3>2. Cardinality(run.page) \in Nat  BY <3>1, FS_CardinalityType
    <3> QED  BY <1>2, <3>2 DEF Runs
  <2>3. run' = [run EXCEPT !.pc = "page", !.offset = offset, !.page = page]  BY <1>8 DEF NextPage
  <2> HIDE DEF offset, page
  <2>4. run' \in Runs  BY <1>2, <2>1, <2>2, <2>3 DEF Runs
  <2> QED  BY <1>1, <2>4, RunKeeps
<1> QED  BY <1>1, <1>3, <1>4, <1>5, <1>6, <1>7, <1>8, RunKeeps

LEMMA TakeItemKeeps ==
  ASSUME IInv, TakeItem
  PROVE  IInv'
<1> USE DEF IInv
<1>1. run \in Runs /\ Runner \in Actors /\ op[Runner].pc = "idle" /\ ~Active(Runner)
  BY DEF Typed, Actors, TakeItem, Active
<1>2. UNCHANGED <<docs, belief, catalog>> /\ catalog' \subseteq Idnos  BY DEF TakeItem, Typed
<1>3. CASE RunOver /\ UNCHANGED <<op, mark>>
  BY <1>1, <1>2, <1>3, RunKeeps DEF RunOver, Runs
<1>4. ASSUME NEW ids \in Turns,
             run' = [run EXCEPT !.seen = @ \cup {<<run.phase, i>> : i \in ids}],
             IF run.phase = "missing" /\ ids \subseteq Unmapped THEN UNCHANGED <<op, mark>>
             ELSE /\ op' = [op EXCEPT ![Runner] =
                       Begun(run.phase, ids, IF run.phase = "missing" THEN "load" ELSE "delChunks")]
                  /\ Begins(Runner, run.phase, ids)
      PROVE  IInv'
  <2>1. /\ ids \subseteq Idnos
        /\ run.phase = "missing" => \E i \in Idnos : ids = {i}
        /\ run.phase = "missing" \/ run.phase = "stale"
    <3>1. run.phase \in {"missing", "stale"} /\ New \subseteq Idnos  BY <1>1 DEF New, Runs
    <3>2. CASE run.phase = "missing"
      <4>1. ids \in {{i} : i \in {j \in New : \A k \in New : j <= k}}  BY <1>4, <3>2 DEF Turns
      <4>2. PICK i \in New : ids = {i}  BY <4>1
      <4> QED  BY <3>1, <3>2, <4>2
    <3>3. CASE run.phase # "missing"
      <4>1. ids = New  BY <1>4, <3>3 DEF Turns
      <4> QED  BY <3>1, <3>3, <4>1
    <3> QED  BY <3>2, <3>3
  <2>2. run' \in Runs
    <3> DEFINE tried == run.seen \cup {<<run.phase, i>> : i \in ids}
    <3>1. tried \in Trials  BY <1>1, <2>1 DEF Runs, Trials
    <3>2. run' = [run EXCEPT !.seen = tried]  BY <1>1, <1>4 DEF Runs
    <3> HIDE DEF tried
    <3> QED  BY <1>1, <3>1, <3>2 DEF Runs
  <2>3. CASE UNCHANGED <<op, mark>>  BY <1>2, <2>2, <2>3, RunKeeps
  <2>4. CASE /\ op' = [op EXCEPT ![Runner] =
                   Begun(run.phase, ids, IF run.phase = "missing" THEN "load" ELSE "delChunks")]
             /\ Begins(Runner, run.phase, ids)
    <3> DEFINE pc == IF run.phase = "missing" THEN "load" ELSE "delChunks"
               o == Begun(run.phase, ids, pc)
    <3>1. /\ o.kind = run.phase /\ o.ids = ids /\ o.pc = pc /\ o.good = TRUE /\ o.cancelled = FALSE
      BY DEF Begun
    <3>2. op' = [op EXCEPT ![Runner] = o]  BY <2>4
    <3>3. pc \in {"load", "delChunks"} /\ (pc = "load" => \E i \in Idnos : ids = {i})
      BY <2>1
    <3> HIDE DEF o, pc
    <3>4. DOMAIN op' = Actors /\ op'[Runner] = o /\ \A b \in Actors : b # Runner => op'[b] = op[b]
      BY <1>1, <3>2 DEF Typed
    <3>5. OpOK(Runner)'
      BY <2>1, <3>1, <3>3, <3>4 DEF OpOK, Place, Deleting, Indexing, Rewriting, Live
    <3>6. KeysHeld'  BY <1>1, <3>4, ContentAssumption DEF KeysHeld, Live, Actors
    <3>7. \A b \in Actors : ~SameKey(run.phase, op[b].kind)  BY <2>1 DEF SameKey, SharesKey
    <3>8. /\ op'[Runner].pc \in {"delChunks", "load", "look", "resync"}
          /\ op'[Runner].kind = run.phase /\ op'[Runner].ids = ids
      BY <3>1, <3>3, <3>4
    <3> QED  BY <1>1, <1>2, <2>2, <2>4, <3>4, <3>5, <3>6, <3>7, <3>8, BeginsKeeps
  <2> QED  BY <1>4, <2>3, <2>4
<1> QED  BY <1>3, <1>4 DEF TakeItem

LEMMA ItemOverKeeps ==
  ASSUME IInv, ItemOver
  PROVE  IInv'
<1> USE DEF IInv
<1>1. /\ run \in Runs /\ Runner \in Actors /\ op[Runner].pc = "over" /\ ~Active(Runner)
      /\ OpOK(Runner) /\ catalog' \subseteq Idnos
  BY DEF Typed, Actors, ItemOver, Active
<1>2. UNCHANGED <<docs, belief, catalog, mark>> /\ op' = [op EXCEPT ![Runner] = Quiet]  BY DEF ItemOver
<1>3. DOMAIN op' = Actors /\ op'[Runner] = Quiet /\ \A b \in Actors : b # Runner => op'[b] = op[b]
  BY <1>1, <1>2 DEF Typed
<1>4. OpOK(Runner)'  BY <1>3 DEF OpOK, Quiet, Place, Indexing, Rewriting, Live
<1>5. KeysHeld'  BY <1>3, ContentAssumption DEF KeysHeld, Live, Actors
<1>6. ~Active(Runner)'  BY <1>3, Places DEF Active
<1>7. run' \in Runs
  <2> DEFINE more == run.succeeded + IF op[Runner].good THEN Cardinality(op[Runner].ids) ELSE 0
  <2>1. IsFiniteSet(op[Runner].ids)  BY <1>1, ContentAssumption, FS_Subset DEF OpOK
  <2>2. Cardinality(op[Runner].ids) \in Nat  BY <2>1, FS_CardinalityType
  <2>3. more \in Int  BY <1>1, <2>2 DEF Runs
  <2>4. run' = [run EXCEPT !.succeeded = more]  BY <1>1 DEF ItemOver, Runs
  <2> HIDE DEF more
  <2> QED  BY <1>1, <2>3, <2>4 DEF Runs
<1> QED  BY <1>1, <1>2, <1>3, <1>4, <1>5, <1>6, <1>7, CalmKeeps

LEMMA CrashKeeps ==
  ASSUME IInv, Crash
  PROVE  IInv'
<1> USE DEF IInv
<1> DEFINE cut == UNION {op[a].ids : a \in {b \in Actors : op[b].pc \notin {"idle", "wait", "over"}}}
<1>1. /\ \A a \in Actors : op'[a] = Quiet /\ ~Live(a)' /\ ~Active(a)'
      /\ DOMAIN op' = Actors
  BY Places DEF Crash, Live, Active
<1>2. mark' = [i \in Idnos |-> IF i \in cut THEN mark[i] \cup {"halfWritten"} ELSE mark[i]]
  BY DEF Crash, Marked
<1>3. \A i \in Idnos : (\E a \in Actors : Active(a) /\ i \in op[a].ids) => i \in cut
  BY DEF Active
<1>4. UNCHANGED <<catalog, belief, docs>> /\ run' = NoRun  BY DEF Crash
<1> HIDE DEF cut
<1>5. Typed'
  <2>1. ASSUME NEW a \in Actors PROVE OpOK(a)'
    <3>1. op'[a] = Quiet  BY <1>1
    <3> QED  BY <3>1 DEF OpOK, Quiet, Place, Indexing, Rewriting, Live
  <2>2. run' \in Runs  BY <1>4 DEF NoRun, Runs, Trials
  <2> QED  BY <1>1, <1>2, <1>4, <2>1, <2>2 DEF Typed, Full
<1>6. KeysHeld' /\ Apart'  BY <1>1 DEF KeysHeld, Apart, Actors
<1>7. ASSUME NEW i \in Idnos PROVE StudyOK(i)'
  <2>1. CASE i \in cut
    <3>1. "halfWritten" \in mark'[i]  BY <1>2, <2>1
    <3> QED  BY <1>1, <3>1 DEF StudyOK, Entry, Known
  <2>2. CASE i \notin cut
    <3>1. mark'[i] = mark[i]  BY <1>2, <2>2
    <3>2. Entry(i)'  BY <1>4, <3>1 DEF StudyOK, Entry
    <3>3. mark[i] \subseteq {"unfilled"} => Told(i)  BY <1>3, <2>2 DEF StudyOK, Known
    <3>4. Known(i)'  BY <1>4, <3>1, <3>3 DEF Known, Told, Full
    <3> QED  BY <1>1, <3>2, <3>4 DEF StudyOK
  <2> QED  BY <2>1, <2>2
<1> QED  BY <1>5, <1>6, <1>7

LEMMA InitHolds == Init => IInv
<1> SUFFICES ASSUME Init PROVE IInv  OBVIOUS
<1>1. \A a \in Actors : op[a] = Quiet /\ ~Live(a) /\ ~Active(a)
  BY Places DEF Init, Live, Active
<1>2. Typed
  <2>1. ASSUME NEW a \in Actors PROVE OpOK(a)
    <3>1. op[a] = Quiet  BY <1>1
    <3> QED  BY <3>1 DEF OpOK, Quiet, Place, Indexing, Rewriting, Live
  <2>2. run \in Runs  BY DEF Init, NoRun, Runs, Trials
  <2> QED  BY <2>1, <2>2 DEF Init, Typed, Full
<1>3. KeysHeld /\ Apart  BY <1>1 DEF KeysHeld, Apart, Actors
<1>4. ASSUME NEW i \in Idnos PROVE StudyOK(i)
  <2>1. Told(i) /\ Entry(i)  BY DEF Init, Told, Entry, Full
  <2> QED  BY <1>1, <2>1 DEF StudyOK, Known
<1> QED  BY <1>2, <1>3, <1>4 DEF IInv

LEMMA NextKeeps == IInv /\ [Next]_vars => IInv'
<1> SUFFICES ASSUME IInv, [Next]_vars PROVE IInv'  OBVIOUS
<1>1. ASSUME NEW a \in Workers, NEW i \in Idnos,
             NEW kind \in Kinds, Submit(a, kind, i)
      PROVE  IInv'
  BY <1>1, SubmitKeeps
<1>2. ASSUME NEW a \in Actors, Cancel(a) PROVE IInv'  BY <1>2, CancelKeeps
<1>3. ASSUME NEW a \in Actors, Step(a) PROVE IInv'
  BY <1>3, DeleteKeeps, DeletedKeeps, TakeSlotKeeps, LoadKeeps, WriteKeeps, VariablesKeep,
     IndexedKeeps, LookKeeps, RewriteKeeps, ResyncKeeps, RefillKeeps DEF Step
<1>4. CASE (\E only \in BOOLEAN : StartRun(only)) \/ CancelRun \/ PageFails \/ RunStep
  BY <1>4, RunStepKeeps, TakeItemKeeps, ItemOverKeeps DEF RunStep
<1>5. ASSUME NEW i \in Idnos, Change(i) PROVE IInv'
  <2>1. UNCHANGED <<op, docs, belief, mark, run>> /\ catalog' \subseteq Idnos /\ run' \in Runs
    BY <1>5 DEF Change, IInv, Typed
  <2> QED  BY <2>1, RunKeeps
<1>6. CASE Crash  BY <1>6, CrashKeeps
<1>7. CASE UNCHANGED vars
  <2>1. UNCHANGED <<op, docs, belief, mark, run>> /\ catalog' \subseteq Idnos /\ run' \in Runs
    BY <1>7 DEF vars, IInv, Typed
  <2> QED  BY <2>1, RunKeeps
<1> QED  BY <1>1, <1>2, <1>3, <1>4, <1>5, <1>6, <1>7 DEF Next

LEMMA AlwaysIInv == Spec => []IInv
  BY InitHolds, NextKeeps, PTL DEF Spec

-----------------------------------------------------------------------------
\* A deletion that has come to its report leaves nothing of the study (the three requests
\* of _delete_opensearch_by): also where earlier ones stopped half-way, or where the
\* record's idno is not NADA's and the chunks are found by their sid alone, however the
\* operations on other studies interleave with it.
THEOREM DeletionLeavesNothing == Spec => []DeleteLeavesNothing
<1>1. IInv => DeleteLeavesNothing
  <2> SUFFICES ASSUME IInv, NEW a \in Actors, op[a].pc = "deleted", NEW i \in op[a].ids,
                      mark[i] \cap {"raced", "halfWritten"} = {}
               PROVE  docs[i] = {}
    BY DEF DeleteLeavesNothing
  <2>1. Active(a) /\ i \in Idnos /\ docs[i] \subseteq Full(i)  BY DEF Active, IInv, Typed, OpOK
  <2>2. Sound(a, i)  BY <2>1 DEF IInv, StudyOK
  <2> QED  BY <2>1, <2>2 DEF Sound, Full
<1> QED  BY <1>1, AlwaysIInv, PTL

\* Once nothing is at work on a study, what NADA was told of it (_state_report_items, the
\* report of a deletion) is so: its whole entry is in the index, or nothing of it, for any
\* sequence of jobs, requests, items and runs, unless two of them crossed that no key
\* keeps apart, one was cut short, or a report was lost and none has followed. A study's
\* variables that were replaced by themselves and not to the end are reported by nothing,
\* so they alone may be missing then.
THEOREM BeliefIsTrue == Spec => []BeliefHolds
<1>1. IInv => BeliefHolds
  <2> SUFFICES ASSUME IInv, NEW i \in Idnos, ~Busy(i), mark[i] \subseteq {"unfilled"} PROVE Told(i)
    BY DEF BeliefHolds, Told
  <2>1. \A a \in Actors : Active(a) => Live(a)  BY DEF Active, Live
  <2> QED  BY <2>1 DEF IInv, StudyOK, Known, Busy
<1> QED  BY <1>1, AlwaysIInv, PTL

-----------------------------------------------------------------------------
(* What a run passes over: before each page, what precedes its offset in the list was    *)
(* tried (PageOK); in a page, no more of the list up to the end of the page is gone than *)
(* the run counts as done (ItemOK), so that the next offset is not past it.              *)

Rank(list, i) == Cardinality({j \in list : j < i})

\* What of a list comes no later than the last of a page.
Upto(list, page) == {i \in list : \E j \in page : i <= j}

Tried(phase) == {i \in Idnos : <<phase, i>> \in run.seen}

\* The runner works on what is in the page, and on one item at a time.
RunnerOK ==
  Live(Runner) =>
    /\ run.pc = "item" /\ op[Runner].kind = run.phase
    /\ op[Runner].ids \subseteq run.page \cap Tried(run.phase)
    /\ op[Runner].pc \in (IF run.phase = "missing" THEN Indexing ELSE Deleting) \cup {"over"}

UnderWay == run.pc \in {"page", "item", "over"}

AloneOK == alone /\ UnderWay => \A a \in Workers : ~Live(a)

\* remove_only: the missing ones are passed over.
Leaves == run.only /\ run.phase = "missing"

\* Before a page: it is what follows the offset, and what precedes it was tried.
PageOK ==
  run.pc = "page" =>
    IF Leaves THEN run.page = {}
    ELSE /\ run.page = Page(run.phase, run.offset)
         /\ \A i \in Diff(run.phase) : Rank(Diff(run.phase), i) < run.offset => i \in Tried(run.phase)

\* In a page: what the list still has up to its end is of the page or was tried, and is as
\* much as the next offset counts on.
ItemOK ==
  run.pc = "item" =>
    LET block == Upto(Diff(run.phase), run.page)
        left == IF op[Runner].pc = "over" /\ op[Runner].good THEN Cardinality(op[Runner].ids) ELSE 0
        working == IF Live(Runner) THEN Cardinality(op[Runner].ids) ELSE 0
    IN  /\ ~Leaves
        /\ block \subseteq run.page \cup Tried(run.phase)
        /\ run.offset + Cardinality(run.page) <= Cardinality(block) + run.succeeded + left
        /\ run.succeeded + working <= Cardinality(run.page \cap Tried(run.phase))

OverOK == run.pc = "over" => run.phase = "stale" /\ StaleIn \subseteq Tried("stale")

PhasesOK ==
  /\ run.offset \in Nat
  /\ run.phase = "missing" => run.page \subseteq catalog /\ run.todo = Page("stale", 0)
  /\ run.phase = "stale" => run.page \cap catalog = {} /\ (run.only \/ Missing \subseteq Tried("missing"))

Paging == alone /\ ~run.cut /\ UnderWay => PhasesOK /\ PageOK /\ ItemOK /\ OverOK

FreshOK == run.pc \in {"idle", "wait"} => run.phase = "missing" /\ run.offset = 0

RInv == RunnerOK /\ AloneOK /\ FreshOK /\ Paging

-----------------------------------------------------------------------------
LEMMA HasLeast ==
  ASSUME NEW S \in SUBSET Nat, S # {}
  PROVE  \E m \in S : \A n \in S : m <= n
<1> DEFINE less == OpToRel(<, Nat)
<1>1. IsWellFoundedOn(less, Nat)  BY NatLessThanWellFounded
<1>2. \A x, y \in Nat : x < y => <<x, y>> \in less  BY DEF OpToRel
<1> HIDE DEF less
<1>3. PICK m \in S : \A n \in S : ~(<<n, m>> \in less)  BY <1>1, WFMin
<1>4. ASSUME NEW n \in S PROVE m <= n
  <2>1. m \in Nat /\ n \in Nat  OBVIOUS
  <2>2. ~(n < m)  BY <1>2, <1>3, <2>1
  <2> QED  BY <2>1, <2>2
<1> QED  BY <1>4

LEMMA HasMost ==
  ASSUME NEW S \in SUBSET Nat, S # {}, NEW b \in Nat, \A n \in S : n < b
  PROVE  \E m \in S : \A n \in S : n <= m
<1> DEFINE over == {u \in Nat : \A n \in S : n < u}
<1>1. over \in SUBSET Nat /\ over # {}  OBVIOUS
<1>2. PICK u \in over : \A v \in over : u <= v  BY <1>1, HasLeast
<1>3. u # 0
  <2>1. PICK n \in S : TRUE  OBVIOUS
  <2>2. n < u /\ n \in Nat  BY <2>1
  <2> QED  BY <2>2
<1>4. u - 1 \in Nat /\ u - 1 \notin over  BY <1>2, <1>3
<1>5. PICK m \in S : ~(m < u - 1)  BY <1>4
<1>6. m = u - 1  BY <1>2, <1>5
<1> QED  BY <1>2, <1>6

LEMMA RankType ==
  ASSUME NEW D \in SUBSET Nat, IsFiniteSet(D), NEW i
  PROVE  Rank(D, i) \in Nat /\ IsFiniteSet({j \in D : j < i})
<1>1. {j \in D : j < i} \in SUBSET D  OBVIOUS
<1>2. IsFiniteSet({j \in D : j < i})  BY <1>1, FS_Subset
<1> QED  BY <1>2, FS_CardinalityType DEF Rank

LEMMA RankGrows ==
  ASSUME NEW D \in SUBSET Nat, IsFiniteSet(D), NEW i \in Nat, NEW j \in Nat, i <= j
  PROVE  Rank(D, i) <= Rank(D, j)
<1>0. \A k \in D : k \in Nat  OBVIOUS
<1>1. {k \in D : k < i} \in SUBSET {k \in D : k < j}
  <2> SUFFICES ASSUME NEW k \in D, k < i PROVE k < j  OBVIOUS
  <2>1. k \in Nat  BY <1>0
  <2> QED  BY <2>1
<1>2. IsFiniteSet({k \in D : k < j})  BY RankType
<1> QED  BY <1>1, <1>2, FS_Subset DEF Rank

\* Nothing in a page: all of the list precedes it.
LEMMA EmptyPage ==
  ASSUME NEW D \in SUBSET Nat, IsFiniteSet(D), NEW o \in Nat, NEW n \in Nat \ {0},
         \A i \in D : ~(o <= Rank(D, i) /\ Rank(D, i) < o + n)
  PROVE  \A i \in D : Rank(D, i) < o
<1> SUFFICES ASSUME NEW k \in D, ~(Rank(D, k) < o) PROVE FALSE  OBVIOUS
<1> DEFINE late == {i \in D : o <= Rank(D, i)}
<1>0. \A i \in D : Rank(D, i) \in Nat  BY RankType
<1>1. late \in SUBSET Nat /\ k \in late
  <2>1. Rank(D, k) \in Nat  BY <1>0
  <2>2. o <= Rank(D, k)  BY <2>1
  <2> QED  BY <2>2
<1>2. PICK m \in late : \A i \in late : m <= i  BY <1>1, HasLeast
<1>3. m \in D /\ m \in Nat /\ o <= Rank(D, m)  BY <1>2
<1> DEFINE before == {j \in D : j < m}
<1>4. Rank(D, m) = Cardinality(before) /\ IsFiniteSet(before)  BY RankType DEF Rank
<1>5. Rank(D, m) >= o + n /\ Rank(D, m) \in Nat  BY <1>0, <1>3
<1>6. before # {}
  <2>1. Cardinality(before) # 0  BY <1>4, <1>5
  <2> HIDE DEF before
  <2> QED  BY <1>4, <2>1, FS_EmptySet
<1>7. before \in SUBSET Nat /\ \A j \in before : j < m  OBVIOUS
<1> HIDE DEF before
<1>8. PICK p \in before : \A j \in before : j <= p  BY <1>3, <1>6, <1>7, HasMost
<1>9. p \in D /\ p < m /\ p \in Nat  BY <1>8 DEF before
<1>10. Rank(D, p) < o /\ Rank(D, p) \in Nat  BY <1>0, <1>2, <1>3, <1>9
<1>11. before = {j \in D : j < p} \cup {p}
  <2>1. ASSUME NEW j \in D PROVE j \in before <=> (j < p \/ j = p)
    <3>1. j \in Nat  OBVIOUS
    <3>2. j \in before => j <= p  BY <1>8
    <3> QED  BY <1>3, <1>9, <3>1, <3>2 DEF before
  <2>2. \A j \in before : j \in D  BY DEF before
  <2> QED  BY <1>9, <2>1, <2>2
<1>12. Cardinality(before) <= Rank(D, p) + 1
  <2> DEFINE front == {j \in D : j < p}
  <2>1. IsFiniteSet(front) /\ Cardinality(front) = Rank(D, p)  BY RankType DEF Rank
  <2>2. before = front \cup {p}  BY <1>11
  <2> HIDE DEF front
  <2>3. Cardinality(before) = IF p \in front THEN Cardinality(front) ELSE Cardinality(front) + 1
    BY <2>1, <2>2, FS_AddElement
  <2> QED  BY <1>10, <2>1, <2>3
<1> QED  BY <1>4, <1>5, <1>10, <1>12

LEMMA UptoFinite ==
  ASSUME NEW D \in SUBSET Nat, IsFiniteSet(D), NEW g
  PROVE  IsFiniteSet(Upto(D, g)) /\ Cardinality(Upto(D, g)) \in Nat /\ Upto(D, g) \in SUBSET Nat
<1>1. Upto(D, g) \in SUBSET D  BY DEF Upto
<1>2. IsFiniteSet(Upto(D, g))  BY <1>1, FS_Subset
<1> QED  BY <1>1, <1>2, FS_CardinalityType

\* Up to the end of a page that begins at o, the list has o and the page.
LEMMA PageBlock ==
  ASSUME NEW D \in SUBSET Nat, IsFiniteSet(D), NEW o \in Nat, NEW n \in Nat,
         NEW g, g = {i \in D : o <= Rank(D, i) /\ Rank(D, i) < o + n}, g # {}
  PROVE  /\ IsFiniteSet(g)
         /\ o + Cardinality(g) <= Cardinality(Upto(D, g))
         /\ \A i \in Upto(D, g) : i \in g \/ Rank(D, i) < o
<1>0. g \in SUBSET D /\ g \in SUBSET Nat /\ \A i \in D : Rank(D, i) \in Nat  BY RankType
<1>1. IsFiniteSet(g) /\ Cardinality(g) \in Nat  BY <1>0, FS_Subset, FS_CardinalityType
<1>2. PICK m \in g : \A i \in g : m <= i  BY <1>0, HasLeast
<1> DEFINE front == {j \in D : j < m}
<1>3. IsFiniteSet(front) /\ Cardinality(front) = Rank(D, m) /\ o <= Rank(D, m) /\ Rank(D, m) \in Nat
  BY <1>0, RankType DEF Rank
<1>4. front \cap g = {}  BY <1>0, <1>2
<1>5. front \cup g \in SUBSET Upto(D, g)
  <2>1. ASSUME NEW j \in front PROVE j \in Upto(D, g)
    <3>1. j \in D /\ j < m /\ j \in Nat /\ m \in Nat  BY <1>0
    <3>2. j <= m  BY <3>1
    <3> QED  BY <3>1, <3>2 DEF Upto
  <2>2. ASSUME NEW j \in g PROVE j \in Upto(D, g)
    <3>1. j \in D /\ j \in Nat /\ j <= j  BY <1>0
    <3> QED  BY <3>1 DEF Upto
  <2> QED  BY <2>1, <2>2
<1>6. Cardinality(front \cup g) = Cardinality(front) + Cardinality(g)
  <2> HIDE DEF front
  <2>1. Cardinality(front \cup g) = Cardinality(front) + Cardinality(g) - Cardinality(front \cap g)
    BY <1>1, <1>3, FS_Union
  <2>2. Cardinality(front \cap g) = 0  BY <1>4, FS_EmptySet
  <2> QED  BY <1>1, <1>3, <2>1, <2>2
<1>7. Cardinality(front \cup g) <= Cardinality(Upto(D, g))
  <2> HIDE DEF front
  <2> QED  BY <1>5, UptoFinite, FS_Subset
<1>8. ASSUME NEW i \in Upto(D, g), ~(Rank(D, i) < o) PROVE i \in g
  <2>1. PICK j \in g : i <= j  BY DEF Upto
  <2>2. i \in D /\ i \in Nat /\ j \in Nat  BY <1>0 DEF Upto
  <2>3. Rank(D, i) <= Rank(D, j)  BY <2>1, <2>2, RankGrows
  <2> QED  BY <1>0, <1>8, <2>1, <2>2, <2>3
<1>9. Cardinality(Upto(D, g)) \in Nat /\ Cardinality(front \cup g) \in Nat
  <2> HIDE DEF front
  <2> QED  BY <1>1, <1>3, <1>6, UptoFinite
<1>10. o + Cardinality(g) <= Cardinality(Upto(D, g))
  <2> HIDE DEF front
  <2> QED  BY <1>1, <1>3, <1>6, <1>7, <1>9
<1> QED  BY <1>1, <1>8, <1>10

\* What is ranked below the size of that part of the list is in it.
LEMMA RankedIn ==
  ASSUME NEW D \in SUBSET Nat, IsFiniteSet(D), NEW g \in SUBSET Nat, NEW i \in D,
         Rank(D, i) < Cardinality(Upto(D, g))
  PROVE  i \in Upto(D, g)
<1> SUFFICES ASSUME i \notin Upto(D, g) PROVE FALSE  OBVIOUS
<1>1. ASSUME NEW j \in g PROVE j < i
  <2>1. i \in Nat /\ j \in Nat /\ ~(i <= j)  BY DEF Upto
  <2> QED  BY <2>1
<1>2. Upto(D, g) \in SUBSET {j \in D : j < i}
  <2> SUFFICES ASSUME NEW k \in Upto(D, g) PROVE k \in D /\ k < i  OBVIOUS
  <2>1. PICK j \in g : k <= j  BY DEF Upto
  <2>2. k \in D /\ k \in Nat /\ j \in Nat /\ i \in Nat  BY DEF Upto
  <2>3. j < i  BY <1>1
  <2> QED  BY <2>1, <2>2, <2>3
<1>3. IsFiniteSet({j \in D : j < i}) /\ Rank(D, i) \in Nat  BY RankType
<1>4. Cardinality(Upto(D, g)) <= Rank(D, i)  BY <1>2, <1>3, FS_Subset DEF Rank
<1>5. Cardinality(Upto(D, g)) \in Nat  BY UptoFinite
<1> QED  BY <1>3, <1>4, <1>5

\* A list that loses no more than some of its studies loses no more than so many.
LEMMA ListShrinks ==
  ASSUME NEW D \in SUBSET Nat, IsFiniteSet(D), NEW E \in SUBSET Nat, IsFiniteSet(E),
         NEW R, IsFiniteSet(R), NEW g, D \ R \subseteq E
  PROVE  Cardinality(Upto(D, g)) <= Cardinality(Upto(E, g)) + Cardinality(R)
<1> DEFINE b == Upto(D, g)
           c == Upto(E, g)
<1>1. IsFiniteSet(b) /\ IsFiniteSet(c) /\ Cardinality(b) \in Nat /\ Cardinality(c) \in Nat
  BY UptoFinite
<1>2. b \in SUBSET (c \cup R)  BY DEF Upto
<1> HIDE DEF b, c
<1>3. Cardinality(c \cup R) = Cardinality(c) + Cardinality(R) - Cardinality(c \cap R) /\ IsFiniteSet(c \cup R)
  BY <1>1, FS_Union
<1>4. Cardinality(b) <= Cardinality(c \cup R)  BY <1>2, <1>3, FS_Subset
<1>5. Cardinality(R) \in Nat /\ Cardinality(c \cap R) \in Nat
  <2>1. c \cap R \in SUBSET R  OBVIOUS
  <2>2. IsFiniteSet(c \cap R)  BY <2>1, FS_Subset
  <2> QED  BY <2>2, FS_CardinalityType
<1> QED  BY <1>1, <1>3, <1>4, <1>5 DEF b, c

-----------------------------------------------------------------------------
LEMMA ListIs ==
  ASSUME IInv, NEW phase
  PROVE  /\ Diff(phase) \in SUBSET Idnos /\ Diff(phase) \in SUBSET Nat /\ IsFiniteSet(Diff(phase))
         /\ \A offset : Page(phase, offset) \in SUBSET Diff(phase)
<1>1. Diff(phase) \in SUBSET Idnos  BY DEF Diff, Missing, StaleIn, IInv, Typed
<1>2. \A offset : Page(phase, offset) \in SUBSET Diff(phase)  BY DEF Page
<1> QED  BY <1>1, <1>2, ContentAssumption, FS_Subset DEF ContentAssumption

LEMMA PageRanks ==
  ASSUME NEW phase, NEW offset
  PROVE  Page(phase, offset) = {i \in Diff(phase) : offset <= Rank(Diff(phase), i)
                                                    /\ Rank(Diff(phase), i) < offset + PageSize}
  BY DEF Page, Rank

\* What a step of an operation leaves alone.
LEMMA StepMoves ==
  ASSUME IInv, NEW a \in Actors, Step(a)
  PROVE  /\ Live(a) /\ \A b \in Actors : b # a => op'[b] = op[b]
         /\ UNCHANGED <<run, alone, catalog>>
<1>1. Typed  BY DEF IInv
<1>2. ASSUME NEW STATE pc, NEW STATE good, NEW STATE cancelled, Goes(a, pc, good, cancelled)
      PROVE  \A b \in Actors : b # a => op'[b] = op[b]
  BY <1>1, <1>2, GoesMoves
<1>3. ASSUME NEW STATE good, good \in BOOLEAN, Done(a, good)
      PROVE  \A b \in Actors : b # a => op'[b] = op[b]
  BY <1>1, <1>3, DoneMoves
<1>4. ASSUME NEW STATE pc, At(a, pc) \/ Failing(a, pc)
      PROVE  \A b \in Actors : b # a => op'[b] = op[b]
  BY <1>2, <1>4 DEF At, Failing
<1>5. op[a].good \in BOOLEAN  BY <1>1 DEF Typed, OpOK
<1>6. CASE Delete(a)
  BY <1>3, <1>4, <1>6 DEF Delete, DeleteStep, DeleteFails, Live
<1>7. CASE Deleted(a)  BY <1>3, <1>4, <1>7 DEF Deleted, Live
<1>8. CASE TakeSlot(a)  BY <1>4, <1>8 DEF TakeSlot, Live
<1>9. CASE Load(a)  BY <1>4, <1>9 DEF Load, Live
<1>10. CASE Write(a)  BY <1>3, <1>4, <1>10 DEF Write, Live
<1>11. CASE Variables(a)  BY <1>4, <1>11 DEF Variables, Live
<1>12. CASE Indexed(a)  BY <1>3, <1>5, <1>12 DEF Indexed, Live
<1>13. CASE Look(a)  BY <1>3, <1>4, <1>13 DEF Look, Live
<1>14. TRUE \in BOOLEAN /\ FALSE \in BOOLEAN  OBVIOUS
<1>15. CASE Rewrite(a)  BY <1>3, <1>4, <1>14, <1>15 DEF Rewrite, Settles, Live
<1>16. CASE Resync(a)  BY <1>3, <1>4, <1>14, <1>16 DEF Resync, Live
<1>17. CASE Refill(a)  BY <1>3, <1>14, <1>17 DEF Refill, Settles, Live
<1> QED
  BY <1>6, <1>7, <1>8, <1>9, <1>10, <1>11, <1>12, <1>13, <1>15, <1>16, <1>17 DEF Step

LEMMA WorkerKeeps ==
  ASSUME IInv, RInv, NEW a \in Workers, Cancel(a) \/ Step(a)
  PROVE  RInv'
<1>1. a \in Actors /\ a # Runner /\ Runner \in Actors /\ Typed  BY ContentAssumption DEF Actors, IInv
<1>2. /\ Live(a) /\ op'[Runner] = op[Runner]
      /\ UNCHANGED <<run, alone>>
  <2>1. CASE Step(a)  BY <1>1, <2>1, StepMoves
  <2>2. CASE Cancel(a)
    <3>1. CASE Done(a, FALSE)
      <4>1. FALSE \in BOOLEAN  OBVIOUS
      <4> QED  BY <1>1, <2>2, <3>1, <4>1, DoneMoves DEF Cancel
    <3>2. CASE Goes(a, op[a].pc, op[a].good, TRUE)
      BY <1>1, <2>2, <3>2, GoesMoves DEF Cancel
    <3> QED  BY <2>2, <3>1, <3>2 DEF Cancel
  <2> QED  BY <2>1, <2>2
<1>3. ~(alone /\ UnderWay)  BY <1>2 DEF RInv, AloneOK
<1> QED  BY <1>2, <1>3 DEF RInv, RunnerOK, AloneOK, FreshOK, Paging, UnderWay, Live, Tried

\* What a step of the run's operation does to the lists.
LEMMA RunnerStep ==
  ASSUME IInv, RInv, Step(Runner)
  PROVE  /\ run.pc = "item" /\ Live(Runner) /\ Live(Runner)' /\ op[Runner].pc # "over"
         /\ op'[Runner].ids = op[Runner].ids /\ op'[Runner].kind = op[Runner].kind
         /\ op'[Runner].pc \in (IF run.phase = "missing" THEN Indexing ELSE Deleting) \cup {"over"}
         /\ \A i \in Idnos \ op[Runner].ids : belief'[i] = belief[i]
         /\ \/ op'[Runner].pc = "over" /\ op'[Runner].good
            \/ \A i \in op[Runner].ids : belief'[i] = belief[i]
                                         \/ (belief'[i] = "failed" /\ run.phase = "missing")
<1> DEFINE ids == op[Runner].ids
<1>1. Runner \in Actors /\ Typed /\ Live(Runner) /\ OpOK(Runner)
  BY StepMoves DEF Actors, IInv, Typed
<1>2. /\ run.pc = "item" /\ op[Runner].kind = run.phase /\ run.phase \in {"missing", "stale"}
      /\ op[Runner].pc \in (IF run.phase = "missing" THEN Indexing ELSE Deleting) \cup {"over"}
  BY <1>1 DEF RInv, RunnerOK, Typed, Runs
<1>3. op[Runner].pc # "over"
  BY DEF Step, Delete, DeleteStep, DeleteFails, Deleted, TakeSlot, Load, Write, Variables, Indexed,
         Look, Rewrite, Resync, Refill
<1>4. ASSUME NEW STATE pc, NEW STATE good, NEW STATE cancelled, Goes(Runner, pc, good, cancelled)
      PROVE  /\ op'[Runner].ids = op[Runner].ids /\ op'[Runner].kind = op[Runner].kind
             /\ op'[Runner].pc = pc /\ op'[Runner].good = good
  BY <1>1, <1>4, GoesMoves
<1>5. ASSUME NEW STATE good, Done(Runner, good)
      PROVE  /\ op'[Runner].ids = op[Runner].ids /\ op'[Runner].kind = op[Runner].kind
             /\ op'[Runner].pc = "over" /\ op'[Runner].good = good
  BY <1>4, <1>5 DEF Done
<1>6. ASSUME NEW STATE pc, At(Runner, pc) \/ Failing(Runner, pc)
      PROVE  /\ op'[Runner].ids = op[Runner].ids /\ op'[Runner].kind = op[Runner].kind
             /\ op'[Runner].pc = pc
  BY <1>4, <1>6 DEF At, Failing
<1>7. ASSUME run.phase = "missing"
      PROVE  /\ op'[Runner].ids = ids /\ op'[Runner].kind = op[Runner].kind
             /\ op'[Runner].pc \in Indexing \cup {"over"}
             /\ \/ UNCHANGED belief
                \/ /\ \A i \in Idnos \ ids : belief'[i] = belief[i]
                   /\ \/ op'[Runner].pc = "over" /\ op'[Runner].good
                      \/ \A i \in ids : belief'[i] = "failed"
  <2>1. op[Runner].pc \in Indexing  BY <1>2, <1>3, <1>7
  <2>2. CASE Load(Runner)  BY <1>6, <2>2 DEF Load, Indexing
  <2>3. CASE Write(Runner)  BY <1>5, <1>6, <2>3 DEF Write, Indexing
  <2>4. CASE Variables(Runner)  BY <1>6, <2>4 DEF Variables, Indexing
  <2>5. CASE Indexed(Runner)
    <3>1. Done(Runner, op[Runner].good)  BY <2>5 DEF Indexed
    <3>2. /\ op'[Runner].ids = ids /\ op'[Runner].kind = op[Runner].kind
          /\ op'[Runner].pc = "over" /\ op'[Runner].good = op[Runner].good
      BY <1>5, <3>1
    <3>3. \/ UNCHANGED belief
          \/ belief' = [i \in Idnos |-> IF i \in ids THEN IF op[Runner].good THEN "indexed" ELSE "failed"
                                        ELSE belief[i]]
      BY <2>5 DEF Indexed, Report
    <3>4. op[Runner].good \in BOOLEAN /\ ids \subseteq Idnos  BY <1>1 DEF OpOK
    <3> QED  BY <3>2, <3>3, <3>4
  <2> QED
    BY <2>1, <2>2, <2>3, <2>4, <2>5 DEF Step, Delete, DeleteStep, DeleteFails, Deleted, TakeSlot,
       Look, Rewrite, Resync, Refill, Indexing
<1>8. ASSUME run.phase = "stale"
      PROVE  /\ op'[Runner].ids = ids /\ op'[Runner].kind = op[Runner].kind
             /\ op'[Runner].pc \in Deleting \cup {"over"}
             /\ \/ UNCHANGED belief
                \/ /\ \A i \in Idnos \ ids : belief'[i] = belief[i]
                   /\ op'[Runner].pc = "over" /\ op'[Runner].good
  <2>1. op[Runner].pc \in Deleting  BY <1>2, <1>3, <1>8
  <2>2. CASE Delete(Runner)
    <3>1. CASE DeleteFails(Runner)  BY <1>5, <3>1 DEF DeleteFails
    <3>2. CASE ~DeleteFails(Runner)
      <4>1. \E pc \in {"delStudy", "delVars", "deleted"} : At(Runner, pc)
        BY <2>2, <3>2 DEF Delete, DeleteStep
      <4>2. UNCHANGED belief  BY <2>2, <3>2 DEF Delete, DeleteStep
      <4> QED  BY <1>6, <4>1, <4>2 DEF Deleting
    <3> QED  BY <3>1, <3>2
  <2>3. CASE Deleted(Runner)
    <3>1. Done(Runner, TRUE)  BY <1>2, <1>8, <2>3 DEF Deleted
    <3>2. /\ op'[Runner].ids = ids /\ op'[Runner].kind = op[Runner].kind
          /\ op'[Runner].pc = "over" /\ op'[Runner].good = TRUE
      BY <1>5, <3>1
    <3>3. \A i \in Idnos \ ids : belief'[i] = belief[i]  BY <2>3 DEF Deleted, Report
    <3> QED  BY <3>2, <3>3
  <2> QED
    BY <2>1, <2>2, <2>3 DEF Step, TakeSlot, Load, Write, Variables, Indexed, Look, Rewrite,
       Resync, Refill, Deleting
<1>9. Live(Runner)'
  <2>1. "idle" \notin Indexing \cup Deleting \cup {"over"}  BY DEF Indexing, Deleting
  <2> QED  BY <1>2, <1>7, <1>8, <2>1 DEF Live
<1> QED  BY <1>1, <1>2, <1>3, <1>7, <1>8, <1>9 DEF Typed

LEMMA RunnerKeeps ==
  ASSUME IInv, RInv, Step(Runner)
  PROVE  RInv'
<1> DEFINE ids == op[Runner].ids
           phase == run.phase
           list == Diff(phase)
<1>1. Runner \in Actors /\ Typed /\ OpOK(Runner) /\ ids \subseteq Idnos
  BY DEF Actors, IInv, Typed, OpOK
<1>2. /\ \A b \in Actors : b # Runner => op'[b] = op[b]
      /\ UNCHANGED <<run, alone, catalog>>
  BY <1>1, StepMoves
<1>3. /\ run.pc = "item" /\ Live(Runner) /\ Live(Runner)' /\ op[Runner].pc # "over"
      /\ op'[Runner].ids = ids /\ op'[Runner].kind = op[Runner].kind
      /\ op'[Runner].pc \in (IF phase = "missing" THEN Indexing ELSE Deleting) \cup {"over"}
      /\ \A i \in Idnos \ ids : belief'[i] = belief[i]
      /\ \/ op'[Runner].pc = "over" /\ op'[Runner].good
         \/ \A i \in ids : belief'[i] = belief[i] \/ (belief'[i] = "failed" /\ phase = "missing")
  BY RunnerStep
<1>4. ids \subseteq run.page \cap Tried(phase)  BY <1>3 DEF RInv, RunnerOK
<1>5. RunnerOK'  BY <1>2, <1>3 DEF RInv, RunnerOK, Tried
<1>6. AloneOK' /\ FreshOK'
  BY <1>2, <1>3, ContentAssumption DEF RInv, AloneOK, FreshOK, UnderWay, Live, Actors
<1>7. ASSUME alone, ~run.cut PROVE PhasesOK' /\ PageOK' /\ ItemOK' /\ OverOK'
  <2>1. PhasesOK /\ ItemOK  BY <1>3, <1>7 DEF RInv, Paging, UnderWay
  <2>2. phase \in {"missing", "stale"} /\ catalog \subseteq Idnos  BY <1>1 DEF Typed, Runs
  <2>3. phase = "missing" => ids \subseteq catalog /\ StaleIn' = StaleIn
    <3> SUFFICES ASSUME phase = "missing" PROVE ids \subseteq catalog /\ StaleIn' = StaleIn  OBVIOUS
    <3>1. ids \subseteq catalog  BY <1>4, <2>1 DEF PhasesOK
    <3>2. \A i \in Idnos \ catalog : belief'[i] = belief[i]  BY <1>3, <3>1
    <3> QED  BY <1>2, <3>1, <3>2 DEF StaleIn
  <2>4. phase = "stale" => ids \cap catalog = {} /\ Missing' = Missing
    <3> SUFFICES ASSUME phase = "stale" PROVE ids \cap catalog = {} /\ Missing' = Missing  OBVIOUS
    <3>1. ids \cap catalog = {}  BY <1>4, <2>1 DEF PhasesOK
    <3>2. \A i \in catalog : belief'[i] = belief[i]  BY <1>3, <2>2, <3>1
    <3> QED  BY <1>2, <3>1, <3>2 DEF Missing
  <2>5. PhasesOK'
    <3>1. phase = "missing" => Page("stale", 0)' = Page("stale", 0)
      BY <2>3 DEF Page, Diff
    <3>2. Tried("missing")' = Tried("missing")  BY <1>2 DEF Tried
    <3> QED  BY <1>2, <2>1, <2>4, <3>1, <3>2 DEF PhasesOK
  <2>6. list \ ids \subseteq list' /\ list' \subseteq list \cup ids
    BY <1>1, <1>2, <1>3, <2>2 DEF Diff, Missing, StaleIn
  <2>7. (op'[Runner].pc = "over" /\ op'[Runner].good) \/ list \subseteq list'
    <3> SUFFICES ASSUME \A i \in ids : belief'[i] = belief[i]
                                       \/ (belief'[i] = "failed" /\ phase = "missing")
                 PROVE  list \subseteq list'
      BY <1>3
    <3>1. ASSUME NEW i \in list PROVE i \in list'
      <4>1. i \in Idnos  BY ListIs
      <4>2. belief'[i] = belief[i] \/ (belief'[i] = "failed" /\ phase = "missing")  BY <1>3, <4>1
      <4> QED  BY <1>2, <2>2, <4>2 DEF Diff, Missing, StaleIn
    <3> QED  BY <3>1
  <2>8. ItemOK'
    <3> DEFINE page == run.page
               block == Upto(list, page)
               newBlock == Upto(list', page)
               left == IF op'[Runner].pc = "over" /\ op'[Runner].good THEN Cardinality(ids) ELSE 0
    <3>1. IsFiniteSet(ids) /\ Cardinality(ids) \in Nat
      BY <1>1, ContentAssumption, FS_Subset, FS_CardinalityType DEF ContentAssumption
    <3>2. list \in SUBSET Nat /\ IsFiniteSet(list)  BY ListIs
    <3>3. list' \in SUBSET Nat /\ IsFiniteSet(list')
      <4>1. list' \in SUBSET Idnos
        <5>1. list \in SUBSET Idnos  BY ListIs
        <5> QED  BY <1>1, <2>6, <5>1
      <4> HIDE DEF list
      <4> QED  BY <4>1, ContentAssumption, FS_Subset DEF ContentAssumption
    <3>4. newBlock \subseteq page \cup Tried(phase)
      <4>1. \A i \in newBlock : i \in block \/ i \in ids  BY <2>6 DEF Upto
      <4>2. block \subseteq page \cup Tried(phase)  BY <1>3, <2>1 DEF ItemOK
      <4> QED  BY <1>4, <4>1, <4>2
    <3>5. Cardinality(block) <= Cardinality(newBlock) + left
      <4> HIDE DEF list
      <4>1. CASE op'[Runner].pc = "over" /\ op'[Runner].good
        BY <2>6, <3>1, <3>2, <3>3, <4>1, ListShrinks
      <4>2. CASE ~(op'[Runner].pc = "over" /\ op'[Runner].good)
        <5>1. IsFiniteSet({}) /\ Cardinality({}) = 0  BY FS_EmptySet
        <5>2. list \ {} \subseteq list'  BY <2>7, <4>2
        <5>3. Cardinality(block) <= Cardinality(newBlock) + Cardinality({})
          BY <3>2, <3>3, <5>1, <5>2, ListShrinks
        <5> QED  BY <4>2, <5>1, <5>3
      <4> QED  BY <4>1, <4>2
    <3>6. Cardinality(block) \in Nat /\ Cardinality(newBlock) \in Nat /\ left \in Nat
      <4> HIDE DEF list
      <4> QED  BY <3>1, <3>2, <3>3, UptoFinite
    <3>7. /\ ~Leaves
          /\ run.offset + Cardinality(page) <= Cardinality(block) + run.succeeded
          /\ run.succeeded + Cardinality(ids) <= Cardinality(page \cap Tried(phase))
      <4>1. run.succeeded \in Int  BY <1>1 DEF Typed, Runs
      <4>2. /\ ~Leaves
            /\ run.offset + Cardinality(page) <= Cardinality(block) + run.succeeded + 0
            /\ run.succeeded + Cardinality(ids) <= Cardinality(page \cap Tried(phase))
        BY <1>3, <2>1 DEF ItemOK
      <4> HIDE DEF block
      <4> QED  BY <3>6, <4>1, <4>2
    <3>8. run.offset + Cardinality(page) <= Cardinality(newBlock) + run.succeeded + left
      <4>1. run.succeeded \in Int /\ run.offset \in Int  BY <1>1 DEF Typed, Runs
      <4>2. Cardinality(page) \in Nat
        <5>1. page \in SUBSET Idnos  BY <1>1 DEF Typed, Runs
        <5> QED  BY <5>1, ContentAssumption, FS_Subset, FS_CardinalityType DEF ContentAssumption
      <4> HIDE DEF block, newBlock, left
      <4> QED  BY <3>5, <3>6, <3>7, <4>1, <4>2
    <3>9. /\ newBlock = Upto(Diff(run.phase), run.page)' /\ Tried(phase)' = Tried(phase)
          /\ (Leaves' <=> Leaves)
      BY <1>2 DEF Tried, Leaves
    <3> HIDE DEF newBlock
    <3> QED  BY <1>2, <1>3, <3>4, <3>7, <3>8, <3>9 DEF ItemOK
  <2>9. PageOK' /\ OverOK'  BY <1>2, <1>3 DEF PageOK, OverOK
  <2> QED  BY <2>5, <2>8, <2>9
<1> QED  BY <1>2, <1>5, <1>6, <1>7 DEF RInv, Paging

LEMMA ItemOverCounts ==
  ASSUME IInv, RInv, ItemOver
  PROVE  RInv'
<1> DEFINE ids == op[Runner].ids
           left == IF op[Runner].good THEN Cardinality(ids) ELSE 0
<1>1. Runner \in Actors /\ Typed /\ ids \subseteq Idnos /\ run \in Runs
  BY DEF Actors, IInv, Typed, OpOK
<1>2. op[Runner].pc = "over" /\ Live(Runner) /\ run.pc = "item"
  BY DEF ItemOver, Live, RInv, RunnerOK
<1>3. /\ ~Live(Runner)' /\ op'[Runner].pc = "idle" /\ \A b \in Actors : b # Runner => op'[b] = op[b]
      /\ UNCHANGED <<alone, catalog, belief>>
  BY <1>1 DEF ItemOver, Quiet, Typed, Live
<1>4. IsFiniteSet(ids) /\ Cardinality(ids) \in Nat /\ left \in Nat /\ left <= Cardinality(ids)
  BY <1>1, ContentAssumption, FS_Subset, FS_CardinalityType DEF ContentAssumption
<1>5. run' = [run EXCEPT !.succeeded = run.succeeded + left]  BY <1>1 DEF ItemOver, Runs
<1>6. /\ run'.succeeded = run.succeeded + left /\ run'.pc = run.pc /\ run'.phase = run.phase
      /\ run'.offset = run.offset /\ run'.page = run.page /\ run'.todo = run.todo
      /\ run'.seen = run.seen /\ run'.cut = run.cut /\ run'.only = run.only
  <2> HIDE DEF left
  <2> QED  BY <1>1, <1>5 DEF Runs
<1>7. \A p : Tried(p)' = Tried(p)  BY <1>6 DEF Tried
<1>8. RunnerOK' /\ AloneOK' /\ FreshOK'
  BY <1>2, <1>3, <1>6, ContentAssumption
     DEF RInv, RunnerOK, AloneOK, FreshOK, UnderWay, Live, Actors
<1>9. ASSUME alone, ~run.cut PROVE PhasesOK' /\ PageOK' /\ ItemOK' /\ OverOK'
  <2>1. PhasesOK /\ ItemOK  BY <1>2, <1>9 DEF RInv, Paging, UnderWay
  <2>2. \A p : Diff(p)' = Diff(p) /\ Page(p, 0)' = Page(p, 0)
    BY <1>3 DEF Diff, Missing, StaleIn, Page
  <2>3. PhasesOK'
    BY <1>3, <1>6, <1>7, <2>1, <2>2 DEF PhasesOK, Missing
  <2>4. ItemOK'
    <3> DEFINE block == Upto(Diff(run.phase), run.page)
    <3>1. /\ ~Leaves /\ block \subseteq run.page \cup Tried(run.phase)
          /\ run.offset + Cardinality(run.page) <= Cardinality(block) + run.succeeded + left
          /\ run.succeeded + Cardinality(ids) <= Cardinality(run.page \cap Tried(run.phase))
      BY <1>2, <2>1 DEF ItemOK
    <3>2. run.succeeded \in Int /\ run.offset \in Int /\ run.page \in SUBSET Idnos  BY <1>1 DEF Runs
    <3>3. Cardinality(run.page) \in Nat /\ Cardinality(run.page \cap Tried(run.phase)) \in Nat
      <4>1. run.page \cap Tried(run.phase) \in SUBSET Idnos  BY <3>2
      <4> QED  BY <3>2, <4>1, ContentAssumption, FS_Subset, FS_CardinalityType DEF ContentAssumption
    <3>4. Cardinality(block) \in Nat  BY ListIs, UptoFinite
    <3>5. Upto(Diff(run.phase), run.page)' = block /\ (Leaves' <=> Leaves)
          /\ (run.page \cap Tried(run.phase))' = run.page \cap Tried(run.phase)
      BY <1>6, <1>7, <2>2 DEF Leaves
    <3> HIDE DEF block, left, ids
    <3>6. /\ run.offset + Cardinality(run.page) <= Cardinality(block) + (run.succeeded + left) + 0
          /\ (run.succeeded + left) + 0 <= Cardinality(run.page \cap Tried(run.phase))
      BY <1>4, <3>1, <3>2, <3>3, <3>4
    <3> QED  BY <1>3, <1>6, <1>7, <3>1, <3>5, <3>6 DEF ItemOK
  <2>5. PageOK' /\ OverOK'  BY <1>2, <1>6 DEF PageOK, OverOK
  <2> QED  BY <2>3, <2>4, <2>5
<1> QED  BY <1>3, <1>6, <1>8, <1>9 DEF RInv, Paging

LEMMA TakeItemTries ==
  ASSUME IInv, RInv, TakeItem
  PROVE  RInv'
<1>1. Runner \in Actors /\ Typed /\ run \in Runs /\ run.pc = "item" /\ op[Runner].pc = "idle" /\ ~Live(Runner)
  BY DEF Actors, IInv, Typed, TakeItem, Live
<1>2. UNCHANGED <<alone, catalog, belief>>  BY DEF TakeItem
<1>3. CASE RunOver /\ UNCHANGED <<op, mark>> /\ run.cut
  <2>1. run'.pc = "over" /\ run'.phase = run.phase /\ run'.cut
    BY <1>1, <1>3 DEF RunOver, Runs
  <2> QED
    BY <1>1, <1>2, <1>3, <2>1 DEF RInv, RunnerOK, AloneOK, FreshOK, Paging, UnderWay, Live
<1>4. ASSUME NEW ids \in Turns,
             run' = [run EXCEPT !.seen = @ \cup {<<run.phase, i>> : i \in ids}],
             IF run.phase = "missing" /\ ids \subseteq Unmapped THEN UNCHANGED <<op, mark>>
             ELSE /\ op' = [op EXCEPT ![Runner] =
                       Begun(run.phase, ids, IF run.phase = "missing" THEN "load" ELSE "delChunks")]
                  /\ Begins(Runner, run.phase, ids)
      PROVE  RInv'
  <2> DEFINE tried == run.seen \cup {<<run.phase, i>> : i \in ids}
  <2>1. /\ run'.seen = tried /\ run'.pc = run.pc /\ run'.phase = run.phase
        /\ run'.offset = run.offset /\ run'.page = run.page /\ run'.todo = run.todo
        /\ run'.succeeded = run.succeeded /\ run'.cut = run.cut /\ run'.only = run.only
    <3>1. run' = [run EXCEPT !.seen = tried]  BY <1>1, <1>4 DEF Runs
    <3> HIDE DEF tried
    <3> QED  BY <1>1, <3>1 DEF Runs
  <2>2. ids \in SUBSET New /\ New \in SUBSET Idnos
    <3>1. New \in SUBSET Idnos  BY <1>1 DEF New, Runs
    <3>2. CASE run.phase = "missing"
      <4>1. ids \in {{i} : i \in {j \in New : \A k \in New : j <= k}}  BY <1>4, <3>2 DEF Turns
      <4>2. PICK i \in New : ids = {i}  BY <4>1
      <4> QED  BY <3>1, <4>2
    <3>3. CASE run.phase # "missing"
      <4>1. ids = New  BY <1>4, <3>3 DEF Turns
      <4> QED  BY <3>1, <4>1
    <3> QED  BY <3>2, <3>3
  <2>3. Tried(run.phase)' = Tried(run.phase) \cup ids /\ \A p : Tried(p) \subseteq Tried(p)'
    BY <2>1, <2>2 DEF Tried
  <2>4. ids \cap Tried(run.phase) = {} /\ ids \subseteq run.page
    BY <2>2 DEF New, Tried
  <2>5. /\ \A b \in Actors : b # Runner => op'[b] = op[b]
        /\ \/ op'[Runner] = op[Runner]
           \/ /\ op'[Runner].ids = ids /\ op'[Runner].kind = run.phase
              /\ op'[Runner].pc = IF run.phase = "missing" THEN "load" ELSE "delChunks"
    <3>1. CASE UNCHANGED op  BY <3>1
    <3>2. CASE op' = [op EXCEPT ![Runner] =
                  Begun(run.phase, ids, IF run.phase = "missing" THEN "load" ELSE "delChunks")]
      <4> DEFINE pc == IF run.phase = "missing" THEN "load" ELSE "delChunks"
                 o == Begun(run.phase, ids, pc)
      <4>1. o.kind = run.phase /\ o.ids = ids /\ o.pc = pc  BY DEF Begun
      <4>2. op' = [op EXCEPT ![Runner] = o]  BY <3>2
      <4> HIDE DEF o, pc
      <4>3. op'[Runner] = o /\ \A b \in Actors : b # Runner => op'[b] = op[b]
        BY <1>1, <4>2 DEF Typed
      <4> QED  BY <4>1, <4>3 DEF pc
    <3> QED  BY <1>4, <3>1, <3>2
  <2>6. RunnerOK'
    BY <1>1, <2>1, <2>3, <2>4, <2>5 DEF RInv, RunnerOK, Live, Indexing, Deleting
  <2>7. AloneOK' /\ FreshOK'
    BY <1>1, <1>2, <2>1, <2>5, ContentAssumption DEF RInv, AloneOK, FreshOK, UnderWay, Live, Actors
  <2>8. ASSUME alone, ~run.cut PROVE PhasesOK' /\ PageOK' /\ ItemOK' /\ OverOK'
    <3>1. PhasesOK /\ ItemOK  BY <1>1, <2>8 DEF RInv, Paging, UnderWay
    <3>2. \A p : Diff(p)' = Diff(p) /\ Page(p, 0)' = Page(p, 0)
      BY <1>2 DEF Diff, Missing, StaleIn, Page
    <3>3. PhasesOK'
      <4>1. Missing' = Missing  BY <1>2 DEF Missing
      <4> QED  BY <1>2, <2>1, <2>3, <3>1, <3>2, <4>1 DEF PhasesOK
    <3>4. ItemOK'
      <4> DEFINE block == Upto(Diff(run.phase), run.page)
                 done == run.page \cap Tried(run.phase)
      <4>1. /\ ~Leaves /\ block \subseteq run.page \cup Tried(run.phase)
            /\ run.offset + Cardinality(run.page) <= Cardinality(block) + run.succeeded + 0
            /\ run.succeeded + 0 <= Cardinality(done)
        BY <1>1, <3>1 DEF ItemOK
      <4>2. done \in SUBSET Idnos /\ run.succeeded \in Int  BY <1>1 DEF Runs
      <4>3. /\ IsFiniteSet(done) /\ IsFiniteSet(ids)
            /\ Cardinality(done) \in Nat /\ Cardinality(ids) \in Nat
        <5>1. ids \in SUBSET Idnos  BY <2>2
        <5> HIDE DEF done
        <5> QED  BY <4>2, <5>1, ContentAssumption, FS_Subset, FS_CardinalityType DEF ContentAssumption
      <4>4. (run.page \cap Tried(run.phase))' = done \cup ids /\ done \cap ids = {}
        BY <2>1, <2>3, <2>4
      <4>5. Cardinality(done \cup ids) = Cardinality(done) + Cardinality(ids)
        <5> HIDE DEF done
        <5>1. Cardinality(done \cup ids) = Cardinality(done) + Cardinality(ids) - Cardinality(done \cap ids)
          BY <4>3, FS_Union
        <5>2. Cardinality(done \cap ids) = 0  BY <4>4, FS_EmptySet
        <5> QED  BY <4>3, <5>1, <5>2
      <4>6. Upto(Diff(run.phase), run.page)' = block /\ (Leaves' <=> Leaves)
        BY <2>1, <3>2 DEF Leaves
      <4>7. op'[Runner].pc # "over"
        BY <1>1, <2>5
      <4>8. (IF Live(Runner)' THEN Cardinality(op'[Runner].ids) ELSE 0) \in {0, Cardinality(ids)}
        BY <1>1, <2>5 DEF Live
      <4> HIDE DEF done, block
      <4>9. /\ run.succeeded + 0 <= Cardinality(done \cup ids)
            /\ run.succeeded + Cardinality(ids) <= Cardinality(done \cup ids)
        BY <4>1, <4>2, <4>3, <4>5
      <4> QED  BY <2>1, <2>3, <4>1, <4>4, <4>6, <4>7, <4>8, <4>9 DEF ItemOK
    <3>5. PageOK' /\ OverOK'  BY <1>1, <2>1 DEF PageOK, OverOK
    <3> QED  BY <3>3, <3>4, <3>5
  <2> QED  BY <1>2, <2>1, <2>6, <2>7, <2>8 DEF RInv, Paging
<1> QED  BY <1>3, <1>4 DEF TakeItem

\* Both lists and the run's pages are as they were.
LEMMA TakePageGoesOn ==
  ASSUME IInv, RInv, TakePage
  PROVE  RInv'
<1>1. Runner \in Actors /\ Typed /\ run \in Runs /\ run.pc = "page" /\ ~Live(Runner)
  BY DEF Actors, IInv, Typed, TakePage, Live
<1>2. UNCHANGED <<op, alone, catalog, belief>>  BY DEF TakePage
<1>3. \A p : Diff(p)' = Diff(p) /\ (\A o : Page(p, o)' = Page(p, o)) /\ Missing' = Missing /\ StaleIn' = StaleIn
  BY <1>2 DEF Diff, Missing, StaleIn, Page
<1>4. RunnerOK' /\ ~Live(Runner)'  BY <1>1, <1>2 DEF RunnerOK, Live
<1>5. run'.pc \in {"item", "page", "over"} /\ run'.cut = run.cut /\ run'.seen = run.seen /\ run'.only = run.only
  BY <1>1 DEF TakePage, RunOver, Runs
<1>6. AloneOK' /\ FreshOK'
  BY <1>1, <1>2, <1>5 DEF RInv, AloneOK, FreshOK, UnderWay, Live
<1>7. \A p : Tried(p)' = Tried(p)  BY <1>5 DEF Tried
<1>8. ASSUME alone, ~run.cut PROVE PhasesOK' /\ PageOK' /\ ItemOK' /\ OverOK'
  <2>1. PhasesOK /\ PageOK  BY <1>1, <1>8 DEF RInv, Paging, UnderWay
  <2> DEFINE list == Diff(run.phase)
  <2>2. list \in SUBSET Nat /\ IsFiniteSet(list) /\ run.offset \in Nat  BY <2>1, ListIs DEF PhasesOK
  <2>3. ~Leaves => /\ run.page = {i \in list : run.offset <= Rank(list, i)
                                               /\ Rank(list, i) < run.offset + PageSize}
                   /\ \A i \in list : Rank(list, i) < run.offset => i \in Tried(run.phase)
    BY <1>1, <2>1, PageRanks DEF PageOK
  <2>4. CASE run.page # {}
    <3>1. ~Leaves  BY <1>1, <2>1, <2>4 DEF PageOK
    <3> DEFINE zero == 0
    <3>2. run' = [run EXCEPT !.pc = "item", !.succeeded = zero]  BY <1>8, <2>4 DEF TakePage
    <3>3. /\ run'.pc = "item" /\ run'.succeeded = zero /\ run'.phase = run.phase
          /\ run'.offset = run.offset /\ run'.page = run.page /\ run'.todo = run.todo
      <4> HIDE DEF zero
      <4> QED  BY <1>1, <3>2 DEF Runs
    <3>4. PhasesOK'  BY <1>2, <1>3, <1>5, <1>7, <2>1, <3>3 DEF PhasesOK
    <3>5. PageSize \in Nat  BY ContentAssumption DEF ContentAssumption
    <3> DEFINE block == Upto(list, run.page)
    <3>6. /\ IsFiniteSet(run.page) /\ run.offset + Cardinality(run.page) <= Cardinality(block)
          /\ \A i \in block : i \in run.page \/ Rank(list, i) < run.offset
      <4> HIDE DEF list
      <4> QED  BY <2>2, <2>3, <2>4, <3>1, <3>5, PageBlock
    <3>7. block \subseteq run.page \cup Tried(run.phase)
      BY <2>3, <3>1, <3>6 DEF Upto
    <3>8. Cardinality(block) \in Nat /\ Cardinality(run.page) \in Nat
          /\ Cardinality(run.page \cap Tried(run.phase)) \in Nat
      <4>1. run.page \cap Tried(run.phase) \in SUBSET run.page  OBVIOUS
      <4> HIDE DEF list
      <4> QED  BY <2>2, <3>6, <4>1, UptoFinite, FS_Subset, FS_CardinalityType
    <3>9. /\ Upto(Diff(run.phase), run.page)' = block /\ (Leaves' <=> Leaves)
          /\ (run.page \cap Tried(run.phase))' = run.page \cap Tried(run.phase)
      BY <1>3, <1>5, <1>7, <3>3 DEF Leaves
    <3>10. /\ op'[Runner].pc # "over"
      BY <1>2 DEF TakePage
    <3> HIDE DEF block, list
    <3>11. /\ run.offset + Cardinality(run.page) <= Cardinality(block) + 0 + 0
           /\ 0 + 0 <= Cardinality(run.page \cap Tried(run.phase))
      BY <2>2, <3>6, <3>8
    <3>12. ItemOK'
      BY <1>4, <1>7, <3>1, <3>3, <3>7, <3>9, <3>10, <3>11 DEF ItemOK
    <3>13. PageOK' /\ OverOK'  BY <3>3 DEF PageOK, OverOK
    <3> QED  BY <3>4, <3>12, <3>13
  <2>5. CASE run.page = {}
    <3>1. ~Leaves => list \subseteq Tried(run.phase)
      <4> SUFFICES ASSUME ~Leaves PROVE list \subseteq Tried(run.phase)  OBVIOUS
      <4>1. \A i \in list : ~(run.offset <= Rank(list, i) /\ Rank(list, i) < run.offset + PageSize)
        BY <2>3, <2>5
      <4>2. PageSize \in Nat \ {0}  BY ContentAssumption DEF ContentAssumption
      <4>3. \A i \in list : Rank(list, i) < run.offset
        <5> HIDE DEF list
        <5> QED  BY <2>2, <4>1, <4>2, EmptyPage
      <4> QED  BY <2>3, <4>3
    <3>2. CASE run.phase = "missing"
      <4> DEFINE todo == run.todo
                 zero == 0
                 none == {}
      <4>1. run' = [run EXCEPT !.phase = "stale", !.offset = zero, !.page = todo, !.todo = none]
        BY <1>8, <2>5, <3>2 DEF TakePage
      <4>2. /\ run'.pc = "page" /\ run'.phase = "stale" /\ run'.offset = zero /\ run'.page = todo
        <5> HIDE DEF todo, zero, none
        <5> QED  BY <1>1, <4>1 DEF Runs
      <4>3. todo = Page("stale", 0) /\ todo \cap catalog = {}
        <5>1. todo = Page("stale", 0)  BY <2>1, <3>2 DEF PhasesOK
        <5> QED  BY <5>1 DEF Page, Diff, StaleIn
      <4>4. run.only \/ Missing \subseteq Tried("missing")
        BY <3>1, <3>2 DEF Leaves, Diff
      <4>5. PhasesOK'  BY <1>2, <1>3, <1>5, <1>7, <4>2, <4>3, <4>4 DEF PhasesOK
      <4>6. \A i \in Diff("stale") : ~(Rank(Diff("stale"), i) < 0)
        <5>1. \A i : Rank(Diff("stale"), i) \in Nat  BY ListIs, RankType
        <5>2. \A i : ~(Rank(Diff("stale"), i) < 0)  BY <5>1
        <5> QED  BY <5>2
      <4>7. PageOK'
        <5>1. ~Leaves'  BY <4>2 DEF Leaves
        <5>2. run'.page = Page(run.phase, run.offset)'  BY <1>3, <4>2, <4>3
        <5>3. \A i \in Diff(run.phase)' : ~(Rank(Diff(run.phase), i)' < run'.offset)
          BY <1>3, <4>2, <4>6 DEF Rank
        <5> QED  BY <5>1, <5>2, <5>3 DEF PageOK
      <4>8. ItemOK' /\ OverOK'  BY <4>2 DEF ItemOK, OverOK
      <4> QED  BY <4>5, <4>7, <4>8
    <3>3. CASE run.phase = "stale"
      <4>1. run' = [run EXCEPT !.pc = "over"]  BY <1>8, <2>5, <3>3 DEF TakePage, RunOver
      <4>2. /\ run'.pc = "over" /\ run'.phase = run.phase /\ run'.offset = run.offset
            /\ run'.page = run.page /\ run'.todo = run.todo
        BY <1>1, <4>1 DEF Runs
      <4>3. StaleIn \subseteq Tried("stale")  BY <3>1, <3>3 DEF Leaves, Diff
      <4>4. PhasesOK'  BY <1>2, <1>3, <1>5, <1>7, <2>1, <4>2 DEF PhasesOK
      <4>5. OverOK'  BY <1>3, <1>7, <3>3, <4>2, <4>3 DEF OverOK
      <4>6. PageOK' /\ ItemOK'  BY <4>2 DEF PageOK, ItemOK
      <4> QED  BY <4>4, <4>5, <4>6
    <3> QED  BY <1>1, <3>2, <3>3 DEF Runs
  <2> QED  BY <2>4, <2>5
<1> QED  BY <1>2, <1>4, <1>5, <1>6, <1>8 DEF RInv, Paging

LEMMA NextPageFollows ==
  ASSUME IInv, RInv, NextPage
  PROVE  RInv'
<1> DEFINE offset == run.offset + Cardinality(run.page) - run.succeeded
           page == Page(run.phase, offset)
<1>1. Runner \in Actors /\ Typed /\ run \in Runs /\ run.pc = "item" /\ ~Live(Runner) /\ op[Runner].pc = "idle"
  BY DEF Actors, IInv, Typed, NextPage, Live
<1>2. UNCHANGED <<op, alone, catalog, belief>>  BY DEF NextPage
<1>3. /\ run'.pc = "page" /\ run'.offset = offset /\ run'.page = page /\ run'.phase = run.phase
      /\ run'.todo = run.todo /\ run'.seen = run.seen /\ run'.cut = run.cut /\ run'.only = run.only
  <2>1. run' = [run EXCEPT !.pc = "page", !.offset = offset, !.page = page]  BY DEF NextPage
  <2> HIDE DEF offset, page
  <2> QED  BY <1>1, <2>1 DEF Runs
<1>4. \A p : Tried(p)' = Tried(p) /\ Diff(p)' = Diff(p) /\ (\A o : Page(p, o)' = Page(p, o))
             /\ Missing' = Missing
  BY <1>2, <1>3 DEF Tried, Diff, Missing, StaleIn, Page
<1>5. RunnerOK' /\ AloneOK' /\ FreshOK'
  BY <1>1, <1>2, <1>3 DEF RInv, RunnerOK, AloneOK, FreshOK, UnderWay, Live
<1>6. ASSUME alone, ~run.cut PROVE PhasesOK' /\ PageOK' /\ ItemOK' /\ OverOK'
  <2> DEFINE list == Diff(run.phase)
             block == Upto(list, run.page)
             done == run.page \cap Tried(run.phase)
  <2>1. PhasesOK /\ ItemOK  BY <1>1, <1>6 DEF RInv, Paging, UnderWay
  <2>2. /\ ~Leaves /\ block \subseteq run.page \cup Tried(run.phase)
        /\ run.offset + Cardinality(run.page) <= Cardinality(block) + run.succeeded + 0
        /\ run.succeeded + 0 <= Cardinality(done)
    BY <1>1, <2>1 DEF ItemOK
  <2>3. run.page \subseteq Tried(run.phase)
    BY <1>1 DEF NextPage, New, Tried, Runs
  <2>4. /\ run.page \in SUBSET Idnos /\ run.page \in SUBSET Nat /\ IsFiniteSet(run.page)
        /\ Cardinality(run.page) \in Nat
    <3>1. run.page \in SUBSET Idnos  BY <1>1 DEF Runs
    <3> QED  BY <3>1, ContentAssumption, FS_Subset, FS_CardinalityType DEF ContentAssumption
  <2>5. done = run.page  BY <2>3
  <2>6. Cardinality(block) \in Nat /\ run.succeeded \in Int /\ run.offset \in Nat
    BY <1>1, <2>1, ListIs, UptoFinite DEF Runs, PhasesOK
  <2>7. offset \in Nat /\ offset <= Cardinality(block)
    <3>1. run.succeeded + 0 <= Cardinality(run.page)  BY <2>2, <2>5
    <3> DEFINE b == Cardinality(block)
               c == Cardinality(run.page)
    <3>2. b \in Nat /\ c \in Nat /\ run.offset + c <= b + run.succeeded + 0 /\ run.succeeded + 0 <= c
      BY <2>2, <2>4, <2>6, <3>1
    <3> HIDE DEF b, c
    <3>3. run.offset + c - run.succeeded \in Nat /\ run.offset + c - run.succeeded <= b
      BY <2>6, <3>2
    <3> QED  BY <3>3 DEF b, c
  <2>8. ASSUME NEW i \in list, Rank(list, i) < offset PROVE i \in Tried(run.phase)
    <3>1. list \in SUBSET Nat /\ IsFiniteSet(list)  BY ListIs
    <3>2. Rank(list, i) \in Nat
      <4> HIDE DEF list
      <4> QED  BY <3>1, RankType
    <3>3. Rank(list, i) < Cardinality(block)
      <4> HIDE DEF list, block, offset
      <4> QED  BY <2>6, <2>7, <2>8, <3>2
    <3>4. i \in block
      <4> HIDE DEF list
      <4> QED  BY <2>4, <2>8, <3>1, <3>3, RankedIn
    <3> QED  BY <2>2, <2>3, <3>4
  <2>9. PageOK'
    <3>1. ~Leaves'  BY <1>3, <2>2 DEF Leaves
    <3>2. run'.page = Page(run.phase, run.offset)'  BY <1>3, <1>4
    <3>3. \A i \in Diff(run.phase)' : Rank(Diff(run.phase), i)' < run'.offset => i \in Tried(run.phase)'
      BY <1>3, <1>4, <2>8 DEF Rank
    <3> QED  BY <3>1, <3>2, <3>3 DEF PageOK
  <2>10. PhasesOK'
    <3>1. run.phase = "missing" => page \subseteq catalog
      BY DEF Page, Diff, Missing
    <3>2. run.phase = "stale" => page \cap catalog = {}
      BY DEF Page, Diff, StaleIn
    <3> HIDE DEF offset, page
    <3> QED  BY <1>2, <1>3, <1>4, <2>1, <2>7, <3>1, <3>2 DEF PhasesOK
  <2>11. ItemOK' /\ OverOK'  BY <1>3 DEF ItemOK, OverOK
  <2> QED  BY <2>9, <2>10, <2>11
<1> QED  BY <1>2, <1>3, <1>5, <1>6 DEF RInv, Paging

LEMMA RunBeginsWell ==
  ASSUME IInv, RInv, RunBegins
  PROVE  RInv'
<1>1. Runner \in Actors /\ Typed /\ run \in Runs /\ run.pc = "wait" /\ run.phase = "missing" /\ run.offset = 0
  BY DEF Actors, IInv, Typed, RunBegins, RInv, FreshOK
<1>2. UNCHANGED <<op, catalog, belief>> /\ alone' = (\A a \in Workers : ~Live(a))  BY DEF RunBegins
<1> DEFINE stale == Page("stale", 0)
           page == IF run.only THEN {} ELSE Page("missing", 0)
<1>3. /\ run'.pc = "page" /\ run'.todo = stale /\ run'.page = page /\ run'.phase = run.phase
      /\ run'.offset = run.offset /\ run'.seen = run.seen /\ run'.cut = run.cut /\ run'.only = run.only
  <2>1. run' = [run EXCEPT !.pc = "page", !.todo = stale, !.page = page]  BY DEF RunBegins
  <2> HIDE DEF stale, page
  <2> QED  BY <1>1, <2>1 DEF Runs
<1>4. \A p : Diff(p)' = Diff(p) /\ \A o : Page(p, o)' = Page(p, o)
  BY <1>2 DEF Diff, Missing, StaleIn, Page
<1>5. RunnerOK' /\ AloneOK' /\ FreshOK'
  BY <1>1, <1>2, <1>3 DEF RInv, RunnerOK, AloneOK, FreshOK, Live
<1>6. PhasesOK'
  <2>1. page \subseteq catalog  BY DEF Page, Diff, Missing
  <2> HIDE DEF stale, page
  <2> QED  BY <1>1, <1>2, <1>3, <1>4, <2>1 DEF PhasesOK, stale
<1>7. PageOK'
  <2>1. CASE run.only  BY <1>1, <1>3, <2>1 DEF PageOK, Leaves
  <2>2. CASE ~run.only
    <3>1. run'.page = Page(run.phase, run.offset)'  BY <1>1, <1>3, <1>4, <2>2
    <3>2. \A i : Rank(Diff(run.phase), i) \in Nat  BY ListIs, RankType
    <3>3. \A i : ~(Rank(Diff(run.phase), i) < 0)  BY <3>2
    <3>4. \A i \in Diff(run.phase)' : ~(Rank(Diff(run.phase), i)' < run'.offset)
      BY <1>1, <1>3, <1>4, <3>3 DEF Rank
    <3>5. ~Leaves'  BY <1>3, <2>2 DEF Leaves
    <3> QED  BY <3>1, <3>4, <3>5 DEF PageOK
  <2> QED  BY <2>1, <2>2
<1>8. ItemOK' /\ OverOK'  BY <1>3 DEF ItemOK, OverOK
<1> QED  BY <1>5, <1>6, <1>7, <1>8 DEF RInv, Paging

LEMMA RInvInit == Init => RInv
  BY DEF Init, RInv, RunnerOK, AloneOK, FreshOK, Paging, UnderWay, NoRun, Quiet, Live, Actors

LEMMA RInvNext == IInv /\ RInv /\ [Next]_vars => RInv'
<1> SUFFICES ASSUME IInv, RInv, [Next]_vars PROVE RInv'  OBVIOUS
<1>1. Runner \in Actors /\ Runner \notin Workers /\ Typed /\ run \in Runs
  BY ContentAssumption DEF Actors, IInv, Typed
<1>2. ASSUME NEW a \in Workers, NEW i \in Idnos,
             NEW kind \in Kinds, Submit(a, kind, i)
      PROVE  RInv'
  <2>1. op'[Runner] = op[Runner] /\ UNCHANGED run /\ ~alone'
    BY <1>1, <1>2 DEF Submit, Typed
  <2> QED  BY <2>1 DEF RInv, RunnerOK, AloneOK, FreshOK, Paging, Live, Tried
<1>3. ASSUME NEW a \in Actors, Cancel(a) \/ Step(a) PROVE RInv'
  <2>1. CASE a \in Workers  BY <1>3, <2>1, WorkerKeeps
  <2>2. CASE a = Runner
    <3>1. Step(Runner)  BY <1>1, <1>3, <2>2 DEF Cancel
    <3> QED  BY <3>1, RunnerKeeps
  <2> QED  BY <2>1, <2>2 DEF Actors
<1>4. ASSUME NEW only \in BOOLEAN, StartRun(only) PROVE RInv'
  <2>1. run'.pc = "wait" /\ run'.phase = "missing" /\ run'.offset = 0 /\ ~Live(Runner)
    BY <1>4 DEF StartRun, NoRun, RInv, RunnerOK
  <2>2. op' = op  BY <1>4 DEF StartRun
  <2> QED  BY <2>1, <2>2 DEF RInv, RunnerOK, AloneOK, FreshOK, Paging, UnderWay, Live
<1>5. CASE CancelRun
  <2>1. run'.pc = run.pc /\ run'.phase = run.phase /\ run'.cut /\ run'.seen = run.seen
        /\ run'.page = run.page /\ run.pc \in {"page", "item"}
    BY <1>1, <1>5 DEF CancelRun, Runs
  <2>2. UNCHANGED <<op, alone>>  BY <1>5 DEF CancelRun
  <2> QED  BY <2>1, <2>2 DEF RInv, RunnerOK, AloneOK, FreshOK, Paging, UnderWay, Live, Tried
<1>6. CASE PageFails
  <2>1. run'.pc = "over" /\ run'.cut /\ ~Live(Runner) /\ run.pc = "item"
    BY <1>1, <1>6 DEF PageFails, Runs, Live
  <2>2. UNCHANGED <<op, alone>>  BY <1>6 DEF PageFails
  <2> QED  BY <2>1, <2>2 DEF RInv, RunnerOK, AloneOK, FreshOK, Paging, UnderWay, Live
<1>7. CASE RunStep
  BY <1>7, RunBeginsWell, TakePageGoesOn, TakeItemTries, ItemOverCounts, NextPageFollows DEF RunStep
<1>8. ASSUME NEW i \in Idnos, Change(i) PROVE RInv'
  <2>1. UNCHANGED <<op, run>> /\ ~alone'  BY <1>8 DEF Change
  <2> QED  BY <2>1 DEF RInv, RunnerOK, AloneOK, FreshOK, Paging, Live, Tried
<1>9. CASE Crash
  <2>1. op'[Runner].pc = "idle" /\ run' = NoRun /\ ~alone'  BY <1>1, <1>9 DEF Crash, Quiet
  <2> QED  BY <2>1 DEF RInv, RunnerOK, AloneOK, FreshOK, Paging, Live, NoRun
<1>10. CASE UNCHANGED vars
  <2>1. UNCHANGED <<op, run, alone, catalog, belief>>  BY <1>10 DEF vars
  <2>2. \A p : Tried(p)' = Tried(p) /\ Diff(p)' = Diff(p) /\ (\A o : Page(p, o)' = Page(p, o))
               /\ Missing' = Missing /\ StaleIn' = StaleIn
    BY <2>1 DEF Tried, Diff, Missing, StaleIn, Page
  <2>3. RunnerOK' /\ AloneOK' /\ FreshOK'
    BY <2>1 DEF RInv, RunnerOK, AloneOK, FreshOK, UnderWay, Live, Tried
  <2>4. (PhasesOK => PhasesOK') /\ (PageOK => PageOK') /\ (OverOK => OverOK') /\ (ItemOK => ItemOK')
    BY <2>1, <2>2 DEF PhasesOK, PageOK, OverOK, ItemOK, Leaves, Rank, Upto, Live
  <2> QED  BY <2>1, <2>3, <2>4 DEF RInv, Paging, UnderWay
<1> QED  BY <1>2, <1>3, <1>4, <1>5, <1>6, <1>7, <1>8, <1>9, <1>10 DEF Next

\* reconcile_diff_once: a run that ends by itself, and that nothing worked beside, has tried
\* every study that is still missing or still stale, for any lists, any size of the pages,
\* and whatever of its items and reports fails or gets lost: to go on from where the page
\* ended less what it counts as done never steps over a study.
THEOREM RunSkipsNothing == Spec => []NothingSkipped
<1>1. RInv => NothingSkipped
  <2> SUFFICES ASSUME RInv, run.pc = "over", alone, ~run.cut
               PROVE  /\ ~run.only => \A i \in Missing : <<"missing", i>> \in run.seen
                      /\ \A i \in StaleIn : <<"stale", i>> \in run.seen
    BY DEF NothingSkipped
  <2>1. PhasesOK /\ OverOK  BY DEF RInv, Paging, UnderWay
  <2> QED  BY <2>1 DEF PhasesOK, OverOK, Tried
<1> QED  BY <1>1, InitHolds, NextKeeps, RInvInit, RInvNext, PTL DEF Spec
=============================================================================
