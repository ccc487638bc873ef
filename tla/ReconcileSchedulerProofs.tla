---------------------- MODULE ReconcileSchedulerProofs ----------------------
(***************************************************************************)
(* Proofs about ReconcileScheduler, for any objects, page and batch sizes, *)
(* limits and number of failures. The types are right in any setting; that *)
(* no row is settled early and that the scheduler implements IndexSync     *)
(* needs it to be the index's only writer: other jobs, and the threads     *)
(* that a graceful stop leaves behind, may undo its work. That no work is  *)
(* started while its results cannot be recorded, and that no pass does the *)
(* same work twice, holds in every setting again.                          *)
(***************************************************************************)
EXTENDS ReconcileScheduler, FiniteSetTheorems, TLAPS

Where == {"off", "top", "wait", "resend", "list", "fetch", "item", "write", "acks", "crashed"}

\* The part of TypeOK that the loop's control helpers are about.
ControlOK ==
  /\ pc \in Where
  /\ wait \in {"check", "pause", "interval"}
  /\ wake \in BOOLEAN
  /\ pause \in Reason \cup {"none"}
  /\ pass \in Pass

\* An empty pass is a pass.
LEMMA EmptyPass ==
  /\ NoPass \in Pass
  /\ NoPass.items = {} /\ NoPass.extracts = {} /\ NoPass.acks = {}
  BY DEF NoPass, Pass

\* However a pass ends, nothing of it is left and no item is at work.
LEMMA DrainOverControl ==
  ASSUME TypeOK, NEW p \in Reason \cup {"none"}, DrainOver(p)
  PROVE  ControlOK' /\ pass' = NoPass /\ pc' # "write"
  BY EmptyPass DEF DrainOver, StartWait, ControlOK, TypeOK, Where

\* A pass that goes on.
LEMMA GoOnControl ==
  ASSUME TypeOK, NEW to \in Where, NEW p \in Pass, GoOn(to, p)
  PROVE  ControlOK' /\ pass' = p /\ pc' = to
  BY DEF GoOn, ControlOK, TypeOK

\* After an item: the pass it left, or none.
LEMMA ProceedControl ==
  ASSUME TypeOK, NEW p \in Pass, NEW r \in Reason \cup {"none"}, Proceed(p, r)
  PROVE  ControlOK' /\ pass' \in {p, NoPass} /\ pc' # "write"
<1>1. CASE DrainOver(r)  BY <1>1, DrainOverControl
<1>2. CASE /\ pc' \in {"acks", "item"} /\ pass' = p /\ pause' = r
           /\ UNCHANGED <<wait, wake>>
  BY <1>2 DEF ControlOK, TypeOK, Where
<1> QED  BY <1>1, <1>2 DEF Proceed

\* The pass of the next item is a pass.
LEMMA TakenType ==
  ASSUME TypeOK, NEW i \in Item
  PROVE  /\ Taken(i) \in Pass
         /\ Taken(i).items = pass.items \ {i}
         /\ Taken(i).extracts = pass.extracts /\ Taken(i).acks = pass.acks
  BY DEF TypeOK, Pass, Taken

\* So is one with an ack more.
LEMMA AckedType ==
  ASSUME NEW p \in Pass, NEW i, i.o \in Object, i.changed \in Version, NEW ok \in BOOLEAN
  PROVE  /\ Acked(p, i, ok) \in Pass
         /\ Acked(p, i, ok).acks = p.acks \cup {[o |-> i.o, changed |-> i.changed, ok |-> ok]}
         /\ Acked(p, i, ok).items = p.items
         /\ Acked(p, i, ok).extracts = p.extracts
<1>1. [o |-> i.o, changed |-> i.changed, ok |-> ok] \in Ack  BY DEF Ack
<1> DEFINE a == [o |-> i.o, changed |-> i.changed, ok |-> ok]
<1>2. Acked(p, i, ok) = [p EXCEPT !.acks = @ \cup {a}]  BY DEF Acked
<1> HIDE DEF a
<1>3. a \in Ack  BY <1>1 DEF a
<1>4. [p EXCEPT !.acks = @ \cup {a}] \in Pass  BY <1>3 DEF Pass
<1> QED  BY <1>2, <1>4 DEF Pass, a

\* And one that stops.
LEMMA StoppedType ==
  ASSUME TypeOK
  PROVE  LET p == [pass EXCEPT !.stopped = TRUE]
         IN /\ p \in Pass /\ p.items = pass.items
            /\ p.extracts = pass.extracts /\ p.acks = pass.acks
  BY DEF TypeOK, Pass

\* Once its acks are dealt with a pass is over or goes on with fewer.
LEMMA AcksDoneControl ==
  ASSUME TypeOK, NEW skip \in SUBSET Object, AcksDone(skip)
  PROVE  /\ ControlOK' /\ pc' # "write"
         /\ unsent' \in {unsent, {}}
         /\ pass'.items \subseteq pass.items /\ pass'.extracts \subseteq pass.extracts
         /\ pass'.acks = {}
<1>1. CASE pc = "resend"
  <2>1. unsent' = {} /\ GoOn("list", NoPass)  BY <1>1 DEF AcksDone
  <2> QED  BY <2>1, EmptyPass, GoOnControl DEF Where
<1>2. CASE pc # "resend"
  <2> DEFINE p == [pass EXCEPT !.acks = {}, !.exclude = @ \cup skip]
  <2>1. p \in Pass /\ p.items = pass.items /\ p.extracts = pass.extracts /\ p.acks = {}
    BY DEF TypeOK, Pass
  <2>2. UNCHANGED unsent /\ (DrainOver(pause) \/ GoOn("list", p) \/ GoOn("item", p))
    BY <1>2 DEF AcksDone
  <2> HIDE DEF p
  <2>3. CASE DrainOver(pause)  BY <2>2, <2>3, EmptyPass, DrainOverControl DEF TypeOK
  <2>4. CASE GoOn("list", p)  BY <2>1, <2>2, <2>4, GoOnControl DEF Where
  <2>5. CASE GoOn("item", p)  BY <2>1, <2>2, <2>5, GoOnControl DEF Where
  <2> QED  BY <2>2, <2>3, <2>4, <2>5
<1> QED  BY <1>1, <1>2

\* What NADA records keeps the rows rows.
LEMMA RecordedType ==
  ASSUME TypeOK, NEW acks, Recorded(acks)
  PROVE  row' \in [Object -> {"none", "pending", "failed"}]
  BY DEF Recorded, TypeOK

\* The acks being sent are acks, and those that NADA answers with an error name
\* objects.
LEMMA SentType == TypeOK => Sent \subseteq Ack /\ \A odd \in SUBSET Sent : {a.o : a \in odd} \subseteq Object
  BY DEF TypeOK, Pass, Ack, Sent

-----------------------------------------------------------------------------
(* Type correctness.                                                       *)

\* The initial state.
LEMMA TypeInit == Init => TypeOK
<1> SUFFICES ASSUME Init PROVE TypeOK  OBVIOUS
<1>1. 0 \in Version /\ 0 \in 0 .. MaxTroubles  BY SchedulerAssumption DEF Version
<1> QED  BY <1>1, EmptyPass DEF Init, TypeOK, Where

\* A step that goes wrong is one trouble more, and not one too many.
LEMMA TroublesType == TypeOK /\ GoesWrong => troubles' \in 0 .. MaxTroubles
  BY SchedulerAssumption DEF TypeOK, GoesWrong

\* The loop, up to the items.
LEMMA ListingType ==
  ASSUME TypeOK,
         \/ Top \/ WaitOver \/ ListPaused
         \/ \E page \in SUBSET Object : List(page)
         \/ \E batch \in SUBSET {i.o : i \in ToFetch} : \E broken \in SUBSET batch : Fetch(batch, broken)
         \/ Fetched \/ EmbeddingFails \/ Restart
         \/ \E reason \in Reason : ListFails(reason) \/ FetchFails(reason)
  PROVE  TypeOK'
<1>1. CASE Top
  <2>1. ControlOK'
    BY <1>1, EmptyPass DEF Top, StartWait, ToWork, ControlOK, TypeOK, Where
  <2> QED  BY <1>1, <2>1 DEF Top, ControlOK, Where, TypeOK, nadaVars
<1>2. CASE WaitOver
  <2>1. ControlOK'  BY <1>2, EmptyPass DEF WaitOver, ToWork, ControlOK, TypeOK, Where
  <2> QED  BY <1>2, <2>1 DEF WaitOver, ControlOK, Where, TypeOK, nadaVars
<1>3. CASE ListPaused
  <2>1. ControlOK'  BY <1>3, DrainOverControl DEF ListPaused, TypeOK
  <2> QED  BY <1>3, <2>1 DEF ListPaused, ControlOK, Where, TypeOK, nadaVars
<1>4. ASSUME NEW page \in SUBSET Object, List(page) PROVE TypeOK'
  <2> DEFINE items == {[o |-> o, changed |-> ver[o]] : o \in page}
             p == [pass EXCEPT !.items = items, !.full = Cardinality(page) = Limit,
                               !.extracts = {}, !.prefailed = {}]
  <2>1. items \subseteq Item  BY DEF Item, TypeOK
  <2>2. (Cardinality(page) = Limit) \in BOOLEAN  OBVIOUS
  <2>3. DrainOver(pause) \/ GoOn("fetch", p)  BY <1>4 DEF List
  <2> HIDE DEF items
  <2>4. p \in Pass  BY <2>1, <2>2 DEF Pass, TypeOK
  <2> HIDE DEF p
  <2>5. ControlOK'
    <3>1. CASE DrainOver(pause)  BY <3>1, DrainOverControl DEF TypeOK
    <3>2. CASE GoOn("fetch", p)  BY <3>2, <2>4, GoOnControl DEF Where
    <3> QED  BY <2>3, <3>1, <3>2
  <2> QED  BY <1>4, <2>5 DEF List, ControlOK, Where, TypeOK, nadaVars
<1>5. ASSUME NEW batch \in SUBSET {i.o : i \in ToFetch}, NEW broken \in SUBSET batch,
             Fetch(batch, broken)
      PROVE  TypeOK'
  <2> DEFINE gone == broken \cup {o \in batch : ver[o] \in Deletes}
             got == {[o |-> o, v |-> ver[o]] : o \in batch \ gone}
             p == [pass EXCEPT !.extracts = @ \cup got, !.prefailed = @ \cup gone]
  <2>1. batch \subseteq Object  BY DEF ToFetch, TypeOK, Pass, Item
  <2>2. gone \subseteq Object /\ got \subseteq Extract  BY <2>1 DEF TypeOK, Extract
  <2>3. GoOn("fetch", p)  BY <1>5 DEF Fetch
  <2> HIDE DEF gone, got
  <2>4. p \in Pass  BY <2>2 DEF Pass, TypeOK
  <2> HIDE DEF p
  <2>5. ControlOK'  BY <2>3, <2>4, GoOnControl DEF Where
  <2> QED  BY <1>5, <2>5 DEF Fetch, ControlOK, Where, TypeOK, nadaVars
<1>6. CASE Fetched
  <2>1. ControlOK'  BY <1>6, GoOnControl DEF Fetched, Where, TypeOK
  <2> QED  BY <1>6, <2>1 DEF Fetched, ControlOK, Where, TypeOK, nadaVars
<1>7. CASE EmbeddingFails
  <2>1. ControlOK'  BY <1>7, EmptyPass DEF EmbeddingFails, ControlOK, TypeOK, Where
  <2> QED  BY <1>7, <2>1, TroublesType DEF EmbeddingFails, ControlOK, Where, TypeOK, nadaVars
<1>8. CASE Restart  BY <1>8 DEF Restart, TypeOK, nadaVars
<1>9. ASSUME NEW reason \in Reason, ListFails(reason) PROVE TypeOK'
  <2>1. ControlOK'  BY <1>9, DrainOverControl DEF ListFails
  <2> QED  BY <1>9, <2>1, TroublesType DEF ListFails, ControlOK, Where, TypeOK, nadaVars
<1>10. ASSUME NEW reason \in Reason, FetchFails(reason) PROVE TypeOK'
  <2>1. ControlOK'  BY <1>10, DrainOverControl DEF FetchFails
  <2> QED  BY <1>10, <2>1, TroublesType DEF FetchFails, ControlOK, Where, TypeOK, nadaVars
<1> QED  BY <1>1, <1>2, <1>3, <1>4, <1>5, <1>6, <1>7, <1>8, <1>9, <1>10

\* What an item at work leaves in the index is a version.
LEMMA WrittenType ==
  ASSUME TypeOK, NEW c, c.o \in Object, c.v \in Version, Written(c) \/ UNCHANGED idx
  PROVE  idx' \in [Object -> Version]
  BY DEF TypeOK, Written

\* The loop, item by item.
LEMMA ItemType ==
  ASSUME TypeOK,
         \/ ItemPaused
         \/ \E i \in pass.items : FailItem(i) \/ \E v \in Version : StartItem(i, v)
         \/ \E c \in cur : \/ ItemDone(c) \/ ItemFails(c)
                          \/ \E reason \in Reason : ItemTrouble(c, reason)
  PROVE  TypeOK'
<1>0. pause \in Reason \cup {"none"} /\ pass.items \subseteq Item  BY DEF TypeOK, Pass
<1>1. CASE ItemPaused
  <2>1. ControlOK'  BY <1>0, <1>1, StoppedType, ProceedControl DEF ItemPaused
  <2> QED  BY <1>1, <2>1 DEF ItemPaused, ControlOK, Where, TypeOK, nadaVars
<1>2. ASSUME NEW i \in pass.items, FailItem(i) PROVE TypeOK'
  <2>1. i.o \in Object /\ i.changed \in Version  BY <1>0 DEF Item
  <2>2. Acked(Taken(i), i, FALSE) \in Pass  BY <1>0, <2>1, TakenType, AckedType
  <2>3. ControlOK'  BY <1>0, <1>2, <2>2, ProceedControl DEF FailItem
  <2> QED  BY <1>2, <2>3 DEF FailItem, ControlOK, Where, TypeOK, nadaVars
<1>3. ASSUME NEW i \in pass.items, NEW v \in Version, StartItem(i, v) PROVE TypeOK'
  <2>1. [o |-> i.o, changed |-> i.changed, v |-> v] \in Work  BY <1>0 DEF Item, Work
  <2>2. ControlOK'  BY <1>0, <1>3, TakenType, GoOnControl DEF StartItem, Where
  <2> QED  BY <1>3, <2>1, <2>2 DEF StartItem, ControlOK, Where, TypeOK, nadaVars
<1>4. ASSUME NEW c \in cur PROVE c.o \in Object /\ c.changed \in Version /\ c.v \in Version
  BY DEF TypeOK, Work
<1>5. ASSUME NEW c \in cur, ItemDone(c) \/ ItemFails(c) PROVE TypeOK'
  <2>1. PICK ok \in BOOLEAN : Proceed(Acked(pass, c, ok), pause)
    BY <1>5 DEF ItemDone, ItemFails
  <2>2. Acked(pass, c, ok) \in Pass  BY <1>4, AckedType DEF TypeOK
  <2>3. ControlOK'  BY <1>0, <2>1, <2>2, ProceedControl
  <2>4. idx' \in [Object -> Version]  BY <1>4, <1>5, WrittenType DEF ItemDone, ItemFails
  <2> QED  BY <1>5, <2>3, <2>4 DEF ItemDone, ItemFails, ControlOK, Where, TypeOK, nadaVars
<1>6. ASSUME NEW c \in cur, NEW reason \in Reason, ItemTrouble(c, reason) PROVE TypeOK'
  <2>1. ControlOK'  BY <1>6, StoppedType, ProceedControl DEF ItemTrouble
  <2>2. idx' \in [Object -> Version]  BY <1>4, <1>6, WrittenType DEF ItemTrouble
  <2> QED  BY <1>6, <2>1, <2>2, TroublesType DEF ItemTrouble, ControlOK, Where, TypeOK, nadaVars
<1> QED  BY <1>1, <1>2, <1>3, <1>5, <1>6

\* The number of acks sent is a number.
LEMMA SentCount == TypeOK => Cardinality(Sent) \in Nat
<1> SUFFICES ASSUME TypeOK PROVE Cardinality(Sent) \in Nat  OBVIOUS
<1>1. IsFiniteSet(Version)  BY SchedulerAssumption, FS_Interval DEF Version
<1>2. IsFiniteSet(Object \X Version)  BY <1>1, SchedulerAssumption, FS_Product
<1>3. IsFiniteSet(BOOLEAN)
  <2>1. IsFiniteSet({} \cup {TRUE})  BY FS_EmptySet, FS_AddElement
  <2>2. IsFiniteSet(({} \cup {TRUE}) \cup {FALSE})  BY <2>1, FS_AddElement
  <2>3. BOOLEAN = ({} \cup {TRUE}) \cup {FALSE}  BY Zenon
  <2> QED  BY <2>2, <2>3
<1>4. IsFiniteSet((Object \X Version) \X BOOLEAN)  BY <1>2, <1>3, FS_Product
<1> DEFINE f == [x \in (Object \X Version) \X BOOLEAN |->
                   [o |-> x[1][1], changed |-> x[1][2], ok |-> x[2]]]
<1>5. f \in Surjection((Object \X Version) \X BOOLEAN, Ack)
  <2>1. f \in [(Object \X Version) \X BOOLEAN -> Ack]  BY DEF Ack
  <2>2. ASSUME NEW a \in Ack PROVE \E x \in (Object \X Version) \X BOOLEAN : f[x] = a
    <3>1. <<<<a.o, a.changed>>, a.ok>> \in (Object \X Version) \X BOOLEAN  BY DEF Ack
    <3>2. f[<<<<a.o, a.changed>>, a.ok>>] = a  BY <3>1 DEF Ack
    <3> QED  BY <3>1, <3>2
  <2> QED  BY <2>1, <2>2 DEF Surjection
<1>6. IsFiniteSet(Ack)  BY <1>4, <1>5, FS_Surjection
<1> QED  BY <1>6, SentType, FS_Subset, FS_CardinalityType

\* The loop's acks.
LEMMA AcksType ==
  ASSUME TypeOK,
         \/ \E odd \in SUBSET Sent : AcksTaken(odd)
         \/ \E landed \in SUBSET Sent : AcksFail(landed)
         \/ \E reason \in Reason : \E landed \in SUBSET Sent : AcksStopped(reason, landed)
  PROVE  TypeOK'
<1>0. unsent \subseteq Ack /\ Sent \subseteq Ack  BY SentType DEF TypeOK
<1>1. ASSUME NEW odd \in SUBSET Sent, AcksTaken(odd) PROVE TypeOK'
  <2>1. ControlOK' /\ unsent' \subseteq Ack
    BY <1>0, <1>1, SentType, AcksDoneControl DEF AcksTaken
  <2>2. row' \in [Object -> {"none", "pending", "failed"}]
    BY <1>1, RecordedType DEF AcksTaken
  <2>3. troubles' \in 0 .. MaxTroubles  BY <1>1, TroublesType DEF AcksTaken, TypeOK
  <2> QED  BY <1>1, <2>1, <2>2, <2>3 DEF AcksTaken, ControlOK, Where, TypeOK
<1>2. ASSUME NEW landed \in SUBSET Sent, AcksFail(landed) PROVE TypeOK'
  <2>0. "acks_failing" \in Reason  BY DEF Reason
  <2>1. ControlOK' /\ unsent' \subseteq Ack
    <3>1. CASE AcksKept("acks_failing")  BY <1>0, <2>0, <3>1, DrainOverControl DEF AcksKept
    <3>2. CASE AcksDone({a.o : a \in Sent})  BY <1>0, <3>2, SentType, AcksDoneControl
    <3> QED  BY <1>2, <3>1, <3>2 DEF AcksFail
  <2>2. row' \in [Object -> {"none", "pending", "failed"}]  BY <1>2, RecordedType DEF AcksFail
  <2>3. fails' \in Nat  BY <1>2, SentCount DEF AcksFail, TypeOK
  <2> QED  BY <1>2, <2>1, <2>2, <2>3, TroublesType DEF AcksFail, ControlOK, Where, TypeOK
<1>3. ASSUME NEW reason \in Reason, NEW landed \in SUBSET Sent, AcksStopped(reason, landed)
      PROVE  TypeOK'
  <2>1. ControlOK' /\ unsent' \subseteq Ack
    BY <1>0, <1>3, DrainOverControl DEF AcksStopped, AcksKept
  <2>2. row' \in [Object -> {"none", "pending", "failed"}]
    BY <1>3, RecordedType DEF AcksStopped
  <2> QED  BY <1>3, <2>1, <2>2, TroublesType DEF AcksStopped, ControlOK, Where, TypeOK
<1> QED  BY <1>1, <1>2, <1>3

\* Editors, operators, processes and other writers.
LEMMA OthersType ==
  ASSUME TypeOK,
         \/ \E o \in Object : Change(o) \/ OtherStarts(o)
         \/ \E w \in strays : Land(w)
         \/ Pause \/ (\E here \in BOOLEAN : Resume(here)) \/ Wake
         \/ Start \/ Crash \/ Stop
  PROVE  TypeOK'
<1>1. ASSUME NEW o \in Object, Change(o) PROVE TypeOK'
  <2>1. ver' \in [Object -> Version]
    BY <1>1, SchedulerAssumption DEF Change, TypeOK, Version
  <2> QED  BY <1>1, <2>1 DEF Change, TypeOK
<1>2. ASSUME NEW o \in Object, OtherStarts(o) PROVE TypeOK'
  <2>1. [o |-> o, v |-> ver[o]] \in Extract  BY DEF TypeOK, Extract
  <2> QED  BY <1>2, <2>1 DEF OtherStarts, TypeOK, nadaVars
<1>3. ASSUME NEW w \in strays, Land(w) PROVE TypeOK'
  <2>1. w.o \in Object /\ w.v \in Version  BY DEF TypeOK, Extract
  <2>2. idx' \in [Object -> Version]  BY <1>3, <2>1, WrittenType DEF Land
  <2> QED  BY <1>3, <2>2 DEF Land, TypeOK, nadaVars
<1>4. CASE Pause  BY <1>4 DEF Pause, TypeOK, nadaVars
<1>5. ASSUME NEW here \in BOOLEAN, Resume(here) PROVE TypeOK'
  <2>1. wake' \in BOOLEAN /\ manual' \in BOOLEAN
    BY <1>5 DEF Resume, TypeOK
  <2> QED  BY <1>5, <2>1 DEF Resume, TypeOK, nadaVars
<1>6. CASE Wake  BY <1>6 DEF Wake, TypeOK, nadaVars
<1>7. CASE Start  BY <1>7 DEF Start, TypeOK, nadaVars
<1>8. CASE Crash
  <2>1. idx' \in [Object -> Version]
    <3>1. CASE UNCHANGED idx  BY <3>1 DEF TypeOK
    <3>2. ASSUME NEW c \in cur, Written(c) PROVE idx' \in [Object -> Version]
      BY <3>2, WrittenType DEF TypeOK, Work
    <3> QED  BY <1>8, <3>1, <3>2 DEF Crash
  <2> QED  BY <1>8, <2>1, EmptyPass, TroublesType DEF Crash, Forget, TypeOK, nadaVars
<1>9. CASE Stop
  <2>1. {[o |-> c.o, v |-> c.v] : c \in cur} \subseteq Extract  BY DEF TypeOK, Work, Extract
  <2> QED  BY <1>9, <2>1, EmptyPass, TroublesType DEF Stop, Forget, TypeOK, nadaVars
<1> QED  BY <1>1, <1>2, <1>3, <1>4, <1>5, <1>6, <1>7, <1>8, <1>9

\* Every step keeps TypeOK.
LEMMA TypeNext == TypeOK /\ [Next]_vars => TypeOK'
<1> SUFFICES ASSUME TypeOK, [Next]_vars PROVE TypeOK'  OBVIOUS
<1>1. CASE Loop  BY <1>1, ListingType, ItemType, AcksType DEF Loop
<1>2. CASE Next /\ ~Loop  BY <1>2, OthersType DEF Next
<1>3. CASE UNCHANGED vars  BY <1>3 DEF vars, TypeOK
<1> QED  BY <1>1, <1>2, <1>3

\* The variables keep their types, whoever writes and whatever goes wrong.
THEOREM TypeCorrect == Spec => []TypeOK
  BY TypeInit, TypeNext, PTL DEF Spec

-----------------------------------------------------------------------------
(***************************************************************************)
(* The inductive invariant, for a scheduler that is the only writer. What  *)
(* carries AckedMeansCurrent is that every ack on its way, unsent ones     *)
(* included, names a version the index has reached; and what carries that  *)
(* is that no version still to be written (a row's own, a record's, that   *)
(* of the item at work) is behind the index or ahead of the catalog.       *)
(***************************************************************************)

OnlyWriter == ~Graceful /\ ~OtherJobs

\* The index is not ahead of the catalog.
IndexBehind == \A o \in Object : idx[o] <= ver[o]

\* An ack that says "indexed" is true, for the version it names.
AckTrue(a) == a.ok => a.changed <= idx[a.o]
AcksTrue == \A a \in pass.acks \cup unsent : AckTrue(a)

\* A row of the page is neither behind the index nor ahead of the catalog, it
\* is its object's only one, and its record is not older than it.
ItemsAhead ==
  \A i \in pass.items :
    /\ idx[i.o] <= i.changed /\ i.changed <= ver[i.o]
    /\ \A j \in pass.items : j.o = i.o => j = i
    /\ \A e \in pass.extracts : e.o = i.o => i.changed <= e.v /\ e.v <= ver[i.o]

\* So is the item at work, whose row is off the page.
WorkAhead ==
  /\ pc # "write" => cur = {}
  /\ \A c \in cur :
       /\ idx[c.o] <= c.v /\ c.changed <= c.v /\ c.v <= ver[c.o]
       /\ \A i \in pass.items : i.o # c.o

IInv ==
  /\ AckedMeansCurrent
  /\ strays = {}
  /\ IndexBehind
  /\ AcksTrue
  /\ ItemsAhead
  /\ WorkAhead

\* The invariant after a step that leaves the catalog alone, takes no item up
\* and fetches nothing: what has to be shown of the index, the rows and the acks.
LEMMA Keeps ==
  ASSUME TypeOK, TypeOK', IInv, UNCHANGED <<ver, strays>>,
         \A o \in Object : idx[o] <= idx'[o] /\ idx'[o] <= ver[o],
         \A o \in Object : row'[o] = "none" => idx'[o] = ver[o],
         \A i \in pass'.items : i \in pass.items /\ idx'[i.o] = idx[i.o],
         pass'.extracts \subseteq pass.extracts,
         \A a \in pass'.acks \cup unsent' :
            a \in pass.acks \cup unsent \/ (a.ok => a.changed <= idx'[a.o]),
         \A c \in cur' : c \in cur /\ idx'[c.o] = idx[c.o],
         pc' # "write" => cur' = {}
  PROVE  IInv'
<1>1. AckedMeansCurrent'  BY DEF AckedMeansCurrent
<1>2. strays' = {}  BY DEF IInv
<1>3. IndexBehind'  BY DEF IndexBehind
<1>4. AcksTrue'
  <2> SUFFICES ASSUME NEW a \in pass'.acks \cup unsent', a.ok PROVE a.changed <= idx'[a.o]
    BY DEF AcksTrue, AckTrue
  <2>1. a.o \in Object /\ a.changed \in Nat /\ idx[a.o] \in Nat /\ idx'[a.o] \in Nat
    BY DEF TypeOK, Pass, Ack, Version
  <2>2. CASE a \in pass.acks \cup unsent
    <3>1. a.changed <= idx[a.o]  BY <2>2 DEF IInv, AcksTrue, AckTrue
    <3>2. idx[a.o] <= idx'[a.o]  BY <2>1
    <3> QED  BY <2>1, <3>1, <3>2
  <2>3. CASE a.changed <= idx'[a.o]  BY <2>3
  <2> QED  BY <2>2, <2>3
<1>5. ItemsAhead'
  <2> SUFFICES ASSUME NEW i \in pass'.items
               PROVE  /\ idx'[i.o] <= i.changed /\ i.changed <= ver[i.o]
                      /\ \A j \in pass'.items : j.o = i.o => j = i
                      /\ \A e \in pass'.extracts : e.o = i.o => i.changed <= e.v /\ e.v <= ver[i.o]
    BY DEF ItemsAhead
  <2>1. i \in pass.items /\ idx'[i.o] = idx[i.o]  OBVIOUS
  <2> QED  BY <2>1 DEF IInv, ItemsAhead
<1>6. WorkAhead'
  <2> SUFFICES ASSUME NEW c \in cur'
               PROVE  /\ idx'[c.o] <= c.v /\ c.changed <= c.v /\ c.v <= ver[c.o]
                      /\ \A i \in pass'.items : i.o # c.o
    BY DEF WorkAhead
  <2>1. c \in cur /\ idx'[c.o] = idx[c.o]  OBVIOUS
  <2> QED  BY <2>1 DEF IInv, WorkAhead
<1> QED  BY <1>1, <1>2, <1>3, <1>4, <1>5, <1>6 DEF IInv

\* The same when the index and the rows stay as they are.
LEMMA KeepsQuietly ==
  ASSUME TypeOK, TypeOK', IInv, UNCHANGED <<ver, row, idx, strays>>,
         pass'.items \subseteq pass.items, pass'.extracts \subseteq pass.extracts,
         \A a \in pass'.acks \cup unsent' : a \in pass.acks \cup unsent \/ ~a.ok,
         cur' \subseteq cur, pc' # "write" => cur' = {}
  PROVE  IInv'
<1>1. \A o \in Object : idx[o] \in Nat  BY DEF TypeOK, Version
<1>2. \A o \in Object : idx[o] <= idx'[o] /\ idx'[o] <= ver[o]
  BY <1>1 DEF IInv, IndexBehind
<1>3. \A o \in Object : row'[o] = "none" => idx'[o] = ver[o]  BY DEF IInv, AckedMeansCurrent
<1> QED  BY <1>2, <1>3, Keeps

-----------------------------------------------------------------------------
(* Every step keeps the invariant.                                         *)

\* The empty system satisfies it.
LEMMA IInvInit == Init => IInv
<1> SUFFICES ASSUME Init PROVE IInv  OBVIOUS
<1> QED  BY EmptyPass DEF Init, IInv, AckedMeansCurrent, IndexBehind, AcksTrue, ItemsAhead, WorkAhead

\* A page's rows have their objects' present stamps.
LEMMA ListSound ==
  ASSUME TypeOK, TypeOK', IInv, NEW page \in SUBSET Object, List(page)
  PROVE  IInv'
<1> DEFINE p == [pass EXCEPT !.items = {[o |-> o, changed |-> ver[o]] : o \in page},
                             !.full = Cardinality(page) = Limit,
                             !.extracts = {}, !.prefailed = {}]
<1>0. cur = {}  BY DEF IInv, WorkAhead, List
<1>1. UNCHANGED <<ver, row, idx, strays, unsent, cur>>  BY DEF List, nadaVars
<1>2. CASE DrainOver(pause)
  <2>1. pass' = NoPass /\ pc' # "write"  BY <1>2, DrainOverControl DEF TypeOK
  <2> QED  BY <1>0, <1>1, <2>1, EmptyPass, KeepsQuietly
<1>3. CASE GoOn("fetch", p)
  <2>1. /\ p.items = {[o |-> o, changed |-> ver[o]] : o \in page}
        /\ p.extracts = {} /\ p.acks = pass.acks
    BY DEF TypeOK, Pass
  <2>2. pass' = p  BY <1>3 DEF GoOn
  <2> HIDE DEF p
  <2>3. ItemsAhead'
    <3> SUFFICES ASSUME NEW i \in p.items
                 PROVE  /\ idx[i.o] <= i.changed /\ i.changed <= ver[i.o]
                        /\ \A j \in p.items : j.o = i.o => j = i
      BY <1>1, <2>1, <2>2 DEF ItemsAhead
    <3>1. PICK o \in page : i = [o |-> o, changed |-> ver[o]]  BY <2>1
    <3>2. idx[o] <= ver[o] /\ ver[o] <= ver[o]  BY DEF IInv, IndexBehind, TypeOK, Version
    <3>3. \A j \in p.items : j.o = o => j = [o |-> o, changed |-> ver[o]]  BY <2>1
    <3> QED  BY <3>1, <3>2, <3>3
  <2>4. AcksTrue'  BY <1>1, <2>1, <2>2 DEF IInv, AcksTrue, AckTrue
  <2>5. WorkAhead'  BY <1>0, <1>1 DEF WorkAhead
  <2> QED  BY <1>1, <2>3, <2>4, <2>5 DEF IInv, AckedMeansCurrent, IndexBehind
<1> QED  BY <1>2, <1>3 DEF List

\* A record is at least as new as the row it is fetched for.
LEMMA FetchSound ==
  ASSUME TypeOK, TypeOK', IInv, NEW batch \in SUBSET {i.o : i \in ToFetch},
         NEW broken \in SUBSET batch, Fetch(batch, broken)
  PROVE  IInv'
<1> DEFINE gone == broken \cup {o \in batch : ver[o] \in Deletes}
           got == {[o |-> o, v |-> ver[o]] : o \in batch \ gone}
           p == [pass EXCEPT !.extracts = @ \cup got, !.prefailed = @ \cup gone]
<1>0. UNCHANGED <<ver, row, idx, strays, unsent, cur>>  BY DEF Fetch, nadaVars
<1>1. pass' = p /\ pc' = "fetch" /\ pc = "fetch"  BY DEF Fetch, GoOn
<1>2. \A e \in got : e.v = ver[e.o]  OBVIOUS
<1> HIDE DEF gone, got
<1>3. p.items = pass.items /\ p.extracts = pass.extracts \cup got /\ p.acks = pass.acks
  BY DEF TypeOK, Pass
<1> HIDE DEF p
<1>4. ItemsAhead'
  <2> SUFFICES ASSUME NEW i \in pass.items
               PROVE  /\ idx[i.o] <= i.changed /\ i.changed <= ver[i.o]
                      /\ \A j \in pass.items : j.o = i.o => j = i
                      /\ \A e \in pass.extracts \cup got :
                           e.o = i.o => i.changed <= e.v /\ e.v <= ver[i.o]
    BY <1>0, <1>1, <1>3 DEF ItemsAhead
  <2>1. ver[i.o] \in Nat  BY DEF TypeOK, Pass, Item, Version
  <2> QED  BY <1>2, <2>1 DEF IInv, ItemsAhead
<1>5. AcksTrue'  BY <1>0, <1>1, <1>3 DEF IInv, AcksTrue, AckTrue
<1>6. WorkAhead'  BY <1>0, <1>1, <1>3 DEF IInv, WorkAhead
<1> QED  BY <1>0, <1>4, <1>5, <1>6 DEF IInv, AckedMeansCurrent, IndexBehind

\* The version an item will write is its own or a later one.
LEMMA StartItemSound ==
  ASSUME TypeOK, TypeOK', IInv, NEW i \in pass.items, NEW v \in Version, StartItem(i, v)
  PROVE  IInv'
<1> DEFINE c == [o |-> i.o, changed |-> i.changed, v |-> v]
<1>0. i \in Item /\ i.o \in Object /\ i.changed \in Nat /\ ver[i.o] \in Nat /\ idx[i.o] \in Nat
  BY DEF TypeOK, Pass, Item, Version
<1>1. UNCHANGED <<ver, row, idx, strays, unsent>> /\ cur' = {c}  BY DEF StartItem, nadaVars
<1>2. pass' = Taken(i) /\ pc' = "write"  BY DEF StartItem, GoOn
<1>3. /\ pass'.items = pass.items \ {i} /\ pass'.extracts = pass.extracts
      /\ pass'.acks = pass.acks
  BY <1>0, <1>2, TakenType
<1>4. ItemsAhead'  BY <1>1, <1>3 DEF IInv, ItemsAhead
<1>5. AcksTrue'  BY <1>1, <1>3 DEF IInv, AcksTrue, AckTrue
<1>6. WorkAhead'
  <2>1. idx[i.o] <= i.changed /\ i.changed <= ver[i.o]  BY DEF IInv, ItemsAhead
  <2>2. i.changed <= v /\ v <= ver[i.o]
    <3>1. CASE v = i.changed  BY <1>0, <2>1, <3>1
    <3>2. CASE v = ver[i.o]  BY <1>0, <2>1, <3>2
    <3>3. ASSUME NEW e \in pass.extracts, e.o = i.o, v = e.v PROVE i.changed <= v /\ v <= ver[i.o]
      BY <3>3 DEF IInv, ItemsAhead
    <3> QED  BY <3>1, <3>2, <3>3 DEF StartItem, Versions
  <2>3. idx[i.o] <= v  BY <1>0, <2>1, <2>2 DEF Version
  <2>4. \A j \in pass'.items : j.o # i.o  BY <1>3 DEF IInv, ItemsAhead
  <2> QED  BY <1>1, <1>2, <2>2, <2>3, <2>4 DEF WorkAhead
<1> QED  BY <1>1, <1>4, <1>5, <1>6 DEF IInv, AckedMeansCurrent, IndexBehind

\* An item at work takes its object's entry forward, or leaves it, and touches
\* no other.
LEMMA WriteForward ==
  ASSUME TypeOK, IInv, UNCHANGED ver, NEW c \in cur, Written(c) \/ UNCHANGED idx
  PROVE  /\ \A o \in Object : idx[o] <= idx'[o] /\ idx'[o] <= ver[o]
         /\ \A o \in Object : row[o] = "none" => idx'[o] = ver[o]
         /\ \A o \in Object : o # c.o => idx'[o] = idx[o]
         /\ Written(c) => idx'[c.o] = c.v
<1>1. c.o \in Object /\ \A o \in Object : idx[o] \in Nat /\ ver[o] \in Nat
  BY DEF TypeOK, Work, Version
<1>2. idx[c.o] <= c.v /\ c.v <= ver[c.o] /\ c.v \in Nat
  BY DEF IInv, WorkAhead, TypeOK, Work, Version
<1>3. \A o \in Object : idx'[o] = idx[o] \/ (o = c.o /\ idx'[o] = c.v)
  BY <1>1 DEF Written, TypeOK
<1>4. \A o \in Object : idx[o] <= ver[o] /\ (row[o] = "none" => idx[o] = ver[o])
  BY DEF IInv, IndexBehind, AckedMeansCurrent
<1>5. \A o \in Object : idx[o] <= idx'[o] /\ idx'[o] <= ver[o]  BY <1>1, <1>2, <1>3, <1>4
<1>6. \A o \in Object : row[o] = "none" => idx'[o] = ver[o]
  <2> SUFFICES ASSUME NEW o \in Object, row[o] = "none" PROVE idx'[o] = ver[o]  OBVIOUS
  <2>1. idx[o] = ver[o]  BY <1>4
  <2>2. idx'[o] \in Nat  BY <1>1, <1>2, <1>3
  <2> QED  BY <1>1, <1>5, <2>1, <2>2
<1>7. Written(c) => idx'[c.o] = c.v  BY <1>1 DEF Written, TypeOK
<1> QED  BY <1>1, <1>3, <1>5, <1>6, <1>7

\* An item ends: what its ack says is in the index.
LEMMA ItemSound ==
  ASSUME TypeOK, TypeOK', IInv, NEW c \in cur,
         \/ ItemDone(c) \/ ItemFails(c)
         \/ \E reason \in Reason : ItemTrouble(c, reason)
  PROVE  IInv'
<1>0. UNCHANGED <<ver, row, strays, unsent>> /\ cur' = {}
  BY DEF ItemDone, ItemFails, ItemTrouble, nadaVars
<1>1. Written(c) \/ UNCHANGED idx  BY DEF ItemDone, ItemFails, ItemTrouble
<1>2. /\ \A o \in Object : idx[o] <= idx'[o] /\ idx'[o] <= ver[o]
      /\ \A o \in Object : row[o] = "none" => idx'[o] = ver[o]
      /\ \A o \in Object : o # c.o => idx'[o] = idx[o]
      /\ Written(c) => idx'[c.o] = c.v
  BY <1>0, <1>1, WriteForward
<1>3. c.o \in Object /\ c.changed \in Version /\ c.changed <= c.v  BY DEF TypeOK, Work, IInv, WorkAhead
<1>4. \A i \in pass.items : i.o \in Object /\ idx'[i.o] = idx[i.o]
  BY <1>2 DEF TypeOK, Pass, Item, IInv, WorkAhead
<1>5. /\ pc' # "write"
      /\ pass'.items \subseteq pass.items /\ pass'.extracts \subseteq pass.extracts
      /\ \A a \in pass'.acks : a \in pass.acks \/ (a.ok => a.changed <= idx'[a.o])
  <2>1. ASSUME NEW ok \in BOOLEAN, ok => Written(c), Proceed(Acked(pass, c, ok), pause)
        PROVE  <1>5
    <3> DEFINE a == [o |-> c.o, changed |-> c.changed, ok |-> ok]
               p == Acked(pass, c, ok)
    <3>1. p \in Pass /\ p.acks = pass.acks \cup {a} /\ p.items = pass.items /\ p.extracts = pass.extracts
      BY <1>3, AckedType DEF TypeOK
    <3>2. a.ok => a.changed <= idx'[a.o]  BY <1>2, <1>3, <2>1
    <3> HIDE DEF a, p
    <3>3. pass' \in {p, NoPass} /\ pc' # "write"
      BY <2>1, <3>1, ProceedControl DEF TypeOK, p
    <3> QED  BY <3>1, <3>2, <3>3, EmptyPass
  <2>2. ASSUME NEW reason \in Reason, Proceed([pass EXCEPT !.stopped = TRUE], reason)
        PROVE  <1>5
    <3>1. pass' \in {[pass EXCEPT !.stopped = TRUE], NoPass} /\ pc' # "write"
      BY <2>2, StoppedType, ProceedControl
    <3> QED  BY <3>1, StoppedType, EmptyPass
  <2>3. CASE ItemDone(c)  BY <2>1, <2>3 DEF ItemDone
  <2>4. CASE ItemFails(c)  BY <2>1, <2>4 DEF ItemFails
  <2>5. CASE \E reason \in Reason : ItemTrouble(c, reason)  BY <2>2, <2>5 DEF ItemTrouble
  <2> QED  BY <2>3, <2>4, <2>5
<1> QED  BY <1>0, <1>2, <1>4, <1>5, Keeps

\* A row without a record is acked as failed, and an item stays when the page is
\* paused.
LEMMA NoItemSound ==
  ASSUME TypeOK, TypeOK', IInv, ItemPaused \/ \E i \in pass.items : FailItem(i)
  PROVE  IInv'
<1>0. pc # "write" /\ cur = {}  BY DEF IInv, WorkAhead, ItemPaused, FailItem
<1>1. UNCHANGED <<ver, row, idx, strays, unsent, cur>>  BY DEF ItemPaused, FailItem, nadaVars
<1>2. CASE ItemPaused
  <2>1. pass' \in {[pass EXCEPT !.stopped = TRUE], NoPass} /\ pc' # "write"
    BY <1>2, StoppedType, ProceedControl DEF ItemPaused, TypeOK
  <2> QED  BY <1>0, <1>1, <2>1, StoppedType, EmptyPass, KeepsQuietly
<1>3. ASSUME NEW i \in pass.items, FailItem(i) PROVE IInv'
  <2> DEFINE p == Acked(Taken(i), i, FALSE)
             a == [o |-> i.o, changed |-> i.changed, ok |-> FALSE]
  <2>1. i \in Item /\ i.o \in Object /\ i.changed \in Version  BY DEF TypeOK, Pass, Item
  <2>2. /\ p \in Pass /\ p.items = pass.items \ {i}
        /\ p.extracts = pass.extracts /\ p.acks = pass.acks \cup {a}
    <3> DEFINE q == Taken(i)
    <3>1. q \in Pass /\ q.items = pass.items \ {i} /\ q.extracts = pass.extracts /\ q.acks = pass.acks
      BY <2>1, TakenType
    <3> HIDE DEF q
    <3>2. /\ Acked(q, i, FALSE) \in Pass /\ Acked(q, i, FALSE).acks = q.acks \cup {a}
          /\ Acked(q, i, FALSE).items = q.items /\ Acked(q, i, FALSE).extracts = q.extracts
      BY <2>1, <3>1, AckedType
    <3>3. p = Acked(q, i, FALSE)  BY DEF q
    <3> HIDE DEF p
    <3> QED  BY <3>1, <3>2, <3>3
  <2>3. ~a.ok  OBVIOUS
  <2>4. Proceed(p, pause)  BY <1>3 DEF FailItem
  <2> HIDE DEF p, a
  <2>5. pass' \in {p, NoPass} /\ pc' # "write"  BY <2>2, <2>4, ProceedControl DEF TypeOK
  <2> QED  BY <1>0, <1>1, <2>2, <2>3, <2>5, EmptyPass, KeepsQuietly
<1> QED  BY <1>2, <1>3

\* An "indexed" ack with a row's present stamp is right: the index has that
\* version.
LEMMA CurrentSound ==
  ASSUME TypeOK, IInv, NEW acks \in SUBSET Sent, NEW o \in Current(acks, TRUE)
  PROVE  idx[o] = ver[o]
<1> DEFINE a == [o |-> o, changed |-> ver[o], ok |-> TRUE]
<1>1. o \in Object /\ a \in Sent  BY DEF Current
<1>2. a \in pass.acks \cup unsent  BY <1>1 DEF Sent
<1>3. ver[o] <= idx[o]  BY <1>2 DEF IInv, AcksTrue, AckTrue
<1>4. idx[o] <= ver[o]  BY <1>1 DEF IInv, IndexBehind
<1> QED  BY <1>1, <1>3, <1>4 DEF TypeOK, Version

\* Acks: what is settled as indexed has the catalog's present version.
LEMMA RecordedSound ==
  ASSUME TypeOK, IInv, NEW acks \in SUBSET Sent, Recorded(acks)
  PROVE  \A o \in Object : row'[o] = "none" => idx[o] = ver[o]
<1> SUFFICES ASSUME NEW o \in Object, row'[o] = "none" PROVE idx[o] = ver[o]  OBVIOUS
<1>1. CASE o \in Current(acks, TRUE)  BY <1>1, CurrentSound
<1>2. CASE o \notin Current(acks, TRUE)
  <2>1. row[o] = "none"  BY <1>2 DEF Recorded
  <2> QED  BY <2>1 DEF IInv, AckedMeansCurrent
<1> QED  BY <1>1, <1>2

\* However an ack request ends, the acks that are left are those there were.
LEMMA AcksSound ==
  ASSUME TypeOK, TypeOK', IInv,
         \/ \E odd \in SUBSET Sent : AcksTaken(odd)
         \/ \E landed \in SUBSET Sent : AcksFail(landed)
         \/ \E reason \in Reason : \E landed \in SUBSET Sent : AcksStopped(reason, landed)
  PROVE  IInv'
<1>0. Sent \subseteq pass.acks \cup unsent  BY DEF Sent
<1>1. UNCHANGED <<ver, idx, strays, cur>>  BY DEF AcksTaken, AcksFail, AcksStopped
<1>2. cur = {}  BY DEF IInv, WorkAhead, AcksTaken, AcksFail, AcksStopped, Sending
<1>3. \A o \in Object : row'[o] = "none" => idx'[o] = ver[o]
  BY <1>1, RecordedSound DEF AcksTaken, AcksFail, AcksStopped
<1>4. \A o \in Object : idx[o] <= idx'[o] /\ idx'[o] <= ver[o]
  BY <1>1 DEF TypeOK, Version, IInv, IndexBehind
<1>5. /\ pass'.items \subseteq pass.items /\ pass'.extracts \subseteq pass.extracts
      /\ pass'.acks = {} /\ unsent' \subseteq pass.acks \cup unsent
      /\ pc' # "write"
  <2>1. ASSUME NEW skip \in SUBSET Object, AcksDone(skip) PROVE <1>5
    BY <2>1, AcksDoneControl
  <2>2. ASSUME NEW reason \in Reason, AcksKept(reason) PROVE <1>5
    BY <1>0, <2>2, DrainOverControl, EmptyPass DEF AcksKept
  <2>3. ASSUME NEW odd \in SUBSET Sent, AcksTaken(odd) PROVE <1>5
    BY <2>1, <2>3, SentType DEF AcksTaken
  <2>4. ASSUME NEW landed \in SUBSET Sent, AcksFail(landed) PROVE <1>5
    <3>1. {a.o : a \in Sent} \subseteq Object  BY SentType
    <3>2. AcksKept("acks_failing") \/ AcksDone({a.o : a \in Sent})  BY <2>4 DEF AcksFail
    <3>3. "acks_failing" \in Reason  BY DEF Reason
    <3> QED  BY <2>1, <2>2, <3>1, <3>2, <3>3
  <2>5. ASSUME NEW reason \in Reason, NEW landed \in SUBSET Sent, AcksStopped(reason, landed)
        PROVE  <1>5
    BY <2>2, <2>5 DEF AcksStopped
  <2> QED  BY <2>3, <2>4, <2>5
<1> QED  BY <1>1, <1>2, <1>3, <1>4, <1>5, Keeps

\* A change makes the row pending and the catalog newer.
LEMMA ChangeSound ==
  ASSUME TypeOK, TypeOK', IInv, NEW o \in Object, Change(o)
  PROVE  IInv'
<1>1. UNCHANGED <<idx, strays, pc, unsent, pass, cur>>  BY DEF Change
<1>2. \A q \in Object : ver[q] \in Nat /\ idx[q] \in Nat  BY DEF TypeOK, Version
<1>3. \A q \in Object : ver[q] <= ver'[q]  BY <1>2 DEF Change, TypeOK
<1>4. \A q \in Object : row'[q] = "none" => row[q] = "none" /\ ver'[q] = ver[q]
  BY DEF Change, TypeOK
<1>5. AckedMeansCurrent'  BY <1>1, <1>4 DEF IInv, AckedMeansCurrent
<1>6. IndexBehind'
  <2> SUFFICES ASSUME NEW q \in Object PROVE idx[q] <= ver'[q]  BY <1>1 DEF IndexBehind
  <2>1. ver'[q] \in Nat  BY DEF TypeOK, Version
  <2> QED  BY <1>2, <1>3, <2>1 DEF IInv, IndexBehind
<1>7. AcksTrue'  BY <1>1 DEF IInv, AcksTrue, AckTrue
<1>8. ItemsAhead'
  <2> SUFFICES ASSUME NEW i \in pass.items
               PROVE  /\ idx[i.o] <= i.changed /\ i.changed <= ver'[i.o]
                      /\ \A j \in pass.items : j.o = i.o => j = i
                      /\ \A e \in pass.extracts : e.o = i.o => i.changed <= e.v /\ e.v <= ver'[i.o]
    BY <1>1 DEF ItemsAhead
  <2>1. i.o \in Object /\ i.changed \in Nat /\ \A e \in pass.extracts : e.v \in Nat
    BY DEF TypeOK, Pass, Item, Extract, Version
  <2>2. ver[i.o] \in Nat /\ ver'[i.o] \in Nat /\ ver[i.o] <= ver'[i.o]
    BY <1>2, <1>3, <2>1 DEF TypeOK, Version
  <2> QED  BY <2>1, <2>2 DEF IInv, ItemsAhead
<1>9. WorkAhead'
  <2> SUFFICES ASSUME NEW c \in cur PROVE c.v <= ver'[c.o]  BY <1>1 DEF IInv, WorkAhead
  <2>1. c.o \in Object /\ c.v \in Nat  BY DEF TypeOK, Work, Version
  <2>2. ver[c.o] \in Nat /\ ver'[c.o] \in Nat /\ ver[c.o] <= ver'[c.o]
    BY <1>2, <1>3, <2>1 DEF TypeOK, Version
  <2> QED  BY <2>1, <2>2 DEF IInv, WorkAhead
<1> QED  BY <1>1, <1>5, <1>6, <1>7, <1>8, <1>9 DEF IInv

\* A crash forgets all that was under way; what it wrote was not behind.
LEMMA CrashSound ==
  ASSUME TypeOK, TypeOK', IInv, Crash
  PROVE  IInv'
<1>1. UNCHANGED <<ver, row, strays>> /\ Forget  BY DEF Crash, nadaVars
<1>2. /\ \A o \in Object : idx[o] <= idx'[o] /\ idx'[o] <= ver[o]
      /\ \A o \in Object : row[o] = "none" => idx'[o] = ver[o]
  <2>1. CASE UNCHANGED idx
    BY <2>1 DEF TypeOK, Version, IInv, IndexBehind, AckedMeansCurrent
  <2>2. ASSUME NEW c \in cur, Written(c) PROVE <1>2  BY <1>1, <2>2, WriteForward
  <2> QED  BY <2>1, <2>2 DEF Crash
<1>3. pass' = NoPass /\ unsent' = {} /\ cur' = {}  BY <1>1 DEF Forget
<1> QED  BY <1>1, <1>2, <1>3, EmptyPass, Keeps

\* Steps that only move the loop on, or an operator's.
LEMMA QuietSound ==
  ASSUME TypeOK, TypeOK', IInv,
         \/ Top \/ WaitOver \/ ListPaused \/ Fetched \/ EmbeddingFails \/ Restart
         \/ \E reason \in Reason : ListFails(reason) \/ FetchFails(reason)
         \/ Pause \/ (\E here \in BOOLEAN : Resume(here)) \/ Wake \/ Start
         \/ UNCHANGED vars
  PROVE  IInv'
<1>1. UNCHANGED <<ver, row, idx, strays, unsent, cur>>
  BY DEF Top, WaitOver, ListPaused, Fetched, EmbeddingFails, Restart, ListFails, FetchFails,
         Pause, Resume, Wake, Start, vars, nadaVars
<1>2. pass' \in {pass, NoPass}
  <2>1. CASE Top \/ WaitOver  BY <2>1 DEF Top, WaitOver, ToWork
  <2>2. CASE ListPaused \/ \E reason \in Reason : ListFails(reason) \/ FetchFails(reason)
    BY <2>2 DEF ListPaused, ListFails, FetchFails, DrainOver
  <2>3. CASE Fetched \/ EmbeddingFails \/ Restart
    BY <2>3 DEF Fetched, GoOn, EmbeddingFails, Restart
  <2>4. CASE Pause \/ (\E here \in BOOLEAN : Resume(here)) \/ Wake \/ Start \/ UNCHANGED vars
    BY <2>4 DEF Pause, Resume, Wake, Start, vars
  <2> QED  BY <2>1, <2>2, <2>3, <2>4
<1>3. pc' # "write" => cur' = {}
  <2>1. CASE pc = "write"
    <3>1. UNCHANGED pc
      BY <2>1 DEF Top, WaitOver, ListPaused, Fetched, EmbeddingFails, Restart, ListFails,
                  FetchFails, Pause, Resume, Wake, Start, vars
    <3> QED  BY <2>1, <3>1
  <2>2. CASE pc # "write"  BY <1>1, <2>2 DEF IInv, WorkAhead
  <2> QED  BY <2>1, <2>2
<1> QED  BY <1>1, <1>2, <1>3, EmptyPass, KeepsQuietly

\* One case per action.
LEMMA IInvNext == ASSUME OnlyWriter PROVE TypeOK /\ IInv /\ [Next]_vars => IInv'
<1> SUFFICES ASSUME TypeOK, IInv, [Next]_vars PROVE IInv'  OBVIOUS
<1>0. TypeOK'  BY TypeNext
<1>1. CASE Loop
  BY <1>0, <1>1, ListSound, FetchSound, StartItemSound, ItemSound, NoItemSound, AcksSound,
     QuietSound DEF Loop
<1>2. ASSUME NEW o \in Object, Change(o) PROVE IInv'  BY <1>0, <1>2, ChangeSound
<1>3. ASSUME NEW o \in Object PROVE ~OtherStarts(o)  BY DEF OtherStarts, OnlyWriter
<1>4. ~Stop  BY DEF Stop, OnlyWriter
<1>5. strays = {}  BY DEF IInv
<1>6. CASE Crash  BY <1>0, <1>6, CrashSound
<1>7. CASE \/ Pause \/ (\E here \in BOOLEAN : Resume(here)) \/ Wake \/ Start
           \/ UNCHANGED vars
  BY <1>0, <1>7, QuietSound
<1> QED  BY <1>1, <1>2, <1>3, <1>4, <1>5, <1>6, <1>7 DEF Next

\* The invariant holds as long as the scheduler is the only writer.
LEMMA Invariance == ASSUME OnlyWriter PROVE Spec => []IInv
  BY TypeInit, TypeNext, IInvInit, IInvNext, PTL DEF Spec

\* A row is off the queue only when the index has what the catalog has, for any
\* number of objects, changes, lost answers, pauses and crashes.
THEOREM NoUpdateLost == ASSUME OnlyWriter PROVE Spec => []AckedMeansCurrent
<1>1. IInv => AckedMeansCurrent  BY DEF IInv
<1> QED  BY <1>1, Invariance, PTL

-----------------------------------------------------------------------------
(* The refinement.                                                         *)

\* What an item at work does to the index is Apply, or cannot be seen.
LEMMA WriteApplies ==
  ASSUME TypeOK, IInv, NEW c \in cur, Written(c), UNCHANGED <<ver, row>>
  PROVE  Sync!Next \/ UNCHANGED <<ver, row, idx>>
<1>1. c.o \in Object /\ c.v \in Nat /\ idx[c.o] \in Nat /\ ver[c.o] \in Nat
  BY DEF TypeOK, Work, Version
<1>2. idx[c.o] <= c.v /\ c.v <= ver[c.o]  BY DEF IInv, WorkAhead
<1>3. CASE c.v = idx[c.o]
  <2>1. idx' = idx  BY <1>3 DEF Written, TypeOK
  <2> QED  BY <2>1
<1>4. CASE c.v # idx[c.o]
  <2>1. c.v \in idx[c.o] + 1 .. ver[c.o]  BY <1>1, <1>2, <1>4
  <2>2. Sync!Apply(c.o)  BY <2>1 DEF Sync!Apply, Written
  <2> QED  BY <1>1, <2>2 DEF Sync!Next
<1> QED  BY <1>3, <1>4

\* What NADA records of the acks is Settle.
LEMMA RecordedSettles ==
  ASSUME TypeOK, IInv, NEW acks \in SUBSET Sent, Recorded(acks), UNCHANGED <<ver, idx>>
  PROVE  Sync!Next
<1> DEFINE synced == Current(acks, TRUE)
           refused == Current(acks, FALSE)
<1>1. synced \in SUBSET Object /\ refused \in SUBSET Object  BY DEF Current
<1>2. \A o \in refused : row[o] # "none"  BY DEF Current
<1>3. \A o \in synced : idx[o] = ver[o]  BY CurrentSound
<1>4. row' = [o \in Object |-> IF o \in synced THEN "none"
                               ELSE IF o \in refused THEN "failed" ELSE row[o]]
  BY DEF Recorded
<1> HIDE DEF synced, refused
<1>5. Sync!Settle(synced, refused)  BY <1>2, <1>3, <1>4 DEF Sync!Settle
<1> QED  BY <1>1, <1>5 DEF Sync!Next

\* Every step is one of IndexSync's, or cannot be seen.
LEMMA StepMaps ==
  ASSUME OnlyWriter, TypeOK, IInv, [Next]_vars
  PROVE  Sync!Next \/ UNCHANGED <<ver, row, idx>>
<1> DEFINE Seen == Sync!Next
           Unseen == UNCHANGED <<ver, row, idx>>
<1>1. ASSUME \/ Top \/ WaitOver \/ ListPaused \/ Fetched \/ EmbeddingFails \/ Restart
             \/ \E reason \in Reason : ListFails(reason) \/ FetchFails(reason)
             \/ \E page \in SUBSET Object : List(page)
             \/ \E batch \in SUBSET {i.o : i \in ToFetch} :
                  \E broken \in SUBSET batch : Fetch(batch, broken)
             \/ ItemPaused
             \/ \E i \in pass.items : FailItem(i) \/ \E v \in Version : StartItem(i, v)
             \/ Pause \/ (\E here \in BOOLEAN : Resume(here)) \/ Wake \/ Start
             \/ UNCHANGED vars
      PROVE  Unseen
  BY <1>1 DEF Top, WaitOver, ListPaused, Fetched, EmbeddingFails, Restart, ListFails,
              FetchFails, List, Fetch, ItemPaused, FailItem, StartItem, Pause, Resume, Wake,
              Start, vars, nadaVars
<1>2. ASSUME NEW c \in cur, \/ ItemDone(c) \/ ItemFails(c)
                            \/ \E reason \in Reason : ItemTrouble(c, reason)
      PROVE  Seen \/ Unseen
  <2>1. UNCHANGED <<ver, row>> /\ (Written(c) \/ UNCHANGED idx)
    BY <1>2 DEF ItemDone, ItemFails, ItemTrouble, nadaVars
  <2> QED  BY <2>1, WriteApplies
<1>3. ASSUME Crash PROVE Seen \/ Unseen
  <2>1. UNCHANGED <<ver, row>> /\ (UNCHANGED idx \/ \E c \in cur : Written(c))
    BY <1>3 DEF Crash, nadaVars
  <2> QED  BY <2>1, WriteApplies
<1>4. ASSUME \/ \E odd \in SUBSET Sent : AcksTaken(odd)
             \/ \E landed \in SUBSET Sent : AcksFail(landed)
             \/ \E reason \in Reason : \E landed \in SUBSET Sent : AcksStopped(reason, landed)
      PROVE  Seen
  <2>1. UNCHANGED <<ver, idx>> /\ \E acks \in SUBSET Sent : Recorded(acks)
    BY <1>4 DEF AcksTaken, AcksFail, AcksStopped
  <2> QED  BY <2>1, RecordedSettles
<1>5. ASSUME NEW o \in Object, Change(o) PROVE Seen
  BY <1>5 DEF Change, Sync!Next, Sync!Change
<1>6. ASSUME NEW o \in Object PROVE ~OtherStarts(o)  BY DEF OtherStarts, OnlyWriter
<1>7. ~Stop  BY DEF Stop, OnlyWriter
<1>8. strays = {}  BY DEF IInv
<1> HIDE DEF Seen, Unseen
<1>9. Seen \/ Unseen
  <2>1. CASE Loop
    <3>1. ASSUME NEW c \in cur, ItemDone(c) \/ ItemFails(c) PROVE Seen \/ Unseen  BY <1>2, <3>1
    <3>2. ASSUME NEW reason \in Reason, NEW c \in cur, ItemTrouble(c, reason) PROVE Seen \/ Unseen
      BY <1>2, <3>2
    <3>3. ASSUME NEW reason \in Reason, NEW landed \in SUBSET Sent, AcksStopped(reason, landed)
          PROVE  Seen
      BY <1>4, <3>3
    <3>4. ASSUME NEW reason \in Reason, ListFails(reason) \/ FetchFails(reason) PROVE Unseen
      BY <1>1, <3>4
    <3>5. ASSUME \/ \E odd \in SUBSET Sent : AcksTaken(odd)
                 \/ \E landed \in SUBSET Sent : AcksFail(landed)
          PROVE  Seen
      BY <1>4, <3>5
    <3>6. ASSUME \/ Top \/ WaitOver \/ ListPaused \/ Fetched \/ EmbeddingFails \/ Restart
                 \/ \E page \in SUBSET Object : List(page)
                 \/ \E batch \in SUBSET {i.o : i \in ToFetch} :
                      \E broken \in SUBSET batch : Fetch(batch, broken)
                 \/ ItemPaused
                 \/ \E i \in pass.items : FailItem(i) \/ \E v \in Version : StartItem(i, v)
          PROVE  Unseen
      BY <1>1, <3>6
    <3> QED  BY <2>1, <3>1, <3>2, <3>3, <3>4, <3>5, <3>6 DEF Loop
  <2>2. CASE \E o \in Object : Change(o) \/ OtherStarts(o)  BY <1>5, <1>6, <2>2
  <2>3. CASE Pause \/ (\E here \in BOOLEAN : Resume(here)) \/ Wake \/ Start  BY <1>1, <2>3
  <2>4. CASE Crash  BY <1>3, <2>4
  <2>5. CASE UNCHANGED vars  BY <1>1, <2>5
  <2> QED  BY <1>7, <1>8, <2>1, <2>2, <2>3, <2>4, <2>5 DEF Next
<1> QED  BY <1>9 DEF Seen, Unseen

\* The scheduler implements IndexSync: the index only moves forward, and no row
\* leaves the queue before the index has what the catalog has.
THEOREM ImplementsIndexSync == ASSUME OnlyWriter PROVE Spec => IsIndexSync
<1>1. Init => Sync!Init  BY DEF Init, Sync!Init
<1>2. TypeOK /\ IInv /\ [Next]_vars => [Sync!Next]_(Sync!vars)
  BY StepMaps DEF Sync!vars
<1> QED  BY <1>1, <1>2, Invariance, TypeCorrect, PTL DEF Spec, IsIndexSync, Sync!Spec

-----------------------------------------------------------------------------
(* The order of the work. *)

\* Where the loop goes when a pass is over: nowhere it works.
LEMMA DrainOverWhere ==
  ASSUME NEW STATE p, DrainOver(p)
  PROVE  pass' = NoPass /\ pc' \in {"off", "wait", "top"}
  BY DEF DrainOver, StartWait

\* After an item: the pass is over, its acks are sent, or the next item has its turn.
LEMMA ProceedWhere ==
  ASSUME NEW STATE p, NEW STATE r, Proceed(p, r)
  PROVE  \/ pass' = NoPass /\ pc' \in {"off", "wait", "top"}
         \/ pass' = p /\ pc' = "acks" /\ p.acks # {}
         \/ pass' = p /\ pc' = "item"
<1>1. CASE DrainOver(r)  BY <1>1, DrainOverWhere
<1>2. CASE ~DrainOver(r)  BY <1>2 DEF Proceed
<1> QED  BY <1>1, <1>2

-----------------------------------------------------------------------------
(* Acks first.                                                              *)

Working == {"list", "fetch", "item", "write", "acks"}

\* Acks are kept whenever the breaker has tripped, and while acks are kept the loop does
\* not work.
AcksFirst ==
  /\ pc = "acks" => pass.acks # {}
  /\ enabled => /\ pc = "resend" => unsent # {}
                /\ unsent = {} => fails < AckLimit
                /\ pc \in Working => unsent = {}

LEMMA AcksFirstInit == Init => AcksFirst
  BY SchedulerAssumption DEF Init, AcksFirst, Working

\* Steps that leave the acks alone: the loop works on, stops working, or begins to work
\* where none are kept.
LEMMA AcksFirstMoves ==
  ASSUME AcksFirst, UNCHANGED <<enabled, unsent, fails>>,
         pc' = "acks" => pass'.acks # {},
         enabled => \/ pc' \notin Working \cup {"resend"}
                    \/ pc \in Working /\ pc' \in Working
                    \/ pc' = (IF unsent # {} THEN "resend" ELSE "list")
                    \/ pc' = pc
  PROVE  AcksFirst'
  BY DEF AcksFirst, Working

\* Acks are sent: those that fail the breaker are kept, otherwise none are.
LEMMA AcksFirstSends ==
  ASSUME TypeOK, TypeOK', AcksFirst, Sending, UNCHANGED enabled,
         \/ fails' < AckLimit /\ \E skip \in SUBSET Object : AcksDone(skip)
         \/ \E reason \in Reason : AcksKept(reason)
  PROVE  AcksFirst'
<1>1. CASE fails' < AckLimit /\ \E skip \in SUBSET Object : AcksDone(skip)
  <2>1. PICK skip \in SUBSET Object : AcksDone(skip)  BY <1>1
  <2>2. CASE pc = "resend"  BY <1>1, <2>1, <2>2 DEF AcksDone, GoOn, AcksFirst, Working
  <2>3. CASE pc = "acks"
    <3>1. unsent' = unsent /\ pc' # "acks" /\ pc' # "resend"
      BY <2>1, <2>3, DrainOverWhere DEF AcksDone, GoOn
    <3> QED  BY <1>1, <2>3, <3>1 DEF AcksFirst, Working
  <2> QED  BY <2>2, <2>3 DEF Sending
<1>2. ASSUME NEW reason \in Reason, AcksKept(reason) PROVE AcksFirst'
  <2>1. unsent' = Sent /\ pc' \in {"off", "wait", "top"}  BY <1>2, DrainOverWhere DEF AcksKept
  <2>2. enabled => Sent # {}  BY DEF Sending, Sent, AcksFirst
  <2> QED  BY <2>1, <2>2 DEF AcksFirst, Working
<1> QED  BY <1>1, <1>2

LEMMA AcksFirstNext == TypeOK /\ AcksFirst /\ [Next]_vars => AcksFirst'
<1> SUFFICES ASSUME TypeOK, AcksFirst, [Next]_vars PROVE AcksFirst'  OBVIOUS
<1>0. TypeOK'  BY TypeNext
<1>1. CASE Top \/ WaitOver
  <2>1. pc' = "acks" => FALSE  BY <1>1 DEF Top, WaitOver, StartWait, ToWork
  <2>2. \/ pc' \notin Working \cup {"resend"}
        \/ pc' = (IF unsent # {} THEN "resend" ELSE "list")
    BY <1>1 DEF Top, WaitOver, StartWait, ToWork, Working
  <2>3. UNCHANGED <<enabled, unsent, fails>>  BY <1>1 DEF Top, WaitOver, nadaVars
  <2> QED  BY <2>1, <2>2, <2>3, AcksFirstMoves
<1>2. ASSUME NEW STATE r, DrainOver(r), UNCHANGED <<enabled, unsent, fails>> PROVE AcksFirst'
  BY <1>2, DrainOverWhere, AcksFirstMoves DEF Working
<1>3. CASE ListPaused \/ \E reason \in Reason : ListFails(reason) \/ FetchFails(reason)
  BY <1>2, <1>3 DEF ListPaused, ListFails, FetchFails, nadaVars
<1>4. ASSUME NEW page \in SUBSET Object, List(page) PROVE AcksFirst'
  <2>1. UNCHANGED <<enabled, unsent, fails>> /\ pc = "list"  BY <1>4 DEF List, nadaVars
  <2>2. DrainOver(pause) \/ pc' = "fetch"  BY <1>4 DEF List, GoOn
  <2> QED  BY <1>2, <2>1, <2>2, AcksFirstMoves DEF Working
<1>5. CASE \/ \E batch \in SUBSET {i.o : i \in ToFetch} : \E broken \in SUBSET batch : Fetch(batch, broken)
           \/ Fetched \/ \E i \in pass.items : \E v \in Version : StartItem(i, v)
  <2>1. UNCHANGED <<enabled, unsent, fails>> /\ pc \in Working /\ pc' \in {"fetch", "item", "write"}
    BY <1>5 DEF Fetch, Fetched, StartItem, GoOn, nadaVars, Working
  <2> QED  BY <2>1, AcksFirstMoves DEF Working
<1>6. CASE EmbeddingFails \/ Restart
  <2>1. UNCHANGED <<enabled, unsent, fails>> /\ pc' \in {"crashed", "off", "top"}
    BY <1>6 DEF EmbeddingFails, Restart, nadaVars
  <2> QED  BY <2>1, AcksFirstMoves DEF Working
<1>7. ASSUME NEW STATE p, NEW STATE r, pc \in {"item", "write"}, Proceed(p, r), UNCHANGED <<enabled, unsent, fails>>
      PROVE  AcksFirst'
  BY <1>7, ProceedWhere, AcksFirstMoves DEF Working
<1>8. CASE ItemPaused
  <2> DEFINE p == [pass EXCEPT !.stopped = TRUE]
  <2>1. Proceed(p, pause) /\ pc \in {"item", "write"} /\ UNCHANGED <<enabled, unsent, fails>>
    BY <1>8 DEF ItemPaused, nadaVars
  <2> HIDE DEF p
  <2> QED  BY <1>7, <2>1
<1>9. ASSUME NEW i \in pass.items, FailItem(i) PROVE AcksFirst'
  <2> DEFINE p == Acked(Taken(i), i, FALSE)
  <2>1. Proceed(p, pause) /\ pc \in {"item", "write"} /\ UNCHANGED <<enabled, unsent, fails>>
    BY <1>9 DEF FailItem, nadaVars
  <2> HIDE DEF p
  <2> QED  BY <1>7, <2>1
<1>10. ASSUME NEW c \in cur, NEW ok, Proceed(Acked(pass, c, ok), pause), pc = "write",
              UNCHANGED <<enabled, unsent, fails>>
       PROVE  AcksFirst'
  <2> DEFINE p == Acked(pass, c, ok)
  <2>1. Proceed(p, pause)  BY <1>10
  <2> HIDE DEF p
  <2> QED  BY <1>7, <1>10, <2>1
<1>11. ASSUME NEW c \in cur, ItemDone(c) \/ ItemFails(c) PROVE AcksFirst'
  BY <1>10, <1>11 DEF ItemDone, ItemFails, nadaVars
<1>12. ASSUME NEW c \in cur, NEW reason \in Reason, ItemTrouble(c, reason) PROVE AcksFirst'
  <2> DEFINE p == [pass EXCEPT !.stopped = TRUE]
  <2>1. Proceed(p, reason) /\ pc \in {"item", "write"} /\ UNCHANGED <<enabled, unsent, fails>>
    BY <1>12 DEF ItemTrouble, nadaVars
  <2> HIDE DEF p
  <2> QED  BY <1>7, <2>1
<1>13. ASSUME NEW odd \in SUBSET Sent, AcksTaken(odd) PROVE AcksFirst'
  <2>1. fails' < AckLimit  BY <1>13, SchedulerAssumption DEF AcksTaken
  <2> QED  BY <1>0, <1>13, <2>1, SentType, AcksFirstSends DEF AcksTaken
<1>14. ASSUME NEW landed \in SUBSET Sent, AcksFail(landed) PROVE AcksFirst'
  <2>1. "acks_failing" \in Reason /\ {a.o : a \in Sent} \subseteq Object  BY SentType DEF Reason
  <2>2. fails' \in Nat /\ AckLimit \in Nat  BY <1>0, SchedulerAssumption DEF TypeOK
  <2>3. \/ AcksKept("acks_failing")
        \/ fails' < AckLimit /\ AcksDone({a.o : a \in Sent})
    BY <1>14, <2>2 DEF AcksFail
  <2> QED  BY <1>0, <1>14, <2>1, <2>3, AcksFirstSends DEF AcksFail
<1>15. ASSUME NEW reason \in Reason, NEW landed \in SUBSET Sent, AcksStopped(reason, landed)
       PROVE  AcksFirst'
  BY <1>0, <1>15, AcksFirstSends DEF AcksStopped
<1>16. CASE Crash \/ Stop
  <2>1. pc' = "off" /\ fails' = 0 /\ enabled' = enabled  BY <1>16 DEF Crash, Stop, Forget, nadaVars
  <2> QED  BY <2>1, SchedulerAssumption DEF AcksFirst, Working
<1>17. CASE \/ \E o \in Object : Change(o) \/ OtherStarts(o)
            \/ \E w \in strays : Land(w)
            \/ Pause \/ (\E here \in BOOLEAN : Resume(here)) \/ UNCHANGED vars
  <2>1. UNCHANGED <<enabled, unsent, fails, pc, pass>>
    BY <1>17 DEF Change, OtherStarts, Land, Pause, Resume, vars, nadaVars
  <2> QED  BY <2>1, AcksFirstMoves DEF AcksFirst
<1>18. CASE Wake \/ Start
  <2>1. /\ UNCHANGED <<enabled, unsent, fails, pass>>
        /\ \/ pc' = pc
           \/ pc' = "top"
           \/ ~enabled /\ pc' = "list"
    BY <1>18 DEF Wake, Start, nadaVars
  <2> QED  BY <2>1, AcksFirstMoves DEF AcksFirst, Working
<1> QED  BY <1>1, <1>3, <1>4, <1>5, <1>6, <1>8, <1>9, <1>11, <1>12, <1>13, <1>14,
         <1>15, <1>16, <1>17, <1>18 DEF Next, Loop

\* No item is taken up while acks wait to be recorded or the breaker holds, however requests
\* fail, processes die and operators pause and resume.
THEOREM NoWorkUnrecorded == Spec => []WorkNeedsAcks
<1>1. AcksFirst => WorkNeedsAcks  BY DEF AcksFirst, WorkNeedsAcks, Working
<1> QED  BY <1>1, AcksFirstInit, AcksFirstNext, TypeCorrect, PTL DEF Spec

-----------------------------------------------------------------------------
(* Nothing twice.                                                           *)

\* A row the pass has processed is dealt with: skipped from here on, listed anew only after
\* a change, settled, about to be acked or at work; or the pass takes up nothing more.
Handled(s) ==
  \/ s.o \in pass.exclude
  \/ s.changed < ver[s.o]
  \/ row[s.o] # "pending"
  \/ \E a \in pass.acks : a.o = s.o /\ a.changed = s.changed
  \/ \E c \in cur : c.o = s.o /\ c.changed = s.changed
  \/ pass.stopped

\* A page is listed by a pass that has no acks to send and goes on; one item is at work.
PassOpen ==
  /\ pc \in {"off", "list"} => pass.acks = {} /\ ~pass.stopped
  /\ pc # "write" => cur = {}
  /\ \A c, d \in cur : c = d

Tidy ==
  /\ PassOpen
  /\ pass.items \cap pass.seen = {}
  /\ \A i \in pass.items \cup pass.seen : i.changed <= ver[i.o]
  /\ \A s \in pass.seen : Handled(s)

LEMMA NewPass == NoPass.seen = {} /\ NoPass.items = {} /\ NoPass.acks = {} /\ ~NoPass.stopped
  BY DEF NoPass

LEMMA TidyInit == Init => Tidy
  BY NewPass DEF Init, Tidy, PassOpen

\* A pass that ends, or is not there, leaves nothing to do twice.
LEMMA TidyEnds ==
  ASSUME pass' = NoPass, cur' = {} PROVE Tidy'
  BY NewPass DEF Tidy, PassOpen

\* The items taken are those handled: what a pass with fewer items, and the same seen,
\* keeps in order.
LEMMA TidyGoesOn ==
  ASSUME TypeOK, TypeOK', Tidy, PassOpen', UNCHANGED ver,
         pass'.items \subseteq pass.items, pass'.seen = pass.seen,
         \A s \in pass.seen : Handled(s) => Handled(s)'
  PROVE  Tidy'
  BY DEF Tidy

\* Acks are dealt with: what NADA recorded is off the queue or has changed, the rest is
\* skipped.
LEMMA TidyAcksDone ==
  ASSUME TypeOK, TypeOK', Tidy, pc = "acks", UNCHANGED <<ver, cur>>,
         NEW STATE taken, NEW STATE skip, taken \subseteq pass.acks, skip \subseteq Object,
         \A a \in pass.acks : a \in taken \/ a.o \in skip,
         Recorded(taken), AcksDone(skip)
  PROVE  Tidy'
<1>1. cur = {} /\ cur' = {}  BY DEF Tidy, PassOpen
<1> DEFINE p == [pass EXCEPT !.acks = {}, !.exclude = @ \cup skip]
<1>2. /\ p.items = pass.items /\ p.seen = pass.seen /\ p.acks = {}
      /\ p.exclude = pass.exclude \cup skip /\ p.stopped = pass.stopped
  BY DEF TypeOK, Pass
<1>3. \/ DrainOver(pause)
      \/ ~p.stopped /\ pc' \in {"list", "item"} /\ pass' = p
  BY DEF AcksDone, GoOn
<1> HIDE DEF p
<1>4. CASE DrainOver(pause)  BY <1>1, <1>4, DrainOverWhere, TidyEnds
<1>5. CASE ~p.stopped /\ pc' \in {"list", "item"} /\ pass' = p
  <2>1. PassOpen'  BY <1>1, <1>2, <1>5 DEF PassOpen
  <2>2. ASSUME NEW s \in pass.seen, Handled(s) PROVE Handled(s)'
    <3>0. s.o \in Object /\ s.changed \in Nat /\ ver[s.o] \in Nat /\ s.changed <= ver[s.o]
      BY DEF TypeOK, Pass, Item, Version, Tidy
    <3>1. CASE s.o \in pass.exclude  BY <1>2, <1>5, <3>1 DEF Handled
    <3>2. CASE s.changed < ver[s.o]  BY <3>2 DEF Handled
    <3>3. CASE row[s.o] # "pending"
      <4>1. row'[s.o] # "pending"  BY <3>0, <3>3 DEF Recorded, TypeOK
      <4> QED  BY <4>1 DEF Handled
    <3>4. ASSUME NEW a \in pass.acks, a.o = s.o, a.changed = s.changed PROVE Handled(s)'
      <4>1. CASE a.o \in skip  BY <1>2, <1>5, <3>4, <4>1 DEF Handled
      <4>2. CASE a \in taken /\ s.changed = ver[s.o] /\ row[s.o] = "pending"
        <5>1. a = [o |-> s.o, changed |-> ver[s.o], ok |-> a.ok] /\ a.ok \in BOOLEAN
          BY <3>4, <4>2 DEF TypeOK, Pass, Ack
        <5>2. s.o \in Current(taken, TRUE) \/ s.o \in Current(taken, FALSE)
          BY <3>0, <4>2, <5>1 DEF Current
        <5>3. row'[s.o] # "pending"  BY <3>0, <5>2 DEF Recorded
        <5> QED  BY <5>3 DEF Handled
      <4> QED  BY <3>0, <3>2, <3>3, <3>4, <4>1, <4>2
    <3>5. CASE pass.stopped  BY <1>2, <1>5, <3>5
    <3> QED  BY <1>1, <2>2, <3>1, <3>2, <3>3, <3>4, <3>5 DEF Handled
  <2> QED  BY <1>2, <1>5, <2>1, <2>2, TidyGoesOn
<1> QED  BY <1>3, <1>4, <1>5

\* However a request with acks ends.
LEMMA TidyAcks ==
  ASSUME TypeOK, TypeOK', Tidy,
         \/ \E odd \in SUBSET Sent : AcksTaken(odd)
         \/ \E landed \in SUBSET Sent : AcksFail(landed)
         \/ \E reason \in Reason : \E landed \in SUBSET Sent : AcksStopped(reason, landed)
  PROVE  Tidy'
<1>1. cur' = {} /\ UNCHANGED <<ver, cur>>
  BY DEF AcksTaken, AcksFail, AcksStopped, Sending, Tidy, PassOpen
<1>2. ASSUME NEW skip \in SUBSET Object, pc = "resend", AcksDone(skip) PROVE Tidy'
  BY <1>1, <1>2, TidyEnds DEF AcksDone, GoOn
<1>3. ASSUME NEW reason \in Reason, AcksKept(reason) PROVE Tidy'
  BY <1>1, <1>3, DrainOverWhere, TidyEnds DEF AcksKept
<1>4. ASSUME NEW odd \in SUBSET Sent, AcksTaken(odd) PROVE Tidy'
  <2> DEFINE skip == {a.o : a \in odd}
  <2>1. skip \subseteq Object  BY SentType
  <2>2. AcksDone(skip) /\ Recorded(Sent \ odd) /\ pc \in {"acks", "resend"}
    BY <1>4 DEF AcksTaken, Sending
  <2>3. CASE pc = "acks"
    <3>1. Sent = pass.acks  BY <2>3 DEF Sent
    <3>2. \A a \in pass.acks : a \in Sent \ odd \/ a.o \in skip  BY <3>1
    <3> HIDE DEF skip
    <3> QED  BY <1>1, <2>1, <2>2, <2>3, <3>1, <3>2, TidyAcksDone
  <2> HIDE DEF skip
  <2> QED  BY <1>2, <2>1, <2>2, <2>3
<1>5. ASSUME NEW landed \in SUBSET Sent, AcksFail(landed) PROVE Tidy'
  <2> DEFINE skip == {a.o : a \in Sent}
  <2>1. skip \subseteq Object  BY SentType
  <2>2. /\ AcksKept("acks_failing") \/ AcksDone(skip)
        /\ Recorded(landed) /\ pc \in {"acks", "resend"} /\ "acks_failing" \in Reason
    BY <1>5 DEF AcksFail, Sending, Reason
  <2>3. CASE pc = "acks" /\ AcksDone(skip)
    <3>1. Sent = pass.acks  BY <2>3 DEF Sent
    <3>2. \A a \in pass.acks : a \in landed \/ a.o \in skip  BY <3>1
    <3> HIDE DEF skip
    <3> QED  BY <1>1, <2>1, <2>2, <2>3, <3>1, <3>2, TidyAcksDone
  <2> HIDE DEF skip
  <2> QED  BY <1>2, <1>3, <2>1, <2>2, <2>3
<1>6. ASSUME NEW reason \in Reason, NEW landed \in SUBSET Sent, AcksStopped(reason, landed)
      PROVE  Tidy'
  BY <1>3, <1>6 DEF AcksStopped
<1> QED  BY <1>4, <1>5, <1>6

\* A page is listed: a row of it that the pass has seen would not be handled.
LEMMA TidyList ==
  ASSUME TypeOK, TypeOK', Tidy, NEW page \in SUBSET Object, List(page)
  PROVE  Tidy'
<1>1. /\ pc = "list" /\ UNCHANGED <<ver, row, cur>>
      /\ \A o \in page : row[o] = "pending" /\ o \notin pass.exclude
  BY DEF List, nadaVars
<1>2. cur = {} /\ pass.acks = {} /\ ~pass.stopped  BY <1>1 DEF Tidy, PassOpen
<1> DEFINE items == {[o |-> o, changed |-> ver[o]] : o \in page}
           p == [pass EXCEPT !.items = items, !.full = Cardinality(page) = Limit,
                             !.extracts = {}, !.prefailed = {}]
<1>3. DrainOver(pause) \/ GoOn("fetch", p)  BY DEF List
<1>4. CASE DrainOver(pause)  BY <1>1, <1>2, <1>4, DrainOverWhere, TidyEnds
<1>5. CASE GoOn("fetch", p)
  <2>0. pc' = "fetch" /\ pass' = p  BY <1>5 DEF GoOn
  <2>1. /\ p.items = items /\ p.seen = pass.seen /\ p.acks = pass.acks
        /\ p.exclude = pass.exclude /\ p.stopped = pass.stopped
    BY DEF TypeOK, Pass
  <2> HIDE DEF p
  <2>2. PassOpen'  BY <1>1, <1>2, <2>0 DEF PassOpen
  <2>3. ASSUME NEW s \in pass.seen PROVE Handled(s)'
    BY <1>1, <1>2, <2>0, <2>1 DEF Handled, Tidy
  <2>4. ASSUME NEW o \in page PROVE [o |-> o, changed |-> ver[o]] \notin pass.seen
    <3>1. ver[o] \in Nat  BY DEF TypeOK, Version
    <3> QED  BY <1>1, <1>2, <3>1 DEF Handled, Tidy
  <2>5. items \cap pass.seen = {}  BY <2>4
  <2>6. ASSUME NEW i \in items PROVE i.changed <= ver[i.o]
    <3>1. \E o \in page : i.o = o /\ i.changed = ver[o]  OBVIOUS
    <3>2. \A o \in page : ver[o] \in Nat  BY DEF TypeOK, Version
    <3> QED  BY <3>1, <3>2
  <2> HIDE DEF items
  <2> QED  BY <1>1, <2>0, <2>1, <2>2, <2>3, <2>5, <2>6 DEF Tidy
<1> QED  BY <1>3, <1>4, <1>5

\* What an item in the hand leaves to do is a pass in order, with that item among the seen.
LEMMA TidyTaken ==
  ASSUME TypeOK, Tidy, NEW i \in pass.items
  PROVE  LET p == Taken(i)
         IN /\ p.items = pass.items \ {i} /\ p.seen = pass.seen \cup {i}
            /\ p.acks = pass.acks /\ p.exclude = pass.exclude /\ p.stopped = pass.stopped
            /\ p.items \cap p.seen = {}
            /\ \A j \in p.items \cup p.seen : j.changed <= ver[j.o]
<1> DEFINE p == Taken(i)
<1>1. /\ p.items = pass.items \ {i} /\ p.seen = pass.seen \cup {i}
      /\ p.acks = pass.acks /\ p.exclude = pass.exclude /\ p.stopped = pass.stopped
  BY DEF TypeOK, Pass, Taken
<1> HIDE DEF p
<1>2. /\ p.items \cap p.seen = {}
      /\ \A j \in p.items \cup p.seen : j.changed <= ver[j.o]
  BY <1>1 DEF Tidy
<1> QED  BY <1>1, <1>2 DEF p

\* The item is done, one way or another: of the seen, it is acked, or the pass stops.
LEMMA TidyProceeds ==
  ASSUME TypeOK, TypeOK', Tidy, UNCHANGED <<ver, row>>, cur' = {},
         NEW STATE p, NEW STATE r, Proceed(p, r),
         p.items \cap p.seen = {}, \A j \in p.items \cup p.seen : j.changed <= ver[j.o],
         \A s \in p.seen : \/ s.o \in p.exclude \/ s.changed < ver[s.o] \/ row[s.o] # "pending"
                           \/ \E a \in p.acks : a.o = s.o /\ a.changed = s.changed
                           \/ p.stopped
  PROVE  Tidy'
<1>1. CASE pass' = NoPass  BY <1>1, TidyEnds
<1>2. CASE pass' = p /\ pc' \in {"acks", "item"}  BY <1>2 DEF Tidy, PassOpen, Handled
<1> QED  BY <1>1, <1>2, ProceedWhere

\* Items fail at once, are taken up, or stay for later.
LEMMA TidyItems ==
  ASSUME TypeOK, TypeOK', Tidy,
         \/ ItemPaused
         \/ \E i \in pass.items : FailItem(i) \/ \E v \in Version : StartItem(i, v)
  PROVE  Tidy'
<1>1. pc = "item" /\ cur = {}
  BY DEF ItemPaused, FailItem, StartItem, Tidy, PassOpen
<1>2. UNCHANGED <<ver, row>>  BY DEF ItemPaused, FailItem, StartItem, nadaVars
<1>3. CASE ItemPaused
  <2> DEFINE p == [pass EXCEPT !.stopped = TRUE]
  <2>1. Proceed(p, pause) /\ cur' = {}  BY <1>1, <1>3 DEF ItemPaused
  <2>2. p.items = pass.items /\ p.seen = pass.seen /\ p.stopped  BY DEF TypeOK, Pass
  <2> HIDE DEF p
  <2>3. /\ p.items \cap p.seen = {}
        /\ \A j \in p.items \cup p.seen : j.changed <= ver[j.o]
    BY <2>2 DEF Tidy
  <2> QED  BY <1>2, <2>1, <2>2, <2>3, TidyProceeds
<1>4. ASSUME NEW i \in pass.items, FailItem(i) PROVE Tidy'
  <2> DEFINE q == Taken(i)
             a == [o |-> i.o, changed |-> i.changed, ok |-> FALSE]
             p == Acked(q, i, FALSE)
  <2>1. Proceed(p, pause) /\ cur' = {}  BY <1>1, <1>4 DEF FailItem
  <2>2. q \in Pass /\ i.o \in Object /\ i.changed \in Version
    BY TakenType DEF TypeOK, Pass, Item
  <2>3. /\ q.seen = pass.seen \cup {i} /\ q.acks = pass.acks /\ q.exclude = pass.exclude
        /\ q.stopped = pass.stopped /\ q.items \cap q.seen = {}
        /\ \A j \in q.items \cup q.seen : j.changed <= ver[j.o]
    BY TidyTaken
  <2>4. p = [q EXCEPT !.acks = @ \cup {a}]  BY DEF Acked
  <2>5. a.o = i.o /\ a.changed = i.changed  OBVIOUS
  <2> HIDE DEF q, p, a
  <2>6. /\ p.items = q.items /\ p.seen = q.seen /\ p.acks = q.acks \cup {a}
        /\ p.exclude = q.exclude /\ p.stopped = q.stopped
    BY <2>2, <2>4 DEF Pass
  <2>7. ASSUME NEW s \in p.seen
        PROVE  \/ s.o \in p.exclude \/ s.changed < ver[s.o] \/ row[s.o] # "pending"
               \/ \E b \in p.acks : b.o = s.o /\ b.changed = s.changed
               \/ p.stopped
    <3>1. CASE s = i  BY <2>5, <2>6, <3>1
    <3>2. CASE s \in pass.seen  BY <1>1, <2>3, <2>6, <3>2 DEF Tidy, Handled
    <3> QED  BY <2>3, <2>6, <3>1, <3>2
  <2> QED  BY <1>2, <2>1, <2>3, <2>6, <2>7, TidyProceeds
<1>5. ASSUME NEW i \in pass.items, NEW v \in Version, StartItem(i, v) PROVE Tidy'
  <2> DEFINE p == Taken(i)
             w == [o |-> i.o, changed |-> i.changed, v |-> v]
  <2>1. pass' = p /\ pc' = "write" /\ cur' = {w}  BY <1>5 DEF StartItem, GoOn
  <2>2. /\ p.seen = pass.seen \cup {i} /\ p.acks = pass.acks /\ p.exclude = pass.exclude
        /\ p.stopped = pass.stopped /\ p.items \cap p.seen = {}
        /\ \A j \in p.items \cup p.seen : j.changed <= ver[j.o]
    BY TidyTaken
  <2>3. w.o = i.o /\ w.changed = i.changed  OBVIOUS
  <2> HIDE DEF p, w
  <2>4. PassOpen'  BY <2>1 DEF PassOpen
  <2>5. ASSUME NEW s \in p.seen PROVE Handled(s)'
    <3>1. CASE s = i  BY <2>1, <2>3, <3>1 DEF Handled
    <3>2. CASE s \in pass.seen  BY <1>1, <1>2, <2>1, <2>2, <3>2 DEF Tidy, Handled
    <3> QED  BY <2>2, <3>1, <3>2
  <2> QED  BY <1>2, <2>1, <2>2, <2>4, <2>5 DEF Tidy
<1> QED  BY <1>3, <1>4, <1>5

\* The item at work is done.
LEMMA TidyWork ==
  ASSUME TypeOK, TypeOK', Tidy, NEW c \in cur,
         \/ ItemDone(c) \/ ItemFails(c)
         \/ \E reason \in Reason : ItemTrouble(c, reason)
  PROVE  Tidy'
<1>1. UNCHANGED <<ver, row>> /\ cur' = {}  BY DEF ItemDone, ItemFails, ItemTrouble, nadaVars
<1>2. \A d \in cur : d = c  BY DEF Tidy, PassOpen
<1>3. ASSUME NEW ok \in BOOLEAN, Proceed(Acked(pass, c, ok), pause) PROVE Tidy'
  <2> DEFINE a == [o |-> c.o, changed |-> c.changed, ok |-> ok]
             p == Acked(pass, c, ok)
  <2>1. Proceed(p, pause)  BY <1>3
  <2>2. p = [pass EXCEPT !.acks = @ \cup {a}]  BY DEF Acked
  <2>3. a.o = c.o /\ a.changed = c.changed  OBVIOUS
  <2> HIDE DEF p, a
  <2>4. /\ p.items = pass.items /\ p.seen = pass.seen /\ p.acks = pass.acks \cup {a}
        /\ p.exclude = pass.exclude /\ p.stopped = pass.stopped
    BY <2>2 DEF TypeOK, Pass
  <2>5. ASSUME NEW s \in p.seen
        PROVE  \/ s.o \in p.exclude \/ s.changed < ver[s.o] \/ row[s.o] # "pending"
               \/ \E b \in p.acks : b.o = s.o /\ b.changed = s.changed
               \/ p.stopped
    BY <1>2, <2>3, <2>4 DEF Tidy, Handled
  <2>6. /\ p.items \cap p.seen = {}
        /\ \A j \in p.items \cup p.seen : j.changed <= ver[j.o]
    BY <2>4 DEF Tidy
  <2> QED  BY <1>1, <2>1, <2>5, <2>6, TidyProceeds
<1>4. ASSUME NEW reason \in Reason, ItemTrouble(c, reason) PROVE Tidy'
  <2> DEFINE p == [pass EXCEPT !.stopped = TRUE]
  <2>1. Proceed(p, reason)  BY <1>4 DEF ItemTrouble
  <2>2. p.items = pass.items /\ p.seen = pass.seen /\ p.stopped  BY DEF TypeOK, Pass
  <2> HIDE DEF p
  <2>3. /\ p.items \cap p.seen = {}
        /\ \A j \in p.items \cup p.seen : j.changed <= ver[j.o]
    BY <2>2 DEF Tidy
  <2> QED  BY <1>1, <2>1, <2>2, <2>3, TidyProceeds
<1> QED  BY <1>3, <1>4 DEF ItemDone, ItemFails

\* A change makes a row pending again, but newer than what the pass has seen.
LEMMA TidyChange ==
  ASSUME TypeOK, TypeOK', Tidy, NEW o \in Object, Change(o)
  PROVE  Tidy'
<1>1. UNCHANGED <<pc, pass, cur>>  BY DEF Change
<1>2. \A q \in Object : ver[q] \in Nat  BY DEF TypeOK, Version
<1>3. \A q \in Object : ver'[q] = (IF q = o THEN ver[q] + 1 ELSE ver[q])  BY DEF Change, TypeOK
<1>4. \A q \in Object : q # o => row'[q] = row[q]  BY DEF Change, TypeOK
<1>5. \A i \in pass.items \cup pass.seen : i.o \in Object /\ i.changed \in Nat
  BY DEF TypeOK, Pass, Item, Version
<1>6. \A i \in pass.items \cup pass.seen : i.changed <= ver'[i.o]
  BY <1>2, <1>3, <1>5 DEF Tidy
<1>7. ASSUME NEW s \in pass.seen PROVE Handled(s)'
  <2>1. CASE s.o = o
    <3>1. s.changed < ver'[s.o]  BY <1>2, <1>3, <1>5, <2>1 DEF Tidy
    <3> QED  BY <3>1 DEF Handled
  <2>2. CASE s.o # o
    <3>1. ver'[s.o] = ver[s.o] /\ row'[s.o] = row[s.o]  BY <1>3, <1>4, <1>5, <2>2
    <3> QED  BY <1>1, <3>1 DEF Tidy, Handled
  <2> QED  BY <2>1, <2>2
<1> QED  BY <1>1, <1>6, <1>7 DEF Tidy, PassOpen

\* Steps that leave the pass as it is, or end it.
LEMMA TidyQuiet ==
  ASSUME TypeOK, TypeOK', Tidy,
         \/ Top \/ WaitOver \/ ListPaused \/ Fetched \/ EmbeddingFails \/ Restart
         \/ \E batch \in SUBSET {i.o : i \in ToFetch} : \E broken \in SUBSET batch : Fetch(batch, broken)
         \/ \E reason \in Reason : ListFails(reason) \/ FetchFails(reason)
         \/ \E o \in Object : OtherStarts(o)
         \/ \E w \in strays : Land(w)
         \/ Pause \/ (\E here \in BOOLEAN : Resume(here)) \/ Wake \/ Start \/ Crash \/ Stop
         \/ UNCHANGED vars
  PROVE  Tidy'
<1>1. ASSUME pass' = pass, UNCHANGED <<ver, row, cur>>, pc' # pc => pc # "write",
             pc' \in {"off", "list"} => pc \in {"off", "list"}
      PROVE  Tidy'
  BY <1>1 DEF Tidy, PassOpen, Handled
<1>2. CASE Top \/ WaitOver
  <2>1. UNCHANGED <<ver, row, cur>> /\ pc \in {"top", "wait"}  BY <1>2 DEF Top, WaitOver, nadaVars
  <2>2. pass' = NoPass \/ (pass' = pass /\ pc' \notin {"off", "list"})
    <3>1. CASE Top  BY <3>1 DEF Top, ToWork, StartWait
    <3>2. CASE WaitOver
      <4>1. ToWork \/ (pc' = "top" /\ pass' = pass)  BY <3>2 DEF WaitOver
      <4> QED  BY <4>1 DEF ToWork
    <3> QED  BY <1>2, <3>1, <3>2
  <2>3. cur' = {}  BY <2>1 DEF Tidy, PassOpen
  <2> QED  BY <1>1, <2>1, <2>2, <2>3, TidyEnds
<1>3. CASE \/ ListPaused \/ EmbeddingFails
           \/ \E reason \in Reason : ListFails(reason) \/ FetchFails(reason)
  <2>1. pc \in {"list", "fetch"} /\ cur' = cur
    BY <1>3 DEF ListPaused, EmbeddingFails, ListFails, FetchFails
  <2>2. pass' = NoPass
    BY <1>3, DrainOverWhere DEF ListPaused, EmbeddingFails, ListFails, FetchFails, DrainOver
  <2>3. cur' = {}  BY <2>1 DEF Tidy, PassOpen
  <2> QED  BY <2>2, <2>3, TidyEnds
<1>4. CASE Fetched \/ Restart \/ Start \/ Wake
  BY <1>1, <1>4 DEF Fetched, GoOn, Restart, Start, Wake, nadaVars
<1>5. ASSUME NEW batch \in SUBSET {i.o : i \in ToFetch}, NEW broken \in SUBSET batch, Fetch(batch, broken)
      PROVE  Tidy'
  <2> DEFINE gone == broken \cup {o \in batch : ver[o] \in Deletes}
             p == [pass EXCEPT !.extracts = @ \cup {[o |-> o, v |-> ver[o]] : o \in batch \ gone},
                               !.prefailed = @ \cup gone]
  <2>1. UNCHANGED <<ver, row, cur>> /\ pc = "fetch" /\ pc' = "fetch" /\ pass' = p
    BY <1>5 DEF Fetch, GoOn, nadaVars
  <2>2. /\ p.items = pass.items /\ p.seen = pass.seen /\ p.acks = pass.acks
        /\ p.exclude = pass.exclude /\ p.stopped = pass.stopped
    BY DEF TypeOK, Pass
  <2> HIDE DEF p
  <2> QED  BY <2>1, <2>2 DEF Tidy, PassOpen, Handled
<1>6. CASE Crash \/ Stop  BY <1>6, TidyEnds DEF Crash, Stop, Forget
<1>7. CASE \/ \E o \in Object : OtherStarts(o)
           \/ \E w \in strays : Land(w)
           \/ Pause \/ (\E here \in BOOLEAN : Resume(here)) \/ UNCHANGED vars
  <2>1. UNCHANGED <<ver, row, cur, pc, pass>>
    BY <1>7 DEF OtherStarts, Land, Pause, Resume, vars, nadaVars
  <2> QED  BY <1>1, <2>1
<1> QED  BY <1>2, <1>3, <1>4, <1>5, <1>6, <1>7

LEMMA TidyNext == TypeOK /\ Tidy /\ [Next]_vars => Tidy'
<1> SUFFICES ASSUME TypeOK, Tidy, [Next]_vars PROVE Tidy'  OBVIOUS
<1>0. TypeOK'  BY TypeNext
<1>1. CASE Loop  BY <1>0, <1>1, TidyList, TidyItems, TidyWork, TidyAcks, TidyQuiet DEF Loop
<1>2. ASSUME NEW o \in Object, Change(o) PROVE Tidy'  BY <1>0, <1>2, TidyChange
<1> QED  BY <1>0, <1>1, <1>2, TidyQuiet DEF Next

\* Within a pass no version of an object is taken up twice, whatever becomes of its ack.
THEOREM NothingTwice == Spec => []NoRedoInPass
<1>1. Tidy => NoRedoInPass  BY DEF Tidy, NoRedoInPass
<1> QED  BY <1>1, TidyInit, TidyNext, TypeCorrect, PTL DEF Spec

=============================================================================
