-------------------------- MODULE JobRegistryProofs -------------------------
(***************************************************************************)
(* Single-flight, the semaphore, cancellation and eviction, proved for any *)
(* number of jobs, keys, kinds and slots.                                  *)
(*                                                                         *)
(* OnePerKey alone is not inductive: that submit() finds no job in flight  *)
(* under a key says something about the key's owner only. The invariant    *)
(* that carries it is that the owner table, the registry's entries and the *)
(* unfinished jobs always agree (KeysMatchJobs), which in turn needs to    *)
(* know which status goes with which await (Lifecycle).                    *)
(*                                                                         *)
(* The semaphore counts coroutines, and the work is on threads: the bound  *)
(* on threads holds because a thread whose coroutine left the semaphore is *)
(* one whose job was asked to cancel (AtWork).                             *)
(***************************************************************************)
EXTENDS JobRegistry, FiniteSetTheorems, WellFoundedInduction, TLAPS

\* Where a job's coroutine is suspended tells its status, except for a task
\* cancelled before its first step.
Lifecycle ==
  \A j \in JobId :
    /\ pc[j] = "none" => j \notin Submitted
    /\ j \notin Submitted => status[j] = "none" /\ pc[j] = "none"
    /\ pc[j] = "start" => status[j] = "pending"
    /\ pc[j] \in {"warm", "slot", "thread"} => status[j] = "running"
    /\ pc[j] = "end" => status[j] \in Terminal \/ (status[j] = "pending" /\ down)
    /\ pc[j] = "start" /\ j \in cancelled => down

IInv == TypeOK /\ Lifecycle /\ KeysMatchJobs

-----------------------------------------------------------------------------
\* Eviction takes finished jobs only.
LEMMA EvictedFinished ==
  ASSUME NEW known, NEW st
  PROVE  Evicted(known, st) \subseteq {j \in known : st[j] \in Terminal}
BY DEF Evicted

\* The empty registry satisfies the invariant.
LEMMA InitIInv == Init => IInv
<1> SUFFICES ASSUME Init PROVE IInv
  OBVIOUS
<1>1. /\ born = 0 /\ jobs = {} /\ cancelled = {} /\ token = {} /\ down = FALSE
      /\ status = [j \in JobId |-> "none"] /\ pc = [j \in JobId |-> "none"]
      /\ thread = [j \in JobId |-> "none"] /\ owner = [k \in Key |-> Nobody]
  BY Zenon DEF Init
<1>2. keyOf \in [JobId -> Key] /\ kindOf \in [JobId -> Kind]
  <2>1. (CHOOSE k \in Key : TRUE) \in Key /\ (CHOOSE k \in Kind : TRUE) \in Kind
    BY JobAssumption, Zenon
  <2> QED
    BY <2>1 DEF Init
<1>3. TypeOK
  <2>1. born \in 0 .. MaxJobs
    BY <1>1, JobAssumption
  <2>2. status \in [JobId -> Status] /\ owner \in [Key -> JobId \cup {Nobody}]
    BY <1>1 DEF Status
  <2> QED
    BY <1>1, <1>2, <2>1, <2>2 DEF TypeOK
<1>4. Lifecycle
  BY <1>1, JobAssumption DEF Lifecycle, Submitted, JobId
<1>5. KeysMatchJobs
  BY <1>1 DEF KeysMatchJobs, Submitted, Nobody
<1> QED
  BY <1>3, <1>4, <1>5 DEF IInv

\* A submission finds its key free of unfinished jobs.
LEMMA FreeKey ==
  ASSUME IInv, NEW k \in Key, ~InFlight(k)
  PROVE  owner[k] = Nobody /\ \A j \in Submitted : Active(j) => keyOf[j] # k
<1>1. owner[k] = Nobody
  BY DEF IInv, KeysMatchJobs, InFlight, Active, Terminal
<1>2. ASSUME NEW j \in Submitted, Active(j) PROVE keyOf[j] # k
  <2>1. j # Nobody
    BY DEF Submitted, Nobody
  <2> QED
    BY <1>1, <1>2, <2>1 DEF IInv, KeysMatchJobs
<1> QED
  BY <1>1, <1>2

\* A submission keeps it: the new job takes over a free key, and what is
\* evicted on the way is finished.
LEMMA SubmitIInv ==
  ASSUME IInv, NEW k \in Key, NEW d \in Kind, Submit(k, d)
  PROVE  IInv'
<1> DEFINE j == born + 1
<1> DEFINE st == [status EXCEPT ![j] = "pending"]
<1> DEFINE E == Evicted(jobs \cup {j}, st)
<1>0. /\ ~down /\ born < MaxJobs /\ ~InFlight(k)
      /\ born' = j
      /\ keyOf' = [keyOf EXCEPT ![j] = k]
      /\ kindOf' = [kindOf EXCEPT ![j] = d]
      /\ status' = st
      /\ owner' = [owner EXCEPT ![k] = j]
      /\ pc' = [pc EXCEPT ![j] = "start"]
      /\ jobs' = (jobs \cup {j}) \ E
      /\ UNCHANGED <<thread, cancelled, token, down>>
  BY DEF Submit
<1>1. /\ born \in Nat /\ j \in JobId /\ j \notin Submitted /\ j # Nobody
      /\ Submitted' = Submitted \cup {j} /\ Submitted \subseteq JobId
  BY <1>0, JobAssumption DEF IInv, TypeOK, JobId, Submitted, Nobody
<1>2. E \subseteq {i \in jobs \cup {j} : st[i] \in Terminal}
  BY EvictedFinished
<1>3. TypeOK'
  <2> USE <1>0, <1>1 DEF IInv, TypeOK
  <2>1. born' \in 0 .. MaxJobs
    BY JobAssumption DEF JobId
  <2>2. jobs' \subseteq Submitted'
    OBVIOUS
  <2>3. keyOf' \in [JobId -> Key] /\ kindOf' \in [JobId -> Kind]
    OBVIOUS
  <2>4. status' \in [JobId -> Status]
    BY DEF Status
  <2>5. owner' \in [Key -> JobId \cup {Nobody}]
    OBVIOUS
  <2>6. pc' \in [JobId -> {"none", "start", "warm", "slot", "thread", "end"}]
    OBVIOUS
  <2>7. cancelled' \subseteq Submitted' /\ token' \subseteq Submitted'
    OBVIOUS
  <2> QED
    BY <2>1, <2>2, <2>3, <2>4, <2>5, <2>6, <2>7
<1>4. Lifecycle'
  <2>1. j \notin cancelled
    BY <1>1 DEF IInv, TypeOK
  <2> QED
    BY <1>0, <1>1, <2>1 DEF IInv, TypeOK, Lifecycle, Terminal
<1>5. KeysMatchJobs'
  <2>1. owner[k] = Nobody /\ \A i \in Submitted : Active(i) => keyOf[i] # k
    BY <1>0, FreeKey
  <2>2. \A i \in Submitted : /\ status'[i] = status[i] /\ keyOf'[i] = keyOf[i]
                             /\ pc'[i] = pc[i]
                             /\ (Active(i))' <=> Active(i)
    BY <1>0, <1>1 DEF IInv, TypeOK, Active
  <2>3. status'[j] = "pending" /\ keyOf'[j] = k /\ pc'[j] = "start" /\ owner'[k] = j
    BY <1>0, <1>1 DEF IInv, TypeOK
  <2>4. j \in jobs' /\ \A i \in jobs : Active(i) => i \in jobs'
    BY <1>0, <1>1, <1>2 DEF IInv, TypeOK, Active, Terminal
  <2>5. ASSUME NEW q \in Key, owner'[q] # Nobody
        PROVE  /\ owner'[q] \in jobs' /\ (Active(owner[q]))'
               /\ keyOf'[owner'[q]] = q
               /\ pc'[owner'[q]] = "end" => down'
    <3>1. CASE q = k
      BY <3>1, <2>3, <2>4 DEF Active
    <3>2. CASE q # k
      <4>1. owner'[q] = owner[q] /\ owner[q] \in jobs /\ Active(owner[q])
            /\ keyOf[owner[q]] = q /\ (pc[owner[q]] = "end" => down)
        BY <3>2, <2>5, <1>0 DEF IInv, TypeOK, KeysMatchJobs
      <4>2. owner[q] \in Submitted
        BY <4>1 DEF IInv, TypeOK
      <4> QED
        BY <4>1, <4>2, <2>2, <2>4, <1>0 DEF Active
    <3> QED
      BY <3>1, <3>2
  <2>6. ASSUME NEW i \in Submitted', (Active(i))'
        PROVE  i \in jobs' /\ owner'[keyOf'[i]] = i
    <3>1. CASE i = j
      BY <3>1, <2>3, <2>4
    <3>2. CASE i # j
      <4>1. i \in Submitted /\ Active(i)
        BY <3>2, <2>6, <2>2, <1>1
      <4>2. i \in jobs /\ owner[keyOf[i]] = i /\ keyOf[i] # k /\ keyOf[i] \in Key
        BY <4>1, <2>1, <1>1 DEF IInv, TypeOK, KeysMatchJobs
      <4> QED
        BY <4>1, <4>2, <2>2, <2>4, <1>0 DEF IInv, TypeOK
    <3> QED
      BY <3>1, <3>2
  <2> QED
    BY <2>5, <2>6 DEF KeysMatchJobs, Active
<1> QED
  BY <1>3, <1>4, <1>5 DEF IInv

\* The end of a job, whatever the outcome: its key goes with it.
LEMMA FinishIInv ==
  ASSUME IInv, NEW j \in Submitted, NEW outcome \in Terminal,
         pc[j] \in {"warm", "slot", "thread"},
         Finish(j, outcome),
         thread' \in [JobId -> {"none", "queued", "running", "returned", "raised", "dropped"}]
  PROVE  IInv'
<1>1. j \in JobId /\ Submitted' = Submitted /\ j # Nobody /\ Submitted \subseteq JobId
  BY JobAssumption DEF IInv, TypeOK, Finish, JobId, Submitted, Nobody
<1>2. TypeOK'
  <2>1. status' \in [JobId -> Status]
    BY <1>1 DEF IInv, TypeOK, Finish, Status
  <2>2. owner' \in [Key -> JobId \cup {Nobody}]
    BY <1>1 DEF IInv, TypeOK, Finish
  <2>3. pc' \in [JobId -> {"none", "start", "warm", "slot", "thread", "end"}]
    BY <1>1 DEF IInv, TypeOK, Finish
  <2> QED
    BY <1>1, <2>1, <2>2, <2>3 DEF IInv, TypeOK, Finish
<1>3. Lifecycle'
  BY <1>1 DEF IInv, TypeOK, Lifecycle, Finish
<1>4. KeysMatchJobs'
  <2>1. \A i \in JobId : i # j => status'[i] = status[i] /\ pc'[i] = pc[i]
    BY DEF IInv, TypeOK, Finish
  <2>2. status'[j] = outcome /\ keyOf' = keyOf /\ jobs' = jobs /\ down' = down
    BY <1>1 DEF IInv, TypeOK, Finish
  <2>3. ASSUME NEW k \in Key, owner'[k] # Nobody
        PROVE  /\ owner'[k] \in jobs' /\ (Active(owner[k]))'
               /\ keyOf'[owner'[k]] = k
               /\ pc'[owner'[k]] = "end" => down'
    <3>1. owner'[k] = owner[k] /\ owner[k] # Nobody /\ ~(k = keyOf[j] /\ owner[k] = j)
      BY <2>3 DEF Finish
    <3>2. /\ owner[k] \in jobs /\ Active(owner[k])
          /\ keyOf[owner[k]] = k /\ (pc[owner[k]] = "end" => down)
      BY <3>1 DEF IInv, KeysMatchJobs
    <3>3. owner[k] # j /\ owner[k] \in JobId
      BY <3>1, <3>2, <1>1 DEF IInv, TypeOK
    <3> QED
      BY <3>1, <3>2, <3>3, <2>1, <2>2 DEF Active
  <2>4. ASSUME NEW i \in Submitted, (Active(i))'
        PROVE  i \in jobs' /\ owner'[keyOf'[i]] = i
    <3>1. i # j
      BY <2>4, <2>2 DEF Active, Terminal
    <3>2. Active(i) /\ i \in JobId
      BY <2>4, <3>1, <2>1, <1>1 DEF Active
    <3>3. i \in jobs /\ owner[keyOf[i]] = i /\ keyOf[i] \in Key
      BY <3>2 DEF IInv, TypeOK, KeysMatchJobs
    <3> QED
      BY <3>1, <3>3, <2>2 DEF Finish
  <2> QED
    BY <2>3, <2>4, <1>1 DEF KeysMatchJobs, Active
<1> QED
  BY <1>2, <1>3, <1>4 DEF IInv

\* A job's own steps keep it: each either leaves its key alone or ends it.
LEMMA StepIInv ==
  ASSUME IInv, NEW j \in Submitted, Step(j)
  PROVE  IInv'
<1>0. j \in JobId /\ Submitted \subseteq JobId
  BY JobAssumption DEF IInv, TypeOK, JobId, Submitted
<1>1. CASE Begin(j)
  <2>1. TypeOK'
    BY <1>0, <1>1 DEF IInv, TypeOK, Begin, Status, Submitted
  <2>2. Lifecycle'
    BY <1>0, <1>1 DEF IInv, TypeOK, Lifecycle, Begin, Submitted
  <2>3. KeysMatchJobs'
    <3>1. \A i \in JobId : /\ (Active(i))' <=> Active(i)
                           /\ pc'[i] = "end" => pc[i] = "end"
      BY <1>0, <1>1 DEF IInv, TypeOK, Lifecycle, Begin, Active
    <3> QED
      BY <1>0, <1>1, <3>1 DEF IInv, TypeOK, KeysMatchJobs, Begin, Submitted, Active
  <2> QED
    BY <2>1, <2>2, <2>3 DEF IInv
<1>2. CASE Warmed(j)
  <2>1. TypeOK'
    BY <1>0, <1>2 DEF IInv, TypeOK, Warmed, Submitted
  <2>2. Lifecycle'
    BY <1>0, <1>2 DEF IInv, TypeOK, Lifecycle, Warmed, Submitted
  <2>3. KeysMatchJobs'
    BY <1>0, <1>2 DEF IInv, TypeOK, Lifecycle, KeysMatchJobs, Warmed, Active, Submitted
  <2> QED
    BY <2>1, <2>2, <2>3 DEF IInv
<1>3. CASE TakeSlot(j)
  <2>1. TypeOK'
    BY <1>0, <1>3 DEF IInv, TypeOK, TakeSlot, Submitted
  <2>2. Lifecycle'
    BY <1>0, <1>3 DEF IInv, TypeOK, Lifecycle, TakeSlot, Submitted
  <2>3. KeysMatchJobs'
    BY <1>0, <1>3 DEF IInv, TypeOK, Lifecycle, KeysMatchJobs, TakeSlot, Active, Submitted
  <2> QED
    BY <2>1, <2>2, <2>3 DEF IInv
<1>4. CASE WarmFails(j)
  BY <1>4, FinishIInv DEF WarmFails, IInv, TypeOK, Terminal
<1>5. CASE Complete(j)
  BY <1>5, FinishIInv DEF Complete, IInv, TypeOK, Terminal
<1>6. CASE DeliverCancel(j)
  <2>1. thread' \in [JobId -> {"none", "queued", "running", "returned", "raised", "dropped"}]
    BY <1>0, <1>6 DEF DeliverCancel, IInv, TypeOK
  <2> QED
    BY <1>6, <2>1, FinishIInv DEF DeliverCancel, Terminal
<1>7. CASE CancelUnstarted(j)
  <2>1. TypeOK'
    BY <1>0, <1>7 DEF IInv, TypeOK, CancelUnstarted, Submitted
  <2>2. Lifecycle'
    BY <1>0, <1>7 DEF IInv, TypeOK, Lifecycle, CancelUnstarted, Submitted
  <2>3. KeysMatchJobs'
    BY <1>0, <1>7 DEF IInv, TypeOK, Lifecycle, KeysMatchJobs, CancelUnstarted, Active, Submitted
  <2> QED
    BY <2>1, <2>2, <2>3 DEF IInv
<1> QED
  BY <1>1, <1>2, <1>3, <1>4, <1>5, <1>6, <1>7 DEF Step

\* Steps that leave statuses, keys, owners and awaits alone.
LEMMA BystanderIInv ==
  ASSUME IInv, TypeOK', down => down',
         UNCHANGED <<born, jobs, keyOf, status, owner, pc>>,
         \A j \in JobId : pc[j] = "start" /\ j \in cancelled' => down'
  PROVE  IInv'
<1>1. Lifecycle'
  BY DEF IInv, Lifecycle, Submitted
<1>2. KeysMatchJobs'
  BY DEF IInv, KeysMatchJobs, Submitted, Active
<1> QED
  BY <1>1, <1>2 DEF IInv

\* Every step keeps the invariant.
LEMMA NextIInv == IInv /\ [Next]_vars => IInv'
<1> SUFFICES ASSUME IInv, [Next]_vars PROVE IInv'
  OBVIOUS
<1>0. Submitted \subseteq JobId
  BY JobAssumption DEF IInv, TypeOK, JobId, Submitted
<1>1. ASSUME NEW k \in Key, NEW d \in Kind, Submit(k, d) PROVE IInv'
  BY <1>1, SubmitIInv
<1>2. ASSUME NEW j \in Submitted, Step(j) PROVE IInv'
  BY <1>2, StepIInv
<1>3. ASSUME NEW j \in Submitted, Cancel(j) PROVE IInv'
  <2>1. TypeOK'
    BY <1>0, <1>3 DEF IInv, TypeOK, Cancel, Submitted
  <2>2. \A i \in JobId : pc[i] = "start" /\ i \in cancelled' => down'
    BY <1>3 DEF IInv, Lifecycle, Cancel
  <2> QED
    BY <1>3, <2>1, <2>2, BystanderIInv DEF Cancel
<1>4. ASSUME NEW j \in Submitted, ThreadStarts(j) \/ ThreadEnds(j) \/ ThreadStops(j) PROVE IInv'
  <2>1. PICK from \in {"queued", "running"}, to \in {"running", "returned", "raised"} :
          Thread(j, from, to)
    BY <1>4 DEF ThreadStarts, ThreadEnds, ThreadStops
  <2>2. TypeOK'
    BY <1>0, <2>1 DEF IInv, TypeOK, Thread, Submitted
  <2> QED
    BY <2>1, <2>2, BystanderIInv DEF Thread, IInv, Lifecycle
<1>5. ASSUME Shutdown PROVE IInv'
  <2>1. TypeOK'
    BY <1>5 DEF IInv, TypeOK, Shutdown, Submitted
  <2> QED
    BY <1>5, <2>1, BystanderIInv DEF Shutdown
<1>6. ASSUME UNCHANGED vars PROVE IInv'
  <2>1. TypeOK'
    BY <1>6 DEF IInv, TypeOK, vars, Submitted
  <2> QED
    BY <1>6, <2>1, BystanderIInv DEF vars, IInv, Lifecycle
<1> QED
  BY <1>1, <1>2, <1>3, <1>4, <1>5, <1>6 DEF Next

\* The invariant holds in every reachable state.
LEMMA Invariance == Spec => []IInv
<1>1. Init => IInv
  BY InitIInv
<1> QED
  BY <1>1, NextIInv, PTL DEF Spec

-----------------------------------------------------------------------------
\* Every variable keeps its type, for any number of jobs, keys and slots.
THEOREM TypeCorrect == Spec => []TypeOK
<1>1. IInv => TypeOK
  BY DEF IInv
<1> QED
  BY <1>1, Invariance, PTL

\* The registry's three tables agree: no key is held by a finished job, no
\* unfinished job is evicted or loses its key.
THEOREM TablesAgree == Spec => []KeysMatchJobs
<1>1. IInv => KeysMatchJobs
  BY DEF IInv
<1> QED
  BY <1>1, Invariance, PTL

\* Single-flight: two unfinished jobs under one key are the same job.
THEOREM SingleFlightHolds == Spec => []OnePerKey
<1>1. IInv => OnePerKey
  BY DEF IInv, KeysMatchJobs, OnePerKey
<1> QED
  BY <1>1, Invariance, PTL

-----------------------------------------------------------------------------
\* A finished job's key is idle afterwards, and only its key.
LEMMA FinishLands ==
  ASSUME IInv, NEW j \in Submitted, NEW outcome \in Terminal, Active(j),
         Finish(j, outcome)
  PROVE  SF!Land(keyOf[j])
<1>1. j \in JobId /\ Submitted' = Submitted /\ Submitted \subseteq JobId /\ keyOf[j] \in Key
  BY JobAssumption DEF IInv, TypeOK, Finish, JobId, Submitted
<1>2. \A i \in Submitted : i # j => ((Active(i))' <=> Active(i))
  BY <1>1 DEF IInv, TypeOK, Finish, Active
<1>3. ~(Active(j))' /\ keyOf' = keyOf
  BY <1>1 DEF IInv, TypeOK, Finish, Active, Terminal
<1>4. flightOf[keyOf[j]] # {}
  BY <1>1 DEF flightOf
<1>5. flightOf' = [flightOf EXCEPT ![keyOf[j]] = {}]
  <2>1. ASSUME NEW k \in Key
        PROVE  {i \in Submitted' : (Active(i))' /\ keyOf'[i] = k}
                 = IF k = keyOf[j] THEN {} ELSE flightOf[k]
    <3>1. CASE k = keyOf[j]
      <4>1. \A i \in Submitted : Active(i) /\ keyOf[i] = k => i = j
        BY <3>1 DEF IInv, KeysMatchJobs
      <4> QED
        BY <1>1, <1>2, <1>3, <3>1, <4>1
    <3>2. CASE k # keyOf[j]
      BY <1>1, <1>2, <1>3, <3>2 DEF flightOf
    <3> QED
      BY <3>1, <3>2
  <2> QED
    BY <2>1 DEF flightOf
<1> QED
  BY <1>1, <1>4, <1>5 DEF SF!Land

\* A submitted job takes off alone, under a new id.
LEMMA SubmitTakesOff ==
  ASSUME IInv, NEW k \in Key, NEW d \in Kind, Submit(k, d)
  PROVE  \E j \in JobId : SF!TakeOff(k, j)
<1>0. PICK j : j = born + 1
  OBVIOUS
<1>1. /\ j \in JobId /\ j \notin Submitted
      /\ Submitted' = Submitted \cup {j} /\ Submitted \subseteq JobId
  BY <1>0, JobAssumption DEF IInv, TypeOK, Submit, JobId, Submitted
<1>2. \A i \in Submitted : Active(i) => keyOf[i] # k
  BY FreeKey DEF Submit
<1>3. \A i \in Submitted : ((Active(i))' <=> Active(i)) /\ keyOf'[i] = keyOf[i]
  BY <1>0, <1>1 DEF IInv, TypeOK, Submit, Active
<1>4. (Active(j))' /\ keyOf'[j] = k
  <2>1. status' = [status EXCEPT ![j] = "pending"] /\ keyOf' = [keyOf EXCEPT ![j] = k]
    BY <1>0 DEF Submit
  <2> QED
    BY <1>1, <2>1 DEF IInv, TypeOK, Active
<1>5. flightOf[k] = {}
  BY <1>2 DEF flightOf
<1>6. flightOf' = [flightOf EXCEPT ![k] = {j}]
  <2>1. ASSUME NEW q \in Key
        PROVE  {i \in Submitted' : (Active(i))' /\ keyOf'[i] = q}
                 = IF q = k THEN {j} ELSE flightOf[q]
    <3>1. CASE q = k
      BY <1>1, <1>2, <1>3, <1>4, <3>1
    <3>2. CASE q # k
      <4>1. keyOf'[j] # q /\ flightOf[q] = {i \in Submitted : Active(i) /\ keyOf[i] = q}
        BY <1>4, <3>2 DEF flightOf
      <4> QED
        BY <1>1, <1>3, <3>2, <4>1
    <3> QED
      BY <3>1, <3>2
  <2> QED
    BY <2>1 DEF flightOf
<1> QED
  BY <1>1, <1>5, <1>6 DEF SF!TakeOff

\* Any other step is invisible to the registry's callers.
LEMMA QuietStep ==
  ASSUME born' = born, keyOf' = keyOf,
         \A i \in Submitted : (Active(i))' <=> Active(i)
  PROVE  UNCHANGED <<flightOf, Submitted>>
BY DEF flightOf, Submitted

\* The registry implements single-flight: every behaviour of it, seen as the
\* unfinished jobs of each key, is one of the abstract specification.
THEOREM ImplementsSingleFlight == Spec => IsSingleFlight
<1>1. Init => SF!Init
  <2> SUFFICES ASSUME Init PROVE SF!Init
    OBVIOUS
  <2>1. born = 0
    BY Zenon DEF Init
  <2>2. Submitted = {}
    BY <2>1 DEF Submitted
  <2> QED
    BY <2>2 DEF SF!Init, flightOf
<1>2. IInv /\ [Next]_vars => [SF!Next]_(SF!vars)
  <2> SUFFICES ASSUME IInv, [Next]_vars
               PROVE  SF!Next \/ UNCHANGED <<flightOf, Submitted>>
    BY DEF SF!vars
  <2>0. /\ Submitted \subseteq JobId
        /\ \A j \in Submitted : keyOf[j] \in Key
        /\ \A j \in Submitted : pc[j] \in {"warm", "slot", "thread"} => Active(j)
    BY JobAssumption DEF IInv, TypeOK, Lifecycle, JobId, Submitted, Active
  <2>1. ASSUME NEW k \in Key, NEW d \in Kind, Submit(k, d) PROVE SF!Next
    BY <2>1, SubmitTakesOff DEF SF!Next
  <2>2. ASSUME NEW j \in Submitted, WarmFails(j) \/ Complete(j) \/ DeliverCancel(j) PROVE SF!Next
    <3>1. PICK outcome \in Terminal : Finish(j, outcome)
      BY <2>2 DEF WarmFails, Complete, DeliverCancel, Terminal
    <3>2. Active(j)
      BY <2>2, <2>0 DEF WarmFails, Complete, DeliverCancel
    <3> QED
      BY <3>1, <3>2, <2>0, FinishLands DEF SF!Next
  <2>3. ASSUME NEW j \in Submitted, Begin(j) PROVE UNCHANGED <<flightOf, Submitted>>
    <3>1. \A i \in Submitted : (Active(i))' <=> Active(i)
      BY <2>0, <2>3 DEF IInv, TypeOK, Lifecycle, Begin, Active
    <3> QED
      BY <2>3, <3>1, QuietStep DEF Begin
  <2>4. ASSUME NEW j \in Submitted,
               \/ Warmed(j) \/ TakeSlot(j) \/ CancelUnstarted(j) \/ Cancel(j)
               \/ ThreadStarts(j) \/ ThreadEnds(j) \/ ThreadStops(j)
        PROVE  UNCHANGED <<flightOf, Submitted>>
    <3>1. born' = born /\ keyOf' = keyOf /\ status' = status
      BY <2>4 DEF Warmed, TakeSlot, CancelUnstarted, Cancel, ThreadStarts, ThreadEnds,
                  ThreadStops, Thread
    <3> QED
      BY <3>1, QuietStep DEF Active
  <2>5. ASSUME Shutdown \/ UNCHANGED vars PROVE UNCHANGED <<flightOf, Submitted>>
    BY <2>5, QuietStep DEF Shutdown, vars, Active
  <2> QED
    BY <2>1, <2>2, <2>3, <2>4, <2>5 DEF Next, Step
<1> QED
  BY <1>1, <1>2, Invariance, PTL DEF Spec, IsSingleFlight, SF!Spec

-----------------------------------------------------------------------------
(* The semaphore and cancellation. *)

\* Work that goes on for a job nobody asked to cancel has its coroutine waiting for it.
AtWork ==
  \A j \in JobId : thread[j] \in {"queued", "running"} /\ j \notin cancelled => pc[j] = "thread"

\* The semaphore's count.
WithinSlots == Cardinality(Holders) <= Slots

SlotsInv == AtWork /\ WithinSlots

\* The holders of the semaphore can be counted.
LEMMA HoldersFinite ==
  ASSUME TypeOK
  PROVE  IsFiniteSet(Submitted) /\ IsFiniteSet(Holders) /\ Cardinality(Holders) \in Nat
<1>1. born \in Int  BY JobAssumption DEF TypeOK
<1>2. IsFiniteSet(Submitted)  BY <1>1, FS_Interval DEF Submitted
<1>3. Holders \in SUBSET Submitted  BY DEF Holders
<1> QED  BY <1>2, <1>3, FS_Subset, FS_CardinalityType

LEMMA SlotsInit == Init => SlotsInv
<1> SUFFICES ASSUME Init PROVE SlotsInv  OBVIOUS
<1>1. born = 0 /\ thread = [j \in JobId |-> "none"]  BY Zenon DEF Init
<1>2. Holders = {}  BY <1>1 DEF Holders, Submitted
<1>3. Cardinality(Holders) = 0  BY <1>2, FS_EmptySet
<1> QED  BY <1>1, <1>3, JobAssumption DEF SlotsInv, AtWork, WithinSlots

\* As long as nobody enters, the count does not grow.
LEMMA NobodyEnters ==
  ASSUME TypeOK, WithinSlots, Holders' \subseteq Holders
  PROVE  WithinSlots'
<1>1. Cardinality(Holders') <= Cardinality(Holders) /\ IsFiniteSet(Holders')
  BY HoldersFinite, FS_Subset
<1>2. Cardinality(Holders') \in Nat /\ Cardinality(Holders) \in Nat /\ Slots \in Nat
  BY <1>1, HoldersFinite, FS_CardinalityType, JobAssumption
<1> QED  BY <1>1, <1>2 DEF WithinSlots

\* Who enters found a free slot.
LEMMA OneEnters ==
  ASSUME TypeOK, WithinSlots, NEW j \in Submitted, TakeSlot(j)
  PROVE  WithinSlots'
<1>1. Holders' \subseteq Holders \cup {j}
  BY DEF TakeSlot, Holders, Submitted, TypeOK
<1>2. IsFiniteSet(Holders \cup {j}) /\ Cardinality(Holders \cup {j}) <= Cardinality(Holders) + 1
  <2>1. IsFiniteSet(Holders) /\ Cardinality(Holders) \in Nat  BY HoldersFinite
  <2>2. /\ IsFiniteSet(Holders \cup {j})
        /\ Cardinality(Holders \cup {j}) =
             IF j \in Holders THEN Cardinality(Holders) ELSE Cardinality(Holders) + 1
    BY <2>1, FS_AddElement
  <2> QED  BY <2>1, <2>2
<1>3. Cardinality(Holders') <= Cardinality(Holders \cup {j}) /\ IsFiniteSet(Holders')
  BY <1>1, <1>2, FS_Subset
<1>4. Cardinality(Holders) < Slots  BY DEF TakeSlot
<1>5. /\ Cardinality(Holders') \in Nat /\ Cardinality(Holders \cup {j}) \in Nat
      /\ Cardinality(Holders) \in Nat /\ Slots \in Nat
  BY <1>2, <1>3, HoldersFinite, FS_CardinalityType, JobAssumption
<1> QED  BY <1>2, <1>3, <1>4, <1>5 DEF WithinSlots

LEMMA SlotsNext == IInv /\ SlotsInv /\ [Next]_vars => SlotsInv'
<1> SUFFICES ASSUME IInv, SlotsInv, [Next]_vars PROVE SlotsInv'  OBVIOUS
<1> USE DEF SlotsInv
<1>0. TypeOK /\ Submitted \subseteq JobId /\ born \in Nat
  BY JobAssumption DEF IInv, TypeOK, JobId, Submitted
<1>1. ASSUME NEW k \in Key, NEW d \in Kind, Submit(k, d) PROVE SlotsInv'
  <2> DEFINE j == born + 1
  <2>1. /\ born' = j /\ kindOf' = [kindOf EXCEPT ![j] = d] /\ pc' = [pc EXCEPT ![j] = "start"]
        /\ UNCHANGED <<thread, cancelled>> /\ born < MaxJobs
    BY <1>1 DEF Submit
  <2>2. j \in JobId /\ j \notin Submitted /\ Submitted' = Submitted \cup {j}
    BY <1>0, <2>1, JobAssumption DEF JobId, Submitted
  <2>3. pc[j] # "thread" /\ j \notin cancelled
    BY <1>0, <2>2 DEF IInv, Lifecycle, TypeOK
  <2> HIDE DEF j
  <2>4. AtWork'  BY <1>0, <2>1, <2>2, <2>3 DEF AtWork, TypeOK
  <2>5. Holders' \subseteq Holders
    BY <1>0, <2>1, <2>2 DEF Holders, TypeOK
  <2> QED  BY <1>0, <2>4, <2>5, NobodyEnters
<1>2. ASSUME NEW j \in Submitted, TakeSlot(j) PROVE SlotsInv'
  <2>1. AtWork'  BY <1>0, <1>2 DEF TakeSlot, AtWork, TypeOK
  <2> QED  BY <1>0, <1>2, <2>1, OneEnters
<1>3. ASSUME NEW j \in Submitted, Begin(j) \/ Warmed(j) \/ CancelUnstarted(j) PROVE SlotsInv'
  <2>1. AtWork'
    BY <1>0, <1>3 DEF Begin, Warmed, CancelUnstarted, AtWork, TypeOK, IInv
  <2>2. Holders' \subseteq Holders
    BY <1>0, <1>3 DEF Begin, Warmed, CancelUnstarted, Holders, Submitted, TypeOK
  <2> QED  BY <1>0, <2>1, <2>2, NobodyEnters
<1>4. ASSUME NEW j \in Submitted, WarmFails(j) \/ Complete(j) \/ DeliverCancel(j) PROVE SlotsInv'
  <2>1. /\ pc' = [pc EXCEPT ![j] = "end"]
        /\ UNCHANGED <<born, kindOf, cancelled>>
        /\ \/ thread' = thread /\ j \notin cancelled /\ pc[j] = "warm"
           \/ thread' = thread /\ thread[j] \in {"returned", "raised"}
           \/ j \in cancelled /\ \A i \in JobId : i # j => thread'[i] = thread[i]
    BY <1>0, <1>4 DEF WarmFails, Complete, DeliverCancel, Finish, TypeOK
  <2>2. AtWork'  BY <1>0, <2>1 DEF AtWork, TypeOK
  <2>3. Holders' \subseteq Holders  BY <1>0, <2>1 DEF Holders, Submitted, TypeOK
  <2> QED  BY <1>0, <2>2, <2>3, NobodyEnters
<1>5. ASSUME NEW j \in Submitted, ThreadStarts(j) \/ ThreadEnds(j) \/ ThreadStops(j) PROVE SlotsInv'
  <2>1. /\ UNCHANGED <<born, kindOf, pc, cancelled>>
        /\ \A i \in JobId : thread'[i] \in {"queued", "running"} => thread[i] \in {"queued", "running"}
    BY <1>0, <1>5 DEF ThreadStarts, ThreadEnds, ThreadStops, Thread, TypeOK
  <2>2. AtWork'  BY <2>1 DEF AtWork
  <2>3. Holders' \subseteq Holders  BY <2>1 DEF Holders, Submitted
  <2> QED  BY <1>0, <2>2, <2>3, NobodyEnters
<1>6. ASSUME \/ \E j \in Submitted : Cancel(j)
             \/ Shutdown \/ UNCHANGED vars
      PROVE  SlotsInv'
  <2>1. UNCHANGED <<born, kindOf, pc, thread>> /\ cancelled \subseteq cancelled'
    BY <1>6 DEF Cancel, Shutdown, vars
  <2>2. AtWork'  BY <2>1 DEF AtWork
  <2>3. Holders' \subseteq Holders  BY <2>1 DEF Holders, Submitted
  <2> QED  BY <1>0, <2>2, <2>3, NobodyEnters
<1> QED  BY <1>1, <1>2, <1>3, <1>4, <1>5, <1>6 DEF Next, Step

\* The jobs nobody asked to cancel never work on more threads than there are slots.
THEOREM SlotsHold == Spec => []UncancelledWithinSlots
<1>1. ASSUME IInv, SlotsInv PROVE UncancelledWithinSlots
  <2> DEFINE W == {j \in Submitted : /\ thread[j] \in {"queued", "running"}
                                     /\ kindOf[j] \in Guarded
                                     /\ j \notin cancelled}
  <2>1. Submitted \subseteq JobId  BY <1>1, JobAssumption DEF IInv, TypeOK, JobId, Submitted
  <2>2. W \subseteq Holders  BY <1>1, <2>1 DEF Holders, SlotsInv, AtWork
  <2>3. TypeOK  BY <1>1 DEF IInv
  <2>4. Cardinality(W) <= Cardinality(Holders) /\ IsFiniteSet(W)
    BY <2>2, <2>3, HoldersFinite, FS_Subset
  <2>5. Cardinality(W) \in Nat /\ Cardinality(Holders) \in Nat /\ Slots \in Nat
    BY <2>3, <2>4, HoldersFinite, FS_CardinalityType, JobAssumption
  <2>6. Cardinality(W) <= Slots  BY <1>1, <2>4, <2>5 DEF SlotsInv, WithinSlots
  <2> QED  BY <2>6 DEF UncancelledWithinSlots
<1> QED  BY <1>1, SlotsInit, SlotsNext, Invariance, PTL DEF Spec

-----------------------------------------------------------------------------
\* Whose status changes was not over; and no job that was asked to cancel begins or ends
\* any other way.
LEMMA StatusStep ==
  ASSUME IInv, [Next]_vars, NEW j \in Submitted, status'[j] # status[j]
  PROVE  status[j] \notin Terminal /\ (j \in cancelled => status'[j] = "cancelled")
<1>0. j \in JobId /\ born \in Nat /\ Submitted \subseteq JobId
  BY JobAssumption DEF IInv, TypeOK, JobId, Submitted
<1>1. ASSUME NEW k \in Key, NEW d \in Kind, Submit(k, d) PROVE FALSE
  <2>1. status' = [status EXCEPT ![born + 1] = "pending"]  BY <1>1 DEF Submit
  <2>2. j # born + 1  BY <1>0 DEF Submitted
  <2> QED  BY <1>0, <2>1, <2>2 DEF IInv, TypeOK
<1>2. ASSUME NEW i \in Submitted, Step(i)
      PROVE  status[j] \notin Terminal /\ (j \in cancelled => status'[j] = "cancelled")
  <2>1. CASE Begin(i)
    <3>1. i = j /\ j \notin cancelled /\ pc[j] = "start"
      BY <1>0, <2>1 DEF Begin, IInv, TypeOK
    <3> QED  BY <1>0, <3>1 DEF IInv, Lifecycle, Terminal
  <2>2. CASE WarmFails(i) \/ Complete(i) \/ DeliverCancel(i)
    <3>1. PICK outcome : Finish(i, outcome) /\ (i \in cancelled => outcome = "cancelled")
      BY <2>2 DEF WarmFails, Complete, DeliverCancel
    <3>2. i = j /\ status'[j] = outcome  BY <1>0, <3>1 DEF Finish, IInv, TypeOK
    <3>3. pc[j] \in {"warm", "slot", "thread"}
      BY <2>2, <3>2 DEF WarmFails, Complete, DeliverCancel
    <3> QED  BY <1>0, <3>1, <3>2, <3>3 DEF IInv, Lifecycle, Terminal
  <2>3. CASE Warmed(i) \/ TakeSlot(i) \/ CancelUnstarted(i)
    BY <2>3 DEF Warmed, TakeSlot, CancelUnstarted
  <2> QED  BY <1>2, <2>1, <2>2, <2>3 DEF Step
<1>3. ASSUME \/ \E i \in Submitted : Cancel(i) \/ ThreadStarts(i) \/ ThreadEnds(i) \/ ThreadStops(i)
             \/ Shutdown \/ UNCHANGED vars
      PROVE  FALSE
  BY <1>3 DEF Cancel, ThreadStarts, ThreadEnds, ThreadStops, Thread, Shutdown, vars
<1> QED  BY <1>1, <1>2, <1>3 DEF Next

\* An outcome is final, and a job that was asked to cancel ends as cancelled or not at all.
THEOREM CancelWins == Spec => CancelIsFinal
<1> DEFINE Final == \A j \in Submitted :
                      status'[j] # status[j] =>
                        /\ status[j] \notin Terminal
                        /\ j \in cancelled => status'[j] = "cancelled"
<1>1. IInv /\ [Next]_vars => [Final]_vars  BY StatusStep
<1> QED  BY <1>1, Invariance, PTL DEF Spec, CancelIsFinal

-----------------------------------------------------------------------------
(* Eviction. Of a finite set, as many members as one asks for come first, or all *)
(* of them do: so what goes is no more than the excess, and when it is less all   *)
(* that is finished has gone.                                                   *)

FirstOf(F, n) == {j \in F : Cardinality({i \in F : i < j}) < n}

LEMMA JobsFinite ==
  ASSUME NEW F \in SUBSET JobId, NEW j
  PROVE  /\ IsFiniteSet(F) /\ Cardinality(F) \in Nat
         /\ IsFiniteSet({i \in F : i < j}) /\ Cardinality({i \in F : i < j}) \in Nat
<1>1. IsFiniteSet(JobId)  BY JobAssumption, FS_Interval DEF JobId
<1>2. F \in SUBSET JobId /\ {i \in F : i < j} \in SUBSET JobId  OBVIOUS
<1> QED  BY <1>1, <1>2, FS_Subset, FS_CardinalityType

\* The least and the last of a set of jobs.
LEMMA JobsLeast ==
  ASSUME NEW S \in SUBSET JobId, S # {}
  PROVE  (\E m \in S : \A i \in S : m <= i) /\ (\E m \in S : \A i \in S : i <= m)
<1> DEFINE less == OpToRel(<, Nat)
<1>1. IsWellFoundedOn(less, Nat)  BY NatLessThanWellFounded
<1>2. \A x, y \in Nat : x < y => <<x, y>> \in less  BY DEF OpToRel
<1> HIDE DEF less
<1>3. JobId \subseteq Nat /\ MaxJobs \in Nat /\ \A i \in JobId : i <= MaxJobs
  BY JobAssumption DEF JobId
<1>4. PICK m \in S : \A i \in S : ~(<<i, m>> \in less)  BY <1>1, <1>3, WFMin
<1>5. ASSUME NEW i \in S PROVE m <= i
  <2>1. i \in Nat /\ m \in Nat  BY <1>3
  <2>2. ~(i < m)  BY <1>2, <1>4, <2>1
  <2> QED  BY <2>1, <2>2
<1> DEFINE Mirror == {MaxJobs - i : i \in S}
<1>6. Mirror \in SUBSET Nat /\ Mirror # {}
  <2>1. ASSUME NEW i \in S PROVE MaxJobs - i \in Nat
    <3>1. i \in Nat /\ i <= MaxJobs  BY <1>3
    <3> QED  BY <1>3, <3>1
  <2> QED  BY <2>1
<1>7. PICK u \in Mirror : \A v \in Mirror : ~(<<v, u>> \in less)
  <2> HIDE DEF Mirror
  <2> QED  BY <1>1, <1>6, WFMin
<1>8. PICK n \in S : u = MaxJobs - n  OBVIOUS
<1>9. ASSUME NEW i \in S PROVE i <= n
  <2>1. MaxJobs - i \in Mirror /\ MaxJobs - i \in Nat /\ u \in Nat  BY <1>6
  <2>2. ~(MaxJobs - i < u)  BY <1>2, <1>7, <2>1
  <2>3. i \in Nat /\ n \in Nat  BY <1>3
  <2> QED  BY <1>3, <1>8, <2>2, <2>3
<1> QED  BY <1>5, <1>9

\* No more than n come first.
LEMMA FirstAtMost ==
  ASSUME NEW F \in SUBSET JobId, NEW n \in Nat
  PROVE  Cardinality(FirstOf(F, n)) <= n
<1> DEFINE E == FirstOf(F, n)
<1>1. E \in SUBSET F /\ E \in SUBSET JobId  BY DEF FirstOf
<1>2. CASE E = {}  BY <1>2, FS_EmptySet
<1>3. CASE E # {}
  <2>1. PICK m \in E : \A i \in E : i <= m
    <3> HIDE DEF E
    <3> QED  BY <1>1, <1>3, JobsLeast
  <2> DEFINE front == {i \in F : i < m}
  <2>2. IsFiniteSet(front) /\ Cardinality(front) \in Nat  BY JobsFinite
  <2>3. Cardinality(front) < n  BY <2>1 DEF FirstOf
  <2>4. E \in SUBSET (front \cup {m})
    <3> SUFFICES ASSUME NEW i \in E, i # m PROVE i \in front  OBVIOUS
    <3>1. i \in Nat /\ m \in Nat /\ i <= m /\ i \in F
      BY <1>1, <2>1, JobAssumption DEF JobId
    <3> QED  BY <3>1
  <2> HIDE DEF front, E
  <2>5. Cardinality(front \cup {m}) <= Cardinality(front) + 1 /\ IsFiniteSet(front \cup {m})
    <3>1. /\ IsFiniteSet(front \cup {m})
          /\ Cardinality(front \cup {m}) =
               IF m \in front THEN Cardinality(front) ELSE Cardinality(front) + 1
      BY <2>2, FS_AddElement
    <3> QED  BY <2>2, <3>1
  <2>6. Cardinality(E) <= Cardinality(front \cup {m})  BY <2>4, <2>5, FS_Subset
  <2>7. Cardinality(E) \in Nat /\ Cardinality(front \cup {m}) \in Nat
    BY <1>1, <2>5, JobsFinite, FS_CardinalityType
  <2> QED  BY <2>2, <2>3, <2>5, <2>6, <2>7 DEF E
<1> QED  BY <1>2, <1>3

\* Fewer than n do only if all do.
LEMMA FirstOrAll ==
  ASSUME NEW F \in SUBSET JobId, NEW n \in Nat, Cardinality(FirstOf(F, n)) < n
  PROVE  FirstOf(F, n) = F
<1> DEFINE E == FirstOf(F, n)
<1>1. E \in SUBSET F /\ E \in SUBSET JobId  BY DEF FirstOf
<1> SUFFICES ASSUME F \ E # {} PROVE FALSE  BY <1>1
<1>2. PICK m \in F \ E : \A i \in F \ E : m <= i
  <2>1. F \ E \in SUBSET JobId  OBVIOUS
  <2> HIDE DEF E
  <2> QED  BY <2>1, JobsLeast
<1> DEFINE front == {i \in F : i < m}
<1>3. Cardinality(front) \in Nat /\ IsFiniteSet(E) /\ Cardinality(E) \in Nat  BY <1>1, JobsFinite
<1>4. ~(Cardinality(front) < n)  BY <1>2 DEF FirstOf
<1>5. front \in SUBSET E
  <2> SUFFICES ASSUME NEW i \in front, i \notin E PROVE FALSE  OBVIOUS
  <2>1. i \in F \ E /\ i < m /\ i \in Nat /\ m \in Nat  BY JobAssumption DEF JobId
  <2>2. m <= i  BY <1>2, <2>1
  <2> QED  BY <2>1, <2>2
<1> HIDE DEF front, E
<1>6. Cardinality(front) <= Cardinality(E)  BY <1>3, <1>5, FS_Subset
<1> QED  BY <1>3, <1>4, <1>6 DEF E

\* Finished jobs alone are evicted, the oldest first, no more than the bound asks for; as
\* long as there are too many, every job that is kept is active. For any history.
THEOREM OldestGoFirst == Spec => EvictionPolicy
<1> DEFINE gone == jobs \ jobs'
           Policy == gone # {} =>
                       /\ \A j \in gone : ~Active(j)
                       /\ \A j \in gone, i \in jobs' : i < j => Active(i)
                       /\ Cardinality(jobs') >= MaxHistory
                       /\ Cardinality(jobs') > MaxHistory => \A i \in jobs' : Active(i)'
<1>1. ASSUME IInv, [Next]_vars, jobs \ jobs' # {} PROVE Policy
  <2>1. PICK k \in Key, d \in Kind : Submit(k, d)
    <3>1. jobs' # jobs  BY <1>1
    <3>2. ASSUME NEW j \in Submitted, Step(j) PROVE FALSE
      BY <3>1, <3>2 DEF Step, Begin, Warmed, TakeSlot, WarmFails, Complete, DeliverCancel,
                        CancelUnstarted, Finish
    <3>3. ASSUME \/ \E j \in Submitted :
                      Cancel(j) \/ ThreadStarts(j) \/ ThreadEnds(j) \/ ThreadStops(j)
                 \/ Shutdown \/ UNCHANGED vars
          PROVE FALSE
      BY <3>1, <3>3 DEF Cancel, ThreadStarts, ThreadEnds, ThreadStops, Thread, Shutdown, vars
    <3> QED  BY <1>1, <3>2, <3>3 DEF Next
  <2> DEFINE j == born + 1
             st == [status EXCEPT ![j] = "pending"]
             known == jobs \cup {j}
             F == {i \in known : st[i] \in Terminal}
             excess == Cardinality(known) - MaxHistory
             E == FirstOf(F, excess)
  <2>2. jobs' = known \ E /\ status' = st /\ born < MaxJobs
    BY <2>1 DEF Submit, Evicted, FirstOf
  <2>3. /\ jobs \subseteq Submitted /\ Submitted \subseteq JobId /\ j \in JobId /\ j \notin Submitted
        /\ JobId \subseteq Nat
    BY <1>1, <2>2, JobAssumption DEF IInv, TypeOK, JobId, Submitted
  <2>4. /\ st[j] = "pending" /\ \A i \in jobs : st[i] = status[i]
        /\ \A i \in known : st[i] \in {"none", "pending", "running"} \cup Terminal
    <3>1. status \in [JobId -> Status]  BY <1>1 DEF IInv, TypeOK
    <3> QED  BY <2>3, <3>1 DEF Status
  <2>5. \A i \in jobs : status[i] # "none"
    <3>1. ASSUME NEW i \in jobs PROVE status[i] # "none"
      <4>1. i \in JobId /\ i \in Submitted  BY <2>3
      <4>2. pc[i] \in {"start", "warm", "slot", "thread", "end"}
        BY <1>1, <4>1 DEF IInv, TypeOK, Lifecycle
      <4> QED  BY <1>1, <4>1, <4>2 DEF IInv, Lifecycle, Terminal
    <3> QED  BY <3>1
  <2>6. known \in SUBSET JobId /\ F \in SUBSET JobId /\ F \subseteq jobs /\ E \subseteq F
    BY <2>3, <2>4 DEF FirstOf, Terminal
  <2>7. /\ \A i \in jobs : Active(i) <=> i \notin F
        /\ \A i \in known : (Active(i))' <=> i \notin F
    BY <2>2, <2>4, <2>5 DEF Active, Terminal
  <2>8. gone = E  BY <2>2, <2>3, <2>6
  <2> HIDE DEF j, st, F
  <2>9. IsFiniteSet(known) /\ Cardinality(known) \in Nat /\ IsFiniteSet(E) /\ Cardinality(E) \in Nat
    <3> HIDE DEF known, E
    <3> QED  BY <2>6, JobsFinite
  <2>10. Cardinality(jobs') = Cardinality(known) - Cardinality(E)
    <3>1. known \cap E = E  BY <2>6
    <3>2. jobs' = known \ E  BY <2>2
    <3> HIDE DEF known, E
    <3>3. Cardinality(known \ E) = Cardinality(known) - Cardinality(known \cap E)
      BY <2>9, FS_Difference
    <3> QED  BY <3>1, <3>2, <3>3
  <2>11. excess \in Nat /\ excess > 0
    <3>1. PICK i \in E : TRUE  BY <1>1, <2>8
    <3>2. Cardinality({h \in F : h < i}) < excess  BY <3>1 DEF FirstOf
    <3>3. Cardinality({h \in F : h < i}) \in Nat  BY <2>6, JobsFinite
    <3>4. excess \in Int  BY <2>9, JobAssumption
    <3> QED  BY <3>2, <3>3, <3>4
  <2>12. Cardinality(E) <= excess  BY <2>6, <2>11, FirstAtMost
  <2>13. Cardinality(E) < excess => E = F  BY <2>6, <2>11, FirstOrAll
  <2>14. \A i \in gone : ~Active(i)  BY <2>6, <2>7, <2>8
  <2>15. ASSUME NEW i \in gone, NEW h \in jobs', h < i PROVE Active(h)
    <3> SUFFICES ASSUME ~Active(h) PROVE FALSE  OBVIOUS
    <3>1. i \in F /\ i \in jobs /\ i \in JobId /\ Cardinality({g \in F : g < i}) < excess
      BY <2>6, <2>8 DEF FirstOf
    <3>2. h \in known /\ h \notin E /\ h # j
      <4>1. h \in known /\ h \notin E  BY <2>2
      <4>2. i \in 1 .. born /\ born \in Nat
        BY <1>1, <2>3, <3>1, JobAssumption DEF IInv, TypeOK, Submitted
      <4>3. i < j  BY <4>2 DEF j
      <4> QED  BY <2>3, <2>15, <3>1, <4>1, <4>3
    <3>3. h \in jobs /\ h \in F  BY <2>7, <3>2
    <3> DEFINE below == {g \in F : g < h}
               above == {g \in F : g < i}
    <3>4. below \in SUBSET above
      <4> SUFFICES ASSUME NEW g \in F, g < h PROVE g < i  OBVIOUS
      <4>1. g \in Nat /\ h \in Nat /\ i \in Nat  BY <2>3, <2>6, <3>1, <3>3
      <4> QED  BY <2>15, <4>1
    <3>5. IsFiniteSet(above) /\ Cardinality(above) \in Nat /\ Cardinality(below) \in Nat
      BY <2>6, JobsFinite
    <3>6. Cardinality(below) <= Cardinality(above)
      <4> HIDE DEF below, above
      <4> QED  BY <3>4, <3>5, FS_Subset
    <3>7. Cardinality(below) < excess  BY <2>11, <3>1, <3>5, <3>6
    <3>8. h \in E  BY <3>3, <3>7 DEF FirstOf
    <3> QED  BY <3>2, <3>8
  <2>16. Cardinality(jobs') >= MaxHistory  BY <2>9, <2>10, <2>11, <2>12, JobAssumption
  <2>17. ASSUME Cardinality(jobs') > MaxHistory PROVE \A i \in jobs' : (Active(i))'
    <3>1. E = F  BY <2>9, <2>10, <2>11, <2>13, <2>17, JobAssumption
    <3> QED  BY <2>2, <2>7, <3>1
  <2> QED  BY <2>14, <2>15, <2>16, <2>17
<1>2. IInv /\ [Next]_vars => [Policy]_vars  BY <1>1
<1> QED  BY <1>2, Invariance, PTL DEF Spec, EvictionPolicy

=============================================================================
