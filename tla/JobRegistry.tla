---------------------------- MODULE JobRegistry -----------------------------
(***************************************************************************)
(* The registry of background jobs (app/jobs.py) and the one way ingest    *)
(* jobs reach a worker thread (app/_ingest.py).                            *)
(*                                                                         *)
(* A job is a coroutine on the event loop: it runs without interruption    *)
(* from one await to the next, and `pc` is the await it is suspended at.   *)
(* The work itself is a thread, which lives on when the coroutine that     *)
(* waits for it is cancelled. Task.cancel() is a request (`cancelled`)     *)
(* that is delivered when the event loop next runs the coroutine.          *)
(***************************************************************************)
EXTENDS Integers, FiniteSets

CONSTANTS
  Key,        \* the single-flight keys
  Kind,       \* what a job does, as far as the registry can tell:
  Guarded,    \*   the kinds dispatched by guarded_ingest (embedding + semaphore)
  Stoppable,  \*   the kinds submitted with a cancel token
  Slots,      \* settings.max_concurrent_ingest_jobs
  MaxHistory, \* max_history
  MaxJobs     \* bound: how many jobs are submitted

ASSUME JobAssumption ==
  /\ Key # {}
  /\ Kind # {}
  /\ Guarded \subseteq Kind
  /\ Stoppable \subseteq Kind
  /\ Slots \in Nat \ {0}
  /\ MaxHistory \in Nat
  /\ MaxJobs \in Nat

JobId == 1 .. MaxJobs   \* in the order of submission, the order of _jobs
Nobody == 0
Terminal == {"succeeded", "failed", "cancelled"}
Status == {"none", "pending", "running"} \cup Terminal

VARIABLES
  born,      \* how many jobs were created
  jobs,      \* _jobs: the jobs the registry still knows
  keyOf,     \* Job.key
  kindOf,    \* Job.kind
  status,    \* Job.status
  owner,     \* _key_to_id
  pc,        \* where the job's coroutine is suspended
  thread,    \* the job's call on the thread pool
  cancelled, \* the jobs whose task was asked to cancel
  token,     \* the jobs whose cancel token is set
  down       \* shutdown() was called

vars == <<born, jobs, keyOf, kindOf, status, owner, pc, thread, cancelled, token, down>>

Submitted == 1 .. born
Active(j) == status[j] \in {"pending", "running"}

TypeOK ==
  /\ born \in 0 .. MaxJobs
  /\ jobs \subseteq Submitted
  /\ keyOf \in [JobId -> Key]
  /\ kindOf \in [JobId -> Kind]
  /\ status \in [JobId -> Status]
  /\ owner \in [Key -> JobId \cup {Nobody}]
  /\ pc \in [JobId -> {"none", "start", "warm", "slot", "thread", "end"}]
  /\ thread \in [JobId -> {"none", "queued", "running", "returned", "raised", "dropped"}]
  /\ cancelled \subseteq Submitted
  /\ token \subseteq Submitted
  /\ down \in BOOLEAN

Init ==
  /\ born = 0
  /\ jobs = {}
  /\ keyOf = [j \in JobId |-> CHOOSE k \in Key : TRUE]    \* of no meaning yet
  /\ kindOf = [j \in JobId |-> CHOOSE k \in Kind : TRUE]
  /\ status = [j \in JobId |-> "none"]
  /\ owner = [k \in Key |-> Nobody]
  /\ pc = [j \in JobId |-> "none"]
  /\ thread = [j \in JobId |-> "none"]
  /\ cancelled = {}
  /\ token = {}
  /\ down = FALSE

-----------------------------------------------------------------------------
\* (The definitions called mutants are bugs the code could have; no action uses
\* them. Each shows that a property would notice.)

\* Mutant: the newest finished job goes first.
EvictedNewest(known, st) ==
  LET finished == {j \in known : st[j] \in Terminal}
  IN {j \in finished : Cardinality({i \in finished : i > j}) < Cardinality(known) - MaxHistory}

\* _evict_finished: while more than max_history jobs are kept, the oldest
\* finished one goes. Active jobs are never evicted.
Evicted(known, st) ==
  LET finished == {j \in known : st[j] \in Terminal}
      excess == Cardinality(known) - MaxHistory
  IN {j \in finished : Cardinality({i \in finished : i < j}) < excess}

\* Mutant: a job that has not begun does not count.
InFlightRunning(k) == owner[k] \in jobs /\ status[owner[k]] = "running"

\* The job submit() would answer with instead of creating one.
InFlight(k) ==
  /\ owner[k] \in jobs
  /\ status[owner[k]] \notin Terminal

\* submit: a new job, unless the key is in flight (then nothing changes: the
\* caller gets the other job's snapshot, and an endpoint answers 409 with it).
Submit(k, d) ==
  /\ ~down
  /\ born < MaxJobs
  /\ ~InFlight(k)
  /\ LET j == born + 1
         st == [status EXCEPT ![j] = "pending"]
     IN /\ born' = j
        /\ keyOf' = [keyOf EXCEPT ![j] = k]
        /\ kindOf' = [kindOf EXCEPT ![j] = d]
        /\ status' = st
        /\ owner' = [owner EXCEPT ![k] = j]
        /\ pc' = [pc EXCEPT ![j] = "start"]
        /\ jobs' = (jobs \cup {j}) \ Evicted(jobs \cup {j}, st)
  /\ UNCHANGED <<thread, cancelled, token, down>>

\* _run, first step: the job is running. An ingest job warms the embedding
\* model first (guarded_ingest); any other goes straight to its thread.
Begin(j) ==
  /\ pc[j] = "start"
  /\ j \notin cancelled
  /\ status' = [status EXCEPT ![j] = "running"]
  /\ IF kindOf[j] \in Guarded
     THEN pc' = [pc EXCEPT ![j] = "warm"] /\ UNCHANGED thread
     ELSE /\ pc' = [pc EXCEPT ![j] = "thread"]
          /\ thread' = [thread EXCEPT ![j] = "queued"]
  /\ UNCHANGED <<born, jobs, keyOf, kindOf, owner, cancelled, token, down>>

\* The model is loaded: on to `async with s.ingest_semaphore`.
Warmed(j) ==
  /\ pc[j] = "warm"
  /\ j \notin cancelled
  /\ pc' = [pc EXCEPT ![j] = "slot"]
  /\ UNCHANGED <<born, jobs, keyOf, kindOf, status, owner, thread, cancelled, token, down>>

\* Mutant: the semaphore is never released.
HoldersForever == {j \in Submitted : thread[j] # "none" /\ kindOf[j] \in Guarded}

\* The jobs inside the `async with`: they hold the semaphore.
Holders == {j \in Submitted : pc[j] = "thread" /\ kindOf[j] \in Guarded}

\* Mutant: one job more than there are slots.
TakeSlotMore(j) ==
  /\ pc[j] = "slot"
  /\ j \notin cancelled
  /\ Cardinality(Holders) <= Slots
  /\ pc' = [pc EXCEPT ![j] = "thread"]
  /\ thread' = [thread EXCEPT ![j] = "queued"]
  /\ UNCHANGED <<born, jobs, keyOf, kindOf, status, owner, cancelled, token, down>>

TakeSlot(j) ==
  /\ pc[j] = "slot"
  /\ j \notin cancelled
  /\ Cardinality(Holders) < Slots
  /\ pc' = [pc EXCEPT ![j] = "thread"]
  /\ thread' = [thread EXCEPT ![j] = "queued"]
  /\ UNCHANGED <<born, jobs, keyOf, kindOf, status, owner, cancelled, token, down>>

\* Mutant: no finally clause.
FinishKeepsKey(j, outcome) ==
  /\ status' = [status EXCEPT ![j] = outcome]
  /\ pc' = [pc EXCEPT ![j] = "end"]
  /\ UNCHANGED <<born, jobs, keyOf, kindOf, owner, cancelled, token, down>>

\* What _run's except and finally clauses do, in one step of the event loop:
\* the outcome, and the key, unless another job holds it by now.
Finish(j, outcome) ==
  /\ status' = [status EXCEPT ![j] = outcome]
  /\ pc' = [pc EXCEPT ![j] = "end"]
  /\ owner' = [k \in Key |-> IF k = keyOf[j] /\ owner[k] = j THEN Nobody ELSE owner[k]]
  /\ UNCHANGED <<born, jobs, keyOf, kindOf, cancelled, token, down>>

\* The factory raises before there is a thread: the model does not load.
WarmFails(j) ==
  /\ pc[j] = "warm"
  /\ j \notin cancelled
  /\ Finish(j, "failed")
  /\ UNCHANGED thread

\* Mutant: a result that is there is delivered although a cancel is pending.
CompleteAnyway(j) ==
  /\ pc[j] = "thread"
  /\ \/ thread[j] = "returned" /\ Finish(j, "succeeded")
     \/ thread[j] = "raised" /\ Finish(j, "failed")
  /\ UNCHANGED thread

\* The thread's result reaches the coroutine.
Complete(j) ==
  /\ pc[j] = "thread"
  /\ j \notin cancelled
  /\ \/ thread[j] = "returned" /\ Finish(j, "succeeded")
     \/ thread[j] = "raised" /\ Finish(j, "failed")
  /\ UNCHANGED thread

\* Mutant: the thread is given a job's status.
DeliverCancelToThread(j) ==
  /\ pc[j] \in {"warm", "slot", "thread"}
  /\ j \in cancelled
  /\ Finish(j, "cancelled")
  /\ thread' = [thread EXCEPT ![j] = "cancelled"]

\* CancelledError reaches the coroutine: at whichever await it is suspended
\* the job ends as cancelled and leaves the semaphore. A call still queued in
\* the thread pool is dropped; a running thread goes on.
DeliverCancel(j) ==
  /\ pc[j] \in {"warm", "slot", "thread"}
  /\ j \in cancelled
  /\ Finish(j, "cancelled")
  /\ thread' = [thread EXCEPT ![j] = IF @ = "queued" THEN "dropped" ELSE @]

\* A task cancelled before its first step never enters _run: no status, no
\* finally. Only shutdown() is early enough for that (a client learns the id
\* of a job after the loop has started it).
CancelUnstarted(j) ==
  /\ pc[j] = "start"
  /\ j \in cancelled
  /\ pc' = [pc EXCEPT ![j] = "end"]
  /\ UNCHANGED <<born, jobs, keyOf, kindOf, status, owner, thread, cancelled, token, down>>

\* Mutant: only the task is cancelled.
CancelTaskOnly(j) ==
  /\ ~down
  /\ j \in jobs
  /\ status[j] = "running"
  /\ cancelled' = cancelled \cup {j}
  /\ UNCHANGED <<born, jobs, keyOf, kindOf, status, owner, pc, thread, token, down>>

\* cancel: the token is set (when there is one), the task is asked to cancel.
Cancel(j) ==
  /\ ~down
  /\ j \in jobs
  /\ status[j] = "running"
  /\ token' = IF kindOf[j] \in Stoppable THEN token \cup {j} ELSE token
  /\ cancelled' = cancelled \cup {j}
  /\ UNCHANGED <<born, jobs, keyOf, kindOf, status, owner, pc, thread, down>>

\* shutdown: every task is asked to cancel; tokens are left alone.
Shutdown ==
  /\ ~down
  /\ down' = TRUE
  /\ cancelled' = cancelled \cup {j \in Submitted : pc[j] # "end"}
  /\ UNCHANGED <<born, jobs, keyOf, kindOf, status, owner, pc, thread, token>>

-----------------------------------------------------------------------------
\* The worker threads.
Thread(j, from, to) ==
  /\ thread[j] = from
  /\ thread' = [thread EXCEPT ![j] = to]
  /\ UNCHANGED <<born, jobs, keyOf, kindOf, status, owner, pc, cancelled, token, down>>

ThreadStarts(j) == Thread(j, "queued", "running")

\* The work is done, or raises.
ThreadEnds(j) == Thread(j, "running", "returned") \/ Thread(j, "running", "raised")

\* The work sees its token set, and returns early.
ThreadStops(j) == j \in token /\ Thread(j, "running", "returned")

Step(j) ==
  \/ Begin(j) \/ Warmed(j) \/ TakeSlot(j)
  \/ WarmFails(j) \/ Complete(j)
  \/ DeliverCancel(j) \/ CancelUnstarted(j)

Next ==
  \/ \E k \in Key, d \in Kind : Submit(k, d)
  \/ \E j \in Submitted :
       Step(j) \/ Cancel(j) \/ ThreadStarts(j) \/ ThreadEnds(j) \/ ThreadStops(j)
  \/ Shutdown

Spec == Init /\ [][Next]_vars

(***************************************************************************)
(* Fairness. The event loop runs every ready coroutine, and the semaphore  *)
(* wakes its waiters in turn, so a job whose next step is possible again   *)
(* and again takes it. A thread the pool was given starts. How long the    *)
(* work lasts is another matter: a single study's is short, a stoppable    *)
(* job may walk the whole catalog, and only its token is sure to end it.   *)
(***************************************************************************)
FairSpec ==
  /\ Spec
  /\ \A j \in JobId :
       /\ SF_vars(j \in Submitted /\ Step(j))
       /\ WF_vars(j \in Submitted /\ ThreadStarts(j))
       /\ WF_vars(j \in Submitted /\ ThreadStops(j))
       /\ WF_vars(j \in Submitted /\ kindOf[j] \notin Stoppable /\ ThreadEnds(j))

-----------------------------------------------------------------------------
(***************************************************************************)
(* Properties                                                              *)
(***************************************************************************)

\* Single-flight: no two unfinished jobs work under the same key, whatever is
\* submitted, evicted, cancelled or failed in between.
OnePerKey ==
  \A i, j \in Submitted : Active(i) /\ Active(j) /\ keyOf[i] = keyOf[j] => i = j

\* A key is never left held by a job that is over (nobody could submit under
\* it again; at shutdown nobody can anyway), and an unfinished job never loses
\* its key or its registry entry (GET /jobs/{id} would say 404 and single-flight
\* would let a second one in).
KeysMatchJobs ==
  /\ \A k \in Key : owner[k] # Nobody =>
       /\ owner[k] \in jobs
       /\ Active(owner[k])
       /\ keyOf[owner[k]] = k
       /\ pc[owner[k]] = "end" => down
  /\ \A j \in Submitted : Active(j) => j \in jobs /\ owner[keyOf[j]] = j

\* The semaphore's bound holds for the work of jobs nobody asked to cancel.
UncancelledWithinSlots ==
  Cardinality({j \in Submitted : /\ thread[j] \in {"queued", "running"}
                                 /\ kindOf[j] \in Guarded
                                 /\ j \notin cancelled}) <= Slots

\* Eviction takes finished jobs only, the oldest first, and only as many as
\* the bound asks for; over the bound, everything kept is still active.
EvictionPolicy ==
  [][LET gone == jobs \ jobs'
     IN gone # {} =>
          /\ \A j \in gone : ~Active(j)
          /\ \A j \in gone, i \in jobs' : i < j => Active(i)
          /\ Cardinality(jobs') >= MaxHistory
          /\ Cardinality(jobs') > MaxHistory => \A i \in jobs' : Active(i)']_vars

\* Once a job was asked to cancel it never ends in success or failure, also
\* when its thread's result is already on the way to the event loop; and an
\* outcome, once recorded, is final.
CancelIsFinal ==
  [][\A j \in Submitted :
       status'[j] # status[j] =>
         /\ status[j] \notin Terminal
         /\ j \in cancelled => status'[j] = "cancelled"]_vars

\* When all work comes to an end, every job that was started does: whoever waits
\* for the semaphore gets it, whatever became of the jobs that had it.
EveryJobEnds ==
  (\A j \in JobId : []<>(thread[j] # "running"))
    => \A j \in JobId : status[j] = "running" ~> status[j] \in Terminal

\* Cancelling a job with a token stops its work too, however long the work
\* would have taken.
CancelStopsWork ==
  \A j \in JobId :
    (j \in cancelled /\ ~down /\ kindOf[j] \in Stoppable)
      ~> (status[j] = "cancelled" /\ thread[j] \notin {"queued", "running"})

\* The registry implements single-flight by key.
flightOf == [k \in Key |-> {j \in Submitted : Active(j) /\ keyOf[j] = k}]
SF == INSTANCE SingleFlight WITH flight <- flightOf, used <- Submitted
IsSingleFlight == SF!Spec

-----------------------------------------------------------------------------
(***************************************************************************)
(* What the code's comments say and the code does not do.                  *)
(***************************************************************************)

\* app/_ingest.py: the semaphore bounds "concurrent embedding-compute jobs to
\* settings.max_concurrent_ingest_jobs".
ComputeWithinSlots ==
  Cardinality({j \in Submitted : thread[j] = "running" /\ kindOf[j] \in Guarded}) <= Slots
=============================================================================
