---------------------------- MODULE SingleFlight ----------------------------
(***************************************************************************)
(* What the job registry promises its callers: work is single-flighted by  *)
(* key. A job is born into a key nobody is working on, works alone on it,  *)
(* and leaves it; a job id is never used twice.                            *)
(***************************************************************************)
CONSTANTS
  Key,    \* what is single-flighted: "content:survey:X", "create_index", ...
  JobId   \* the ids jobs are given

VARIABLES
  flight, \* key -> the jobs at work under it
  used    \* the ids given out so far

vars == <<flight, used>>

Init ==
  /\ flight = [k \in Key |-> {}]
  /\ used = {}

\* A job takes off: its key is idle and its id is new.
TakeOff(k, j) ==
  /\ flight[k] = {}
  /\ j \notin used
  /\ flight' = [flight EXCEPT ![k] = {j}]
  /\ used' = used \cup {j}

\* The key's job has come to an end, whatever the outcome.
Land(k) ==
  /\ flight[k] # {}
  /\ flight' = [flight EXCEPT ![k] = {}]
  /\ UNCHANGED used

Next == \E k \in Key : Land(k) \/ \E j \in JobId : TakeOff(k, j)

Spec == Init /\ [][Next]_vars
=============================================================================
