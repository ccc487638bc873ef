----------------------------- MODULE IndexSync ------------------------------
(***************************************************************************)
(* What keeping the search index in sync with NADA promises, whoever does  *)
(* it: a study's index entry only ever moves forward, and its row leaves   *)
(* NADA's change queue only once the entry is what the catalog has now.    *)
(***************************************************************************)
EXTENDS Integers

CONSTANTS
  Object,    \* what is kept in sync: studies, citations
  MaxVersion \* bound: how often each one changes

VARIABLES
  ver, \* the catalog's version of each object
  row, \* its row in the change queue
  idx  \* the version the search index has

vars == <<ver, row, idx>>

Init ==
  /\ ver = [o \in Object |-> 0]
  /\ row = [o \in Object |-> "none"]
  /\ idx = [o \in Object |-> 0]

\* The catalog changes: there is a pending row.
Change(o) ==
  /\ ver[o] < MaxVersion
  /\ ver' = [ver EXCEPT ![o] = @ + 1]
  /\ row' = [row EXCEPT ![o] = "pending"]
  /\ UNCHANGED idx

\* The index entry moves to a later version the catalog had.
Apply(o) ==
  /\ \E v \in idx[o] + 1 .. ver[o] : idx' = [idx EXCEPT ![o] = v]
  /\ UNCHANGED <<ver, row>>

\* Rows are taken off the queue: those of `synced` objects are done with, those
\* of `refused` ones wait for somebody to look at them.
Settle(synced, refused) ==
  /\ \A o \in synced : idx[o] = ver[o]
  /\ \A o \in refused : row[o] # "none"
  /\ row' = [o \in Object |-> IF o \in synced THEN "none"
                              ELSE IF o \in refused THEN "failed" ELSE row[o]]
  /\ UNCHANGED <<ver, idx>>

Next ==
  \/ \E o \in Object : Change(o) \/ Apply(o)
  \/ \E synced, refused \in SUBSET Object : Settle(synced, refused)

Spec == Init /\ [][Next]_vars
=============================================================================
