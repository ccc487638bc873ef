------------------------------ MODULE Generation ------------------------------
(***************************************************************************)
(* The generation of the study index: stamped into its mapping by whoever   *)
(* creates it, read by this process for every request to NADA and kept for  *)
(* a while (search/backend/opensearch/generation.py). The routes that drop  *)
(* and recreate the index (app/admin.py), the ingest that creates it when   *)
(* it is missing, its bulk writes, which create it too, and another process *)
(* work on the same index. Every request to OpenSearch is a step.           *)
(***************************************************************************)
EXTENDS Integers, FiniteSets

CONSTANTS
  Callers,     \* threads that send requests to NADA
  Admins,      \* requests to the admin routes
  Ingests,     \* threads that write the study index
  TTL,         \* _GENERATION_TTL
  Attempts,    \* _RECREATE_ATTEMPTS
  None,
  Unstamped,   \* the generation of an index made from the template alone
  MaxTime, MaxGenerations, MaxCalls   \* bounds

\* Times and generations are numbers, and None is no caller.
GenerationAssumption ==
  /\ TTL \in Nat /\ MaxTime \in Nat /\ MaxGenerations \in Nat
  /\ None \notin Callers

VARIABLES
  index,     \* the generation of the study index, Unstamped, or None: there is none
  next,      \* the next generation to be made
  cache,     \* _generation_cache: [value, at]
  lock,      \* _generation_lock: the caller that reads the mapping, or None
  caller, admin, ingest,   \* where each is
  now, calls,
  settled    \* history: whoever changed the index last was of this process and has
             \* forgotten the generation since

gvars == <<index, next, cache, lock, caller, admin, ingest, now, calls, settled>>

Long == -1 - TTL
Forgotten == [value |-> None, at |-> Long]
Away == [pc |-> "idle", read |-> None, sent |-> None, calm |-> FALSE]

Init ==
  /\ index \in {None, 0} /\ next = 1
  /\ cache = Forgotten /\ lock = None
  /\ caller = [c \in Callers |-> Away]
  /\ admin = [a \in Admins |-> [pc |-> "idle", round |-> 0]]
  /\ ingest = [g \in Ingests |-> "idle"]
  /\ now = 0 /\ calls = 0
  /\ settled = FALSE

\* The index becomes g; nobody has been told.
Becomes(g) ==
  /\ index' = g
  /\ settled' = FALSE
  /\ caller' = [c \in Callers |-> [caller[c] EXCEPT !.calm = FALSE]]

New == next < MaxGenerations /\ next' = next + 1 /\ Becomes(next)
Same == UNCHANGED <<index, next, settled, caller>>

-----------------------------------------------------------------------------
(* index_generation, called for every request (search_index_sync._client). *)

At(c, pc, read, sent) ==
  caller' = [caller EXCEPT ![c] =
              [pc |-> pc, read |-> read, sent |-> sent, calm |-> caller[c].calm]]

Send(c, value) == At(c, "sent", None, value)

Call(c) ==
  /\ caller[c].pc \in {"idle", "sent"} /\ calls < MaxCalls
  /\ calls' = calls + 1
  /\ caller' = [caller EXCEPT ![c] =
                [pc |-> "lock", read |-> None, sent |-> None, calm |-> settled]]
  /\ UNCHANGED <<index, next, cache, lock, admin, ingest, now, settled>>

\* A fresh value is used; else the mapping is read, with the lock held.
Look(c) ==
  /\ caller[c].pc = "lock" /\ lock = None
  /\ IF now - cache.at < TTL
     THEN Send(c, cache.value) /\ UNCHANGED lock
     ELSE lock' = c /\ At(c, "read", None, None)
  /\ UNCHANGED <<index, next, cache, admin, ingest, now, calls, settled>>

\* The mapping, or nothing where OpenSearch cannot be asked.
Read(c) ==
  /\ caller[c].pc = "read"
  /\ \E got \in {index, None} :
       At(c, "keep", IF got = Unstamped THEN None ELSE got, None)
  /\ UNCHANGED <<index, next, cache, lock, admin, ingest, now, calls, settled>>

Keep(c) ==
  /\ caller[c].pc = "keep"
  /\ cache' = [value |-> caller[c].read, at |-> now]
  /\ lock' = None
  /\ Send(c, caller[c].read)
  /\ UNCHANGED <<index, next, admin, ingest, now, calls, settled>>

\* Mutant: a reader under way is not waited for.
ForgetNow == cache' = Forgotten

\* forget_index_generation waits for a reader under way.
Forget == lock = None /\ cache' = Forgotten

-----------------------------------------------------------------------------
(* The admin routes. *)

AtAdmin(a, pc) == admin' = [admin EXCEPT ![a].pc = pc]

Ask(a, what) ==
  /\ admin[a].pc = "idle" /\ calls < MaxCalls
  /\ calls' = calls + 1
  /\ admin' = [admin EXCEPT ![a] = [pc |-> what, round |-> 0]]
  /\ UNCHANGED <<cache, lock, ingest, now>> /\ Same

\* DELETE /admin/index: an index after the study index may fail, and then nothing is
\* forgotten.
Drop(a) ==
  /\ admin[a].pc = "drop"
  /\ \E pc \in {"forget", "idle"} : AtAdmin(a, pc)
  /\ IF index = None THEN Same ELSE Becomes(None) /\ UNCHANGED next
  /\ UNCHANGED <<cache, lock, ingest, now, calls>>

\* POST /admin/index/studies/recreate: delete, create, and again where something else
\* created the index between.
Delete(a) ==
  /\ admin[a].pc = "recreate"
  /\ IF index = None THEN Same ELSE Becomes(None) /\ UNCHANGED next
  /\ AtAdmin(a, "create")
  /\ UNCHANGED <<cache, lock, ingest, now, calls>>

Create(a) ==
  /\ admin[a].pc = "create"
  /\ \/ index = None /\ New /\ AtAdmin(a, "forget")
     \/ /\ index # None /\ Same
        /\ admin' = [admin EXCEPT ![a] =
                      IF @.round = Attempts - 1 THEN [@ EXCEPT !.pc = "forget"]
                      ELSE [pc |-> "recreate", round |-> @.round + 1]]
     \/ Same /\ AtAdmin(a, "forget")    \* OpenSearch fails
  /\ UNCHANGED <<cache, lock, ingest, now, calls>>

\* Whether all who changed the index have forgotten what it was.
Others(forgetting) ==
  \/ \E a \in Admins \ forgetting : admin[a].pc \in {"create", "forget"}
  \/ \E g \in Ingests \ forgetting : ingest[g] = "forget"

ForgetBy(a) ==
  /\ Forget
  /\ settled' = (~Others({a}) /\ index # Unstamped)
  /\ UNCHANGED <<index, next, lock, caller, now, calls>>

\* The end of both routes, also where recreating failed.
AdminForgets(a) ==
  /\ admin[a].pc = "forget"
  /\ ForgetBy(a)
  /\ AtAdmin(a, "idle")
  /\ UNCHANGED ingest

-----------------------------------------------------------------------------
(* The ingest: ensure_studies_index, then bulk writes. *)

AtIngest(g, pc) == ingest' = [ingest EXCEPT ![g] = pc]

Exists(g) ==
  /\ ingest[g] = "idle"
  /\ AtIngest(g, IF index = None THEN "create" ELSE "write")
  /\ UNCHANGED <<cache, lock, admin, now, calls>> /\ Same

EnsureCreates(g) ==
  /\ ingest[g] = "create"
  /\ \/ index = None /\ New /\ AtIngest(g, "forget")
     \/ index # None /\ Same /\ AtIngest(g, "idle")   \* refused as existing: the run fails
  /\ UNCHANGED <<cache, lock, admin, now, calls>>

EnsureForgets(g) ==
  /\ ingest[g] = "forget"
  /\ ForgetBy(g)
  /\ AtIngest(g, "write")
  /\ UNCHANGED admin

\* A bulk write to an index that was dropped meanwhile makes one from the template,
\* which has no generation.
BulkWrites(g) ==
  /\ ingest[g] = "write"
  /\ IF index = None THEN Becomes(Unstamped) /\ UNCHANGED next ELSE Same
  /\ AtIngest(g, "idle")
  /\ UNCHANGED <<cache, lock, admin, now, calls>>

\* Another process recreates the index.
Elsewhere ==
  /\ New
  /\ UNCHANGED <<cache, lock, admin, ingest, now, calls>>

\* The scheduler forgets it when NADA says it follows another index (_not_tracking).
Refused ==
  /\ Forget
  /\ UNCHANGED <<index, next, lock, caller, admin, ingest, now, calls, settled>>

Tick ==
  /\ now < MaxTime
  /\ now' = now + 1
  /\ UNCHANGED <<index, next, cache, lock, caller, admin, ingest, calls, settled>>

Next ==
  \/ \E c \in Callers : Call(c) \/ Look(c) \/ Read(c) \/ Keep(c)
  \/ \E a \in Admins : Ask(a, "drop") \/ Ask(a, "recreate") \/ Drop(a) \/ Delete(a) \/ Create(a) \/ AdminForgets(a)
  \/ \E g \in Ingests : Exists(g) \/ EnsureCreates(g) \/ EnsureForgets(g) \/ BulkWrites(g)
  \/ Elsewhere \/ Refused \/ Tick

Spec == Init /\ [][Next]_gvars

-----------------------------------------------------------------------------
(* Properties. *)

\* Type correctness; the cache is written only under the lock.
TypeOK ==
  /\ index \in 0..MaxGenerations \cup {Unstamped, None}
  /\ cache.value \in 0..MaxGenerations \cup {None} /\ cache.at <= now
  /\ lock \in Callers \cup {None}
  /\ \A c \in Callers : (lock = c) <=> caller[c].pc \in {"read", "keep"}

\* "so the next request reads the new one": once a route or an ingest that made or
\* dropped the index is through, a request that starts before anything changes the
\* index again sends the generation the index has, or none, never an old one that a
\* reader under way put back.
NewOneSent ==
  \A c \in Callers : caller[c].pc = "sent" /\ caller[c].calm /\ settled => caller[c].sent \in {index, None}
=============================================================================
