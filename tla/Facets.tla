------------------------------- MODULE Facets -------------------------------
(***************************************************************************)
(* The registry of dynamic filter keys (search/dynamic_filters.py,          *)
(* filters/facets_service.py): one file with the keys offered as facets and *)
(* those an admin removed. Admin requests change it one at a time, under    *)
(* facets_config_lock (app/facets_admin.py); a filter sync in a job's       *)
(* thread registers the keys it meets (filters/sync.py) without that lock.  *)
(* Every step below is one read or one atomic replacement of the file. The  *)
(* process may stop between two of them, or a write fail; a file that        *)
(* cannot be read counts as a missing one, whose deny list is empty.         *)
(***************************************************************************)
EXTENDS Integers, FiniteSets

CONSTANTS
  Keys,        \* filter keys
  Fixed,       \* FIXED_FILTER_KEYS: searchable without being facets
  Defaults,    \* _DEFAULT_FACETABLE, what a missing file means
  Admins,      \* admin requests under way
  Syncs,       \* filter syncs under way
  None,
  MaxOps       \* bound: how many operations are begun

\* None is no request and no file, and a request is an admin's or a sync.
FacetsAssumption ==
  /\ Defaults \subseteq Keys /\ None \notin Admins \cup Syncs /\ Admins \cap Syncs = {}
  /\ None \notin [facetable : SUBSET Keys, excluded : SUBSET Keys]

VARIABLES
  file,     \* [facetable, excluded], or None: there is no file
  lock,     \* facets_config_lock: the request that has it, or None
  op,       \* each operation under way
  begun,
  removed,  \* history: the keys whose removal an admin was told of and no request added since
  serial,   \* history: what the file would be, had the requests run one after the other
  alone,    \* history: no sync wrote, nothing stopped half-way, every read succeeded
  overtaken \* history: a sync wrote that was under way together with a request, or the
            \* file could not be read once

vars == <<file, lock, op, begun, removed, serial, alone, overtaken>>

Actors == Admins \cup Syncs

\* _load_facets_file, of a file that is there and can be read, or of none.
Loaded(f) == IF f = None THEN [facetable |-> Defaults, excluded |-> {}] ELSE f

\* What one call of it gives: the two lists, or, when the file is there and cannot be
\* read, what a missing file gives. Nobody is told of the latter: the histories are.
Reads(f) ==
  /\ f \in {Loaded(file), Loaded(None)}
  /\ IF f = Loaded(file) THEN UNCHANGED <<alone, overtaken>>
     ELSE alone' = FALSE /\ overtaken' = TRUE

Idle == [pc |-> "idle", kind |-> None, keys |-> {}, seen |-> {}, late |-> FALSE]

Init ==
  /\ file = None
  /\ lock = None
  /\ op = [a \in Actors |-> Idle]
  /\ begun = 0
  /\ removed = {}
  /\ serial = Loaded(None)
  /\ alone = TRUE
  /\ overtaken = FALSE

-----------------------------------------------------------------------------
(* The operations, as one after the other. *)

Serially(kind, keys, f) ==
  CASE kind = "set" -> [facetable |-> keys, excluded |-> f.excluded]
    [] kind = "add" -> [facetable |-> f.facetable \cup keys, excluded |-> f.excluded \ keys]
    [] kind = "remove" -> [facetable |-> f.facetable \ keys,
                           excluded |-> f.excluded \cup (f.facetable \cap keys)]

Does(a, pc, kind, keys, seen) ==
  op' = [op EXCEPT ![a] = [pc |-> pc, kind |-> kind, keys |-> keys, seen |-> seen,
                           late |-> op[a].late]]
Goes(a, pc, seen) == Does(a, pc, op[a].kind, op[a].keys, seen)

\* A request arrives; the lock is taken before anything is read.
Request(a, kind, keys) ==
  /\ op[a].pc = "idle" /\ begun < MaxOps
  /\ Does(a, "lock", kind, keys, {})
  /\ begun' = begun + 1
  /\ UNCHANGED <<file, lock, removed, serial, alone, overtaken>>

\* Mutant: nothing serialises the requests.
AcquireFreely(a) ==
  /\ a \in Admins /\ op[a].pc = "lock"
  /\ Goes(a, IF op[a].kind = "set" THEN "save" ELSE "load", {})
  /\ UNCHANGED <<file, lock, begun, removed, serial, alone, overtaken>>

Acquire(a) ==
  /\ a \in Admins /\ op[a].pc = "lock" /\ lock = None
  /\ lock' = a
  /\ Goes(a, IF op[a].kind = "set" THEN "save" ELSE "load", {})
  /\ UNCHANGED <<file, begun, removed, serial, alone, overtaken>>

\* auto_register_new_facet_keys reads the two lists, one after the other; what is in
\* neither, nor fixed, is added like an admin would. A sync has no lock to take.
SyncReads(a, f) ==
  /\ a \in Syncs /\ op[a].pc = "lock"
  /\ Does(a, "excluded", "sync", op[a].keys \ (f.facetable \cup Fixed), {})
  /\ Reads(f) /\ UNCHANGED <<file, lock, begun, removed, serial>>

SyncChecks(a, f) ==
  /\ op[a].pc = "excluded"
  /\ LET new == op[a].keys \ f.excluded
     IN \/ new = {} /\ op' = [op EXCEPT ![a] = Idle]
        \/ new # {} /\ Does(a, "load", "add", new, {})
  /\ Reads(f) /\ UNCHANGED <<file, lock, begun, removed, serial>>

\* load_dynamic_facet_keys, of add_facet_keys and remove_facet_keys.
Load(a, f) ==
  /\ op[a].pc = "load"
  /\ Goes(a, "save", f.facetable)
  /\ Reads(f) /\ UNCHANGED <<file, lock, begun, removed, serial>>

\* What an operation makes of the facetable keys it saw.
NewFacetable(kind, keys, seen) ==
  CASE kind = "set" -> keys
    [] kind = "add" -> seen \cup keys
    [] kind = "remove" -> seen \ keys

\* save_dynamic_facet_keys reads the other list, to keep it, and replaces the file.
SaveReads(a, f) ==
  /\ op[a].pc = "save"
  /\ Goes(a, "write", [all |-> op[a].seen, kept |-> f.excluded])
  /\ Reads(f) /\ UNCHANGED <<file, lock, begun, removed, serial>>

\* An operation ends, and the syncs that are under way with a request come to be late.
Ends(a) ==
  /\ op' = [b \in Actors |->
              IF b = a THEN Idle
              ELSE [op[b] EXCEPT !.late =
                      @ \/ (a \in Admins /\ b \in Syncs /\ op[b].pc \notin {"idle", "lock"})]]
  /\ lock' = IF lock = a THEN None ELSE lock

Finished(a) ==
  /\ Ends(a)
  /\ IF a \in Admins
     THEN /\ serial' = Serially(op[a].kind, op[a].keys, serial)
          /\ removed' = IF op[a].kind = "remove"
                        THEN removed \cup (op[a].seen \cap op[a].keys) ELSE removed
     ELSE UNCHANGED <<serial, removed>>

Writes(a) ==
  /\ alone' = (alone /\ a \in Admins)
  /\ overtaken' = (overtaken \/ (a \in Syncs /\ (op[a].late \/ lock # None)))

SaveWrites(a) ==
  /\ op[a].pc = "write"
  /\ file' = [facetable |-> NewFacetable(op[a].kind, op[a].keys, op[a].seen.all),
              excluded |-> op[a].seen.kept]
  /\ Goes(a, "deny", op[a].seen.all)
  /\ removed' = IF a \in Admins /\ op[a].kind # "remove" THEN removed \ op[a].keys ELSE removed
  /\ Writes(a)
  /\ UNCHANGED <<lock, begun, serial>>

\* load_excluded_facet_keys, and whether the deny list changes: a key that is added
\* leaves it, one that was there and is removed enters it.
Deny(a, f) ==
  /\ op[a].pc = "deny"
  /\ LET o == op[a]
         deny == IF o.kind = "add" THEN f.excluded \ o.keys
                 ELSE f.excluded \cup (o.seen \cap o.keys)
         same == CASE o.kind = "set" -> TRUE
                   [] o.kind = "add" -> f.excluded \cap o.keys = {}
                   [] o.kind = "remove" -> o.seen \cap o.keys = {}
     IN \/ same /\ Finished(a)
        \/ /\ ~same /\ Goes(a, "saveDeny", [all |-> o.seen, deny |-> deny])
           /\ UNCHANGED <<lock, removed, serial>>
  /\ Reads(f) /\ UNCHANGED <<file, begun>>

\* save_excluded_facet_keys reads the first list, to keep it, and replaces the file.
DenyReads(a, f) ==
  /\ op[a].pc = "saveDeny"
  /\ Goes(a, "writeDeny", [all |-> op[a].seen.all, deny |-> op[a].seen.deny,
                            kept |-> f.facetable])
  /\ Reads(f) /\ UNCHANGED <<file, lock, begun, removed, serial>>

DenyWrites(a) ==
  /\ op[a].pc = "writeDeny"
  /\ file' = [facetable |-> op[a].seen.kept, excluded |-> op[a].seen.deny]
  /\ Goes(a, "over", op[a].seen.all)
  /\ Writes(a)
  /\ UNCHANGED <<lock, begun, removed, serial>>

Over(a) ==
  /\ op[a].pc = "over"
  /\ Finished(a)
  /\ UNCHANGED <<file, begun, alone, overtaken>>

\* A write fails (the caller gets 503, the lock is released), or the process stops.
Fails(a) ==
  /\ op[a].pc \in {"write", "writeDeny"}
  /\ Ends(a)
  /\ alone' = FALSE
  /\ UNCHANGED <<file, begun, removed, serial, overtaken>>

Crash ==
  /\ \E a \in Actors : op[a].pc # "idle"
  /\ op' = [a \in Actors |-> Idle]
  /\ lock' = None
  /\ alone' = FALSE
  /\ UNCHANGED <<file, begun, removed, serial, overtaken>>

Next ==
  \/ \E a \in Admins, kind \in {"set", "add", "remove"}, keys \in SUBSET Keys : Request(a, kind, keys)
  \/ \E a \in Syncs, keys \in SUBSET Keys : Request(a, "sync", keys)
  \/ \E a \in Actors :
       \/ Acquire(a) \/ SaveWrites(a) \/ DenyWrites(a) \/ Over(a) \/ Fails(a)
       \/ \E f \in {Loaded(file), Loaded(None)} :
            \/ SyncReads(a, f) \/ SyncChecks(a, f) \/ Load(a, f) \/ SaveReads(a, f)
            \/ Deny(a, f) \/ DenyReads(a, f)
  \/ Crash

Spec == Init /\ [][Next]_vars

-----------------------------------------------------------------------------
(* Properties. *)

\* Type correctness.
TypeOK ==
  /\ file = None \/ (file.facetable \subseteq Keys /\ file.excluded \subseteq Keys)
  /\ lock \in Admins \cup {None}
  /\ \A a \in Actors : op[a].keys \subseteq Keys
  /\ removed \subseteq Keys

\* facets_config_lock: of requests under way at once, none loses another's change. The
\* file is what they make of it one after the other, as long as no sync wrote it,
\* nothing stopped half-way and the file could be read whenever it was; the two files an
\* add or a removal writes count as one.
RequestsSerialised ==
  alone /\ lock = None => Loaded(file) = serial

\* "auto-registration must not resurrect it just because NADA sent it again": a key
\* an admin removed is offered again when a request adds it, and not before, whatever
\* fails or stops half-way, but for two ways back the code leaves open: a sync that was
\* under way together with a request writes back what it had read, and a read of a file
\* that cannot be read gives an empty deny list, which the next save keeps.
RemovedStaysOut ==
  ~overtaken => removed \cap Loaded(file).facetable = {}
=============================================================================
