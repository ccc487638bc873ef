------------------------------ MODULE KeyStore ------------------------------
(***************************************************************************)
(* The API keys (app/keys_store.py, app/keys_admin.py) and the routes they  *)
(* guard (app/auth.py). The store is one file, replaced atomically, which   *)
(* something else may also leave unreadable. Its writers take turns         *)
(* (api_keys_lock); a guarded request reads it, once or twice, without the  *)
(* lock, and a request's key is one that was issued or some other string.   *)
(* Each step is one read or one replacement of the file by a thread.        *)
(***************************************************************************)
EXTENDS Integers, FiniteSets

CONSTANTS
  Ids,        \* the keys that may be issued
  Roles,      \* read, write, admin, as their ranks
  Required,   \* the roles that routes ask for
  Requests,   \* requests to a guarded route
  Writers,    \* requests that issue or revoke a key
  None

VARIABLES
  envKey,    \* whether NADA_ADMIN_API_KEY is set
  file,      \* the records, a function from ids to [role, revoked]; None when unreadable
  lost,      \* what the file held when it became unreadable
  lock,      \* api_keys_lock
  writer,    \* each writing request
  req,       \* each guarded request
  issued,    \* history: the records whose creation was answered
  revoked,   \* history: the keys whose revocation was answered
  valid      \* history: for each request, the keys in force at some time since it arrived

vars == <<envKey, file, lost, lock, writer, req, issued, revoked, valid>>

NoRecords == <<>>
Rec == [role : Roles, revoked : BOOLEAN]

\* Roles are ranks, and None is no record, thread or answer.
KeysAssumption ==
  /\ Roles \subseteq Int /\ Required \subseteq Int
  /\ None \notin Writers /\ None # 200
  /\ None # NoRecords /\ \A S \in SUBSET Ids : None \notin [S -> Rec]

Quiet == [pc |-> "idle", id |-> None, role |-> None, seen |-> None]
Fresh == [pc |-> "idle", key |-> None, min |-> None, answer |-> None]

Active(records) == {i \in DOMAIN records : ~records[i].revoked}
InForce == IF file = None THEN {} ELSE Active(file)

Init ==
  /\ envKey \in BOOLEAN
  /\ file = NoRecords
  /\ lost = None
  /\ lock = None
  /\ writer = [w \in Writers |-> Quiet]
  /\ req = [r \in Requests |-> Fresh]
  /\ issued = {} /\ revoked = {}
  /\ valid = [r \in Requests |-> {}]

-----------------------------------------------------------------------------
(* Issuing and revoking. *)

AtWriter(w, pc, seen) ==
  writer' = [writer EXCEPT ![w] = [pc |-> pc, id |-> writer[w].id, role |-> writer[w].role, seen |-> seen]]

\* create_key makes the record first, revoke_key has only an id; then the lock.
Ask(w, kind, id, role) ==
  /\ writer[w].pc = "idle"
  /\ kind = "create" => \A v \in Writers : writer[v].id # id \/ writer[v].pc = "idle"
  /\ kind = "create" => id \notin (IF file = None THEN DOMAIN lost ELSE DOMAIN file)
  /\ writer' = [writer EXCEPT ![w] = [pc |-> kind, id |-> id, role |-> role, seen |-> None]]
  /\ UNCHANGED <<file, lost, lock, req, issued, revoked, valid>>

\* Mutant: read before the lock is taken.
LoadAnytime(w) ==
  /\ writer[w].pc \in {"create", "revoke"}
  /\ IF file = None \/ (writer[w].pc = "revoke" /\ writer[w].id \notin DOMAIN file)
     THEN writer' = [writer EXCEPT ![w] = Quiet]
     ELSE AtWriter(w, IF writer[w].pc = "create" THEN "saveNew" ELSE "saveRevoked", file)
  /\ UNCHANGED <<file, lost, lock, req, issued, revoked, valid>>

\* _load_all under the lock. An unreadable file is an error (KeyStoreError, 503), a key
\* that is not there 404; either lets the lock go.
Load(w) ==
  /\ writer[w].pc \in {"create", "revoke"} /\ lock = None
  /\ IF file = None \/ (writer[w].pc = "revoke" /\ writer[w].id \notin DOMAIN file)
     THEN /\ writer' = [writer EXCEPT ![w] = Quiet]
          /\ UNCHANGED lock
     ELSE /\ lock' = w
          /\ AtWriter(w, IF writer[w].pc = "create" THEN "saveNew" ELSE "saveRevoked", file)
  /\ UNCHANGED <<file, lost, req, issued, revoked, valid>>

\* What a save makes of the records it loaded.
Saved(w) ==
  LET o == writer[w]
  IN  [i \in DOMAIN o.seen \cup {o.id} |->
         IF i # o.id THEN o.seen[i]
         ELSE IF o.pc = "saveNew" THEN [role |-> o.role, revoked |-> FALSE]
              ELSE [role |-> o.seen[i].role, revoked |-> TRUE]]

\* _save_all: the file is replaced, or (disk full) the write fails and it stays.
Save(w) ==
  /\ writer[w].pc \in {"saveNew", "saveRevoked"}
  /\ file' = Saved(w)
  /\ AtWriter(w, IF writer[w].pc = "saveNew" THEN "created" ELSE "revoked", writer[w].seen)
  /\ lock' = IF lock = w THEN None ELSE lock
  /\ valid' = [r \in Requests |-> valid[r] \cup Active(file')]
  /\ UNCHANGED <<lost, req, issued, revoked>>

SaveFails(w) ==
  /\ writer[w].pc \in {"saveNew", "saveRevoked"}
  /\ writer' = [writer EXCEPT ![w] = Quiet]
  /\ lock' = IF lock = w THEN None ELSE lock
  /\ UNCHANGED <<file, lost, req, issued, revoked, valid>>

Answer(w) ==
  /\ writer[w].pc \in {"created", "revoked"}
  /\ writer' = [writer EXCEPT ![w] = Quiet]
  /\ issued' = IF writer[w].pc = "created"
               THEN issued \cup {<<writer[w].id, writer[w].role>>} ELSE issued
  /\ revoked' = IF writer[w].pc = "revoked" THEN revoked \cup {writer[w].id} ELSE revoked
  /\ UNCHANGED <<file, lost, lock, req, valid>>

-----------------------------------------------------------------------------
(* A guarded route: require_role. *)

\* A request: with an issued key, the environment's, another string (None), and the
\* role the route asks for.
Arrive(r, key, min) ==
  /\ req[r].pc = "idle"
  /\ req' = [req EXCEPT ![r] = [pc |-> "resolve", key |-> key, min |-> min, answer |-> None]]
  /\ valid' = [valid EXCEPT ![r] = InForce]
  /\ UNCHANGED <<file, lost, lock, writer, issued, revoked>>

AtRoute(r, pc, answer) ==
  req' = [req EXCEPT ![r] = [pc |-> pc, key |-> req[r].key, min |-> req[r].min, answer |-> answer]]

Ends(r, answer) == AtRoute(r, "done", answer)

\* Mutant: a revoked record is found like any other.
FoundAny(r) == IF req[r].key \in DOMAIN file THEN {file[req[r].key].role} ELSE {}

\* verify_key: the role of the active record that has the presented key.
Found(r) == IF req[r].key \in InForce THEN {file[req[r].key].role} ELSE {}

\* resolve_principal: the environment's key is compared first and needs no file. The
\* file unreadable is 503. With no principal and no environment key, the file is read
\* once more, for whether any key is in force at all.
Resolve(r) ==
  /\ req[r].pc = "resolve"
  /\ IF envKey /\ req[r].key = "env" THEN Ends(r, 200)
     ELSE IF file = None THEN Ends(r, 503)
     ELSE \/ \E role \in Found(r) : Ends(r, IF role < req[r].min THEN 403 ELSE 200)
          \/ /\ Found(r) = {}
             /\ IF envKey THEN Ends(r, 401) ELSE AtRoute(r, "any", None)
  /\ UNCHANGED <<file, lost, lock, writer, issued, revoked, valid>>

AnyActive(r) ==
  /\ req[r].pc = "any"
  /\ Ends(r, IF file = None \/ Active(file) = {} THEN 503 ELSE 401)
  /\ UNCHANGED <<file, lost, lock, writer, issued, revoked, valid>>

Leave(r) ==
  /\ req[r].pc = "done"
  /\ req' = [req EXCEPT ![r] = Fresh]
  /\ valid' = [valid EXCEPT ![r] = {}]
  /\ UNCHANGED <<file, lost, lock, writer, issued, revoked>>

-----------------------------------------------------------------------------
\* Something outside leaves the file unreadable, and an operator repairs it.
Break ==
  /\ file # None
  /\ file' = None /\ lost' = file
  /\ \A w \in Writers : writer[w].pc \notin {"saveNew", "saveRevoked"}
  /\ UNCHANGED <<lock, writer, req, issued, revoked, valid>>

Repair ==
  /\ file = None
  /\ file' = lost /\ lost' = None
  /\ valid' = [r \in Requests |-> valid[r] \cup Active(lost)]
  /\ UNCHANGED <<lock, writer, req, issued, revoked>>

Step ==
  \/ \E w \in Writers :
       \/ \E id \in Ids, role \in Roles : Ask(w, "create", id, role)
       \/ \E id \in Ids : Ask(w, "revoke", id, None)
       \/ Load(w) \/ Save(w) \/ SaveFails(w) \/ Answer(w)
  \/ \E r \in Requests :
       \/ \E key \in Ids \cup {None, "env"}, min \in Required : Arrive(r, key, min)
       \/ Resolve(r) \/ AnyActive(r) \/ Leave(r)
  \/ Break \/ Repair

Next == Step /\ UNCHANGED envKey

Spec == Init /\ [][Next]_vars

-----------------------------------------------------------------------------
(* Properties. *)

Records == IF file = None THEN lost ELSE file

\* Type correctness: the file is records or unreadable, one writer has the lock.
TypeOK ==
  /\ Records # None
  /\ DOMAIN Records \subseteq Ids
  /\ (file = None) <=> (lost # None)
  /\ lock \in Writers \cup {None}
  /\ \A w \in Writers : writer[w].pc \in {"saveNew", "saveRevoked"} <=> lock = w
  /\ \A r \in Requests : req[r].answer \in {None, 200, 401, 403, 503}

\* What was answered stays: an issued key keeps its role and is lost by no other
\* writer, by no failed write and by no time the file was unreadable; one that was
\* revoked is not in force again.
AnsweredStays ==
  /\ \A k \in issued : k[1] \in DOMAIN Records /\ Records[k[1]].role = k[2]
  /\ \A k \in issued : ~Records[k[1]].revoked
       \/ k[1] \in revoked \/ \E w \in Writers : writer[w].pc = "revoked" /\ writer[w].id = k[1]
  /\ \A i \in revoked : Records[i].revoked

\* Who is let in presented the environment's key, or one that was in force at some time
\* since its request arrived and has the role: a revocation that was answered before
\* keeps the key out, whatever the two reads of the file met.
LetInByKey ==
  \A r \in Requests : req[r].answer = 200 =>
    \/ envKey /\ req[r].key = "env"
    \/ /\ req[r].key \in valid[r]
       /\ Records[req[r].key].role >= req[r].min
=============================================================================
