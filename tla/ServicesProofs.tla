----------------------------- MODULE ServicesProofs -----------------------------
(***************************************************************************)
(* What holds of the gate, the API keys, the index generation, the facets   *)
(* registry, a study's filters and the walks of the citation and variable   *)
(* indexes as parts of the server, for any values of their constants. A     *)
(* part that does not run stands still, so each holds by the invariant of   *)
(* its own; those of the two searches are in SearchProofs.                  *)
(***************************************************************************)
EXTENDS Services, FiniteSetTheorems, WellFoundedInduction, TLAPS

-----------------------------------------------------------------------------
(* The gate, by itself: for any threads, interval, retries, waits and answers of  *)
(* NADA, and however late a thread wakes up.                                      *)

Inside == {"pace", "flight", "backoff"}

Caller == [pc : {"idle", "lock", "pace", "flight", "backoff"}, attempt : 0..MaxRetries,
           wake : Int, since : Int, outcome : Outcomes]

\* Types, and the lock: who is past it holds it.
Typed ==
  /\ now \in 0..MaxTime
  /\ holder \in Threads \cup {None}
  /\ th \in [Threads -> Caller]
  /\ lastEnd \in Int /\ slowUntil \in Int /\ notBefore \in Int /\ asked \in Int
  /\ trouble \in [at : Int, kind : {None, "firewall", "unavailable", "rate_limited"}]
  /\ walls \subseteq Threads
  /\ \A t \in Threads : (holder = t) <=> th[t].pc \in Inside

\* Who is about to send is not before its time; who is not, waits for it; and with nobody
\* inside, the gate remembers it or it is over.
AskedIsKept ==
  /\ \A t \in Threads : th[t].pc \in {"pace", "flight"} => asked <= now
  /\ \A t \in Threads : th[t].pc = "backoff" => asked <= th[t].wake
  /\ holder = None => asked <= now \/ asked <= notBefore

\* Who paces waits long enough: the interval may shrink meanwhile, not grow.
PaceIsEnough ==
  \A t \in Threads : th[t].pc = "pace" => th[t].wake >= lastEnd + IntervalSeconds

\* Troubles are recorded in the order of time.
TroubleIsLast ==
  /\ trouble.at <= now
  /\ \A t \in Threads : th[t].since <= now

\* Who backs off may try again.
RetriesLeft ==
  \A t \in Threads : th[t].pc = "backoff" => th[t].attempt < MaxRetries

IInv ==
  /\ Typed
  /\ RetriesLeft
  /\ AskedIsKept
  /\ PaceIsEnough
  /\ FirewallEndsCall
  /\ TroubleIsLast
  /\ FailureIsSeen

-----------------------------------------------------------------------------
(* The maximum of two numbers. *)

LEMMA MaxOfTwo ==
  ASSUME NEW a \in Int, NEW b \in Int
  PROVE  Max({a, b}) \in {a, b} /\ Max({a, b}) >= a /\ Max({a, b}) >= b
<1>1. \E x \in {a, b} : \A y \in {a, b} : x >= y
  <2>1. CASE a >= b  BY <2>1
  <2>2. CASE b >= a  BY <2>2
  <2> QED  BY <2>1, <2>2
<1> QED  BY <1>1 DEF Max

\* The waits of a back-off are not negative, and as long as NADA asks.
LEMMA WaitsLongEnough ==
  ASSUME GateAssumption, NEW attempt \in 0..MaxRetries, NEW after \in Delays \cup {None},
         NEW w \in Waits(attempt, after)
  PROVE  w \in Nat /\ (after # None => w >= after)
<1> DEFINE base == RetryBase * 3^attempt
<1>1. base \in Nat  BY DEF GateAssumption
<1>2. CASE after = None
  <2>1. w \in base .. base + (base + 3) \div 4  BY <1>2 DEF Waits
  <2> HIDE DEF base
  <2>2. base + (base + 3) \div 4 \in Int  BY <1>1
  <2> QED  BY <1>1, <1>2, <2>1, <2>2
<1>3. CASE after # None
  <2>1. w = after  BY <1>3 DEF Waits
  <2> QED  BY <1>3, <2>1 DEF GateAssumption
<1> QED  BY <1>2, <1>3

\* What the holder of the lock waits for.
LEMMA PaceType ==
  ASSUME GateAssumption, Typed
  PROVE  /\ IntervalSeconds \in Nat
         /\ PaceUntil \in Int /\ PaceUntil >= lastEnd + IntervalSeconds
<1>1. IntervalSeconds \in Nat  BY DEF GateAssumption, Typed, IntervalSeconds
<1>2. now \in Int /\ lastEnd + IntervalSeconds \in Int  BY <1>1 DEF Typed, GateAssumption
<1> QED  BY <1>1, <1>2, MaxOfTwo DEF PaceUntil

-----------------------------------------------------------------------------
LEMMA InitHolds == ASSUME GateAssumption, Init PROVE IInv
<1>1. Never \in Int /\ Never <= 0  BY DEF GateAssumption, Never
<1>2. Outside \in Caller  BY DEF GateAssumption, Outside, Caller, Outcomes
<1>3. \A t \in Threads : holder # t  BY DEF GateAssumption, Init
<1>4. Typed  BY <1>1, <1>2, <1>3 DEF GateAssumption, Init, Typed, NoTrouble, Outside, Inside
<1>5. AskedIsKept  BY <1>1 DEF Init, AskedIsKept, Outside
<1>6. PaceIsEnough /\ FirewallEndsCall /\ RetriesLeft
  BY DEF Init, PaceIsEnough, FirewallEndsCall, RetriesLeft, Outside
<1>7. TroubleIsLast /\ FailureIsSeen
  BY <1>1 DEF GateAssumption, Init, TroubleIsLast, FailureIsSeen, Outside, NoTrouble
<1> QED  BY <1>4, <1>5, <1>6, <1>7 DEF IInv

\* A step of one thread changes that thread only, to a state of the right type.
LEMMA OneMoves ==
  ASSUME Typed, NEW t \in Threads,
         NEW STATE pc, NEW STATE attempt, NEW STATE wake, NEW STATE since, NEW STATE outcome,
         Becomes(t, pc, attempt, wake, since, outcome),
         pc \in {"idle", "lock", "pace", "flight", "backoff"}, attempt \in 0..MaxRetries,
         wake \in Int, since \in Int, outcome \in Outcomes
  PROVE  /\ th' \in [Threads -> Caller]
         /\ th'[t].pc = pc /\ th'[t].attempt = attempt /\ th'[t].wake = wake
         /\ th'[t].since = since /\ th'[t].outcome = outcome
         /\ \A u \in Threads : u # t => th'[u] = th[u]
<1> DEFINE new == [pc |-> pc, attempt |-> attempt, wake |-> wake, since |-> since, outcome |-> outcome]
<1>1. th' = [th EXCEPT ![t] = new]  BY DEF Becomes
<1>2. new \in Caller  BY DEF Caller
<1>3. /\ new.pc = pc /\ new.attempt = attempt /\ new.wake = wake
      /\ new.since = since /\ new.outcome = outcome
  OBVIOUS
<1> HIDE DEF new
<1> QED  BY <1>1, <1>2, <1>3 DEF Typed

\* A step that leaves the gate's fields alone, of a thread that does not go inside nor
\* stop there, keeps what is said of the lock and of the others.
LEMMA CallKeeps ==
  ASSUME GateAssumption, IInv, NEW t \in Threads, Call(t) PROVE IInv'
<1> USE DEF IInv
<1>1. /\ th[t].pc = "idle"
      /\ UNCHANGED <<now, holder, lastEnd, slowUntil, notBefore, trouble, asked, walls>>
  BY DEF Call
<1>2. /\ th' \in [Threads -> Caller]
      /\ th'[t].pc = "lock" /\ th'[t].since = now /\ th'[t].outcome = None
      /\ \A u \in Threads : u # t => th'[u] = th[u]
  <2>1. Becomes(t, "lock", 0, 0, now, None)  BY DEF Call
  <2>2. 0 \in 0..MaxRetries /\ now \in Int /\ None \in Outcomes  BY DEF GateAssumption, Typed, Outcomes
  <2> QED  BY <2>1, <2>2, OneMoves
<1>3. Typed'
  <2>1. \A u \in Threads : (holder' = u) <=> th'[u].pc \in Inside  BY <1>1, <1>2 DEF Typed, Inside
  <2> QED  BY <1>1, <1>2, <2>1 DEF Typed
<1>4. AskedIsKept'  BY <1>1, <1>2 DEF AskedIsKept
<1>5. FirewallEndsCall'
  <2>1. th'[t].pc \notin {"pace", "flight", "backoff"}  BY <1>2
  <2>2. \A u \in Threads : u # t => th'[u].pc = th[u].pc  BY <1>2
  <2> QED  BY <1>1, <2>1, <2>2 DEF FirewallEndsCall, Typed
<1>6. PaceIsEnough' /\ RetriesLeft'  BY <1>1, <1>2 DEF PaceIsEnough, IntervalSeconds, RetriesLeft
<1>7. TroubleIsLast' /\ FailureIsSeen'
  BY <1>1, <1>2 DEF TroubleIsLast, FailureIsSeen, GateAssumption, Typed
<1> QED  BY <1>3, <1>4, <1>5, <1>6, <1>7

\* The lock is taken by a thread that may send, or left by one that NADA asked to wait.
LEMMA EnterKeeps ==
  ASSUME GateAssumption, IInv, NEW t \in Threads, Enter(t) PROVE IInv'
<1> USE DEF IInv
<1>1. /\ th[t].pc = "lock" /\ holder = None /\ walls' = walls \ {t}
      /\ UNCHANGED <<now, lastEnd, slowUntil, notBefore, trouble, asked>>
  BY DEF Enter
<1>2. \A u \in Threads : th[u].pc \notin Inside  BY <1>1 DEF Typed, GateAssumption
<1>3. IntervalSeconds' = IntervalSeconds  BY <1>1 DEF IntervalSeconds
<1>4. th[t] \in Caller  BY DEF Typed
<1>5. CASE now < notBefore
  <2>1. holder' = None  BY <1>5 DEF Enter, Return
  <2>2. /\ th' \in [Threads -> Caller]
        /\ th'[t].pc = "idle" /\ th'[t].since = th[t].since /\ th'[t].outcome = "asked_to_wait"
        /\ \A u \in Threads : u # t => th'[u] = th[u]
    <3>1. Becomes(t, "idle", th[t].attempt, th[t].wake, th[t].since, "asked_to_wait")
      BY <1>5 DEF Enter, Return
    <3>2. th[t].attempt \in 0..MaxRetries /\ th[t].wake \in Int /\ th[t].since \in Int
          /\ "asked_to_wait" \in Outcomes
      BY <1>4 DEF Caller, Outcomes
    <3> QED  BY <3>1, <3>2, OneMoves
  <2>3. Typed'
    <3>1. \A u \in Threads : (holder' = u) <=> th'[u].pc \in Inside
      BY <1>2, <2>1, <2>2 DEF Inside, GateAssumption
    <3> QED  BY <1>1, <2>1, <2>2, <3>1 DEF Typed
  <2>4. \A u \in Threads : th'[u].pc \notin Inside  BY <1>2, <2>2 DEF Inside
  <2>5. AskedIsKept'  BY <1>1, <2>4 DEF AskedIsKept, Inside
  <2>6. FirewallEndsCall' /\ PaceIsEnough' /\ RetriesLeft'
    BY <1>1, <2>3, <2>4 DEF FirewallEndsCall, PaceIsEnough, RetriesLeft, Inside, Typed
  <2>7. TroubleIsLast' /\ FailureIsSeen'  BY <1>1, <2>2 DEF TroubleIsLast, FailureIsSeen
  <2> QED  BY <2>3, <2>5, <2>6, <2>7
<1>6. CASE ~(now < notBefore)
  <2>1. holder' = t  BY <1>6 DEF Enter
  <2>2. /\ th' \in [Threads -> Caller]
        /\ th'[t].pc = "pace" /\ th'[t].wake = PaceUntil
        /\ th'[t].since = th[t].since /\ th'[t].outcome = None
        /\ \A u \in Threads : u # t => th'[u] = th[u]
    <3>1. Becomes(t, "pace", 0, PaceUntil, th[t].since, None)  BY <1>6 DEF Enter
    <3>2. 0 \in 0..MaxRetries /\ PaceUntil \in Int /\ th[t].since \in Int /\ None \in Outcomes
      BY <1>4, PaceType DEF Caller, Outcomes, GateAssumption
    <3> QED  BY <3>1, <3>2, OneMoves
  <2>3. Typed'
    <3>1. \A u \in Threads : (holder' = u) <=> th'[u].pc \in Inside  BY <1>2, <2>1, <2>2 DEF Inside
    <3> QED  BY <1>1, <2>1, <2>2, <3>1 DEF Typed
  <2>4. \A u \in Threads : u # t => th'[u].pc \notin Inside  BY <1>2, <2>2
  <2>5. AskedIsKept'
    <3>1. asked <= now  BY <1>1, <1>6 DEF AskedIsKept, Typed
    <3> QED  BY <1>1, <2>1, <2>2, <2>4, <3>1 DEF AskedIsKept, Inside, GateAssumption
  <2>6. FirewallEndsCall' /\ RetriesLeft'
    BY <1>1, <2>2, <2>3, <2>4 DEF FirewallEndsCall, RetriesLeft, Inside, Typed
  <2>7. PaceIsEnough'
    <3>1. th'[t].wake >= lastEnd + IntervalSeconds  BY <2>2, PaceType
    <3> QED  BY <1>1, <1>3, <2>4, <3>1 DEF PaceIsEnough, Inside
  <2>8. TroubleIsLast' /\ FailureIsSeen'
    BY <1>1, <2>2 DEF TroubleIsLast, FailureIsSeen, GateAssumption
  <2> QED  BY <2>3, <2>5, <2>6, <2>7, <2>8
<1> QED  BY <1>5, <1>6

\* A thread in the lock that moves on there: no other is inside.
LEMMA StaysInside ==
  ASSUME GateAssumption, IInv, NEW t \in Threads, th[t].pc \in Inside,
         NEW STATE pc, NEW STATE attempt, NEW STATE wake,
         pc \in Inside, attempt \in 0..MaxRetries, wake \in Int,
         Becomes(t, pc, attempt, wake, th[t].since, None),
         UNCHANGED <<now, holder, walls>>
  PROVE  /\ th' \in [Threads -> Caller]
         /\ th'[t].pc = pc /\ th'[t].attempt = attempt /\ th'[t].wake = wake
         /\ th'[t].since = th[t].since /\ th'[t].outcome = None
         /\ \A u \in Threads : u # t => th'[u] = th[u] /\ th'[u].pc \notin Inside
         /\ \A u \in Threads : (holder' = u) <=> th'[u].pc \in Inside
         /\ holder' # None
         /\ FirewallEndsCall'
<1> USE DEF IInv
<1>1. holder = t  BY DEF Typed
<1>2. \A u \in Threads : u # t => th[u].pc \notin Inside  BY <1>1 DEF Typed
<1>3. th[t].since \in Int /\ None \in Outcomes  BY DEF Typed, Caller, Outcomes
<1>4. /\ th' \in [Threads -> Caller]
      /\ th'[t].pc = pc /\ th'[t].attempt = attempt /\ th'[t].wake = wake
      /\ th'[t].since = th[t].since /\ th'[t].outcome = None
      /\ \A u \in Threads : u # t => th'[u] = th[u]
  BY <1>3, OneMoves DEF Inside
<1>5. t \notin walls  BY DEF FirewallEndsCall, Inside
<1>6. FirewallEndsCall'  BY <1>2, <1>4, <1>5 DEF FirewallEndsCall, Inside, Typed
<1> QED  BY <1>1, <1>2, <1>4, <1>6 DEF GateAssumption

\* A thread that leaves the lock: nobody is inside after it.
LEMMA LeavesEmpty ==
  ASSUME GateAssumption, IInv, NEW t \in Threads, th[t].pc \in Inside,
         NEW STATE outcome, outcome \in Outcomes, Return(t, outcome), walls' \subseteq Threads
  PROVE  /\ holder' = None
         /\ th' \in [Threads -> Caller]
         /\ th'[t].since = th[t].since /\ th'[t].outcome = outcome
         /\ \A u \in Threads : u # t => th'[u] = th[u]
         /\ \A u \in Threads : th'[u].pc \notin Inside
         /\ \A u \in Threads : (holder' = u) <=> th'[u].pc \in Inside
         /\ FirewallEndsCall'
<1> USE DEF IInv
<1>1. holder' = None  BY DEF Return
<1>2. \A u \in Threads : u # t => th[u].pc \notin Inside  BY DEF Typed
<1>3. /\ th' \in [Threads -> Caller]
      /\ th'[t].pc = "idle" /\ th'[t].since = th[t].since /\ th'[t].outcome = outcome
      /\ \A u \in Threads : u # t => th'[u] = th[u]
  <2>1. Becomes(t, "idle", th[t].attempt, th[t].wake, th[t].since, outcome)  BY DEF Return
  <2>2. th[t] \in Caller  BY DEF Typed
  <2>3. th[t].attempt \in 0..MaxRetries /\ th[t].wake \in Int /\ th[t].since \in Int
    BY <2>2 DEF Caller
  <2> QED  BY <2>1, <2>3, OneMoves
<1>4. \A u \in Threads : th'[u].pc \notin Inside
  <2>1. th'[t].pc \notin Inside  BY <1>3 DEF Inside
  <2> QED  BY <1>2, <1>3, <2>1
<1>5. FirewallEndsCall'  BY <1>4 DEF FirewallEndsCall, Inside
<1>6. \A u \in Threads : holder' # u  BY <1>1 DEF GateAssumption
<1> QED  BY <1>1, <1>3, <1>4, <1>5, <1>6

\* The pace is over: the request leaves.
LEMMA DepartKeeps ==
  ASSUME GateAssumption, IInv, NEW t \in Threads, Depart(t) PROVE IInv'
<1> USE DEF IInv
<1>1. /\ th[t].pc = "pace"
      /\ UNCHANGED <<now, holder, lastEnd, slowUntil, notBefore, trouble, asked, walls>>
  BY DEF Depart
<1>2. th[t] \in Caller  BY DEF Typed
<1>3. th[t].attempt \in 0..MaxRetries /\ th[t].wake \in Int  BY <1>2 DEF Caller
<1>4. th[t].pc \in Inside /\ "flight" \in Inside  BY <1>1 DEF Inside
<1>5. Becomes(t, "flight", th[t].attempt, th[t].wake, th[t].since, None)  BY DEF Depart
<1>6. /\ th' \in [Threads -> Caller]
      /\ th'[t].pc = "flight" /\ th'[t].since = th[t].since /\ th'[t].outcome = None
      /\ \A u \in Threads : u # t => th'[u] = th[u] /\ th'[u].pc \notin Inside
      /\ \A u \in Threads : (holder' = u) <=> th'[u].pc \in Inside
      /\ holder' # None
      /\ FirewallEndsCall'
  BY <1>1, <1>3, <1>4, <1>5, StaysInside
<1>7. Typed'  BY <1>1, <1>6 DEF Typed
<1>8. AskedIsKept'
  <2>1. asked <= now  BY <1>1 DEF AskedIsKept
  <2> QED  BY <1>1, <1>6, <2>1 DEF AskedIsKept, Inside
<1>9. PaceIsEnough' /\ RetriesLeft'  BY <1>6 DEF PaceIsEnough, RetriesLeft, Inside
<1>10. TroubleIsLast' /\ FailureIsSeen'
  BY <1>1, <1>6 DEF TroubleIsLast, FailureIsSeen, GateAssumption
<1> QED  BY <1>6, <1>7, <1>8, <1>9, <1>10

\* The back-off is over: the thread paces once more.
LEMMA RetryKeeps ==
  ASSUME GateAssumption, IInv, NEW t \in Threads, Retry(t) PROVE IInv'
<1> USE DEF IInv
<1>1. /\ th[t].pc = "backoff" /\ now >= th[t].wake
      /\ UNCHANGED <<now, holder, lastEnd, slowUntil, notBefore, trouble, asked, walls>>
  BY DEF Retry
<1>2. th[t] \in Caller  BY DEF Typed
<1>3. th[t].attempt + 1 \in 0..MaxRetries /\ th[t].wake \in Int /\ PaceUntil \in Int
  <2>1. th[t].attempt < MaxRetries  BY <1>1 DEF RetriesLeft
  <2> QED  BY <1>2, <2>1, PaceType DEF Caller, GateAssumption
<1>4. th[t].pc \in Inside /\ "pace" \in Inside  BY <1>1 DEF Inside
<1>5. Becomes(t, "pace", th[t].attempt + 1, PaceUntil, th[t].since, None)  BY DEF Retry
<1>6. /\ th' \in [Threads -> Caller]
      /\ th'[t].pc = "pace" /\ th'[t].wake = PaceUntil
      /\ th'[t].since = th[t].since /\ th'[t].outcome = None
      /\ \A u \in Threads : u # t => th'[u] = th[u] /\ th'[u].pc \notin Inside
      /\ \A u \in Threads : (holder' = u) <=> th'[u].pc \in Inside
      /\ holder' # None
      /\ FirewallEndsCall'
  BY <1>1, <1>3, <1>4, <1>5, StaysInside
<1>7. Typed'  BY <1>1, <1>6 DEF Typed
<1>8. AskedIsKept'
  <2>1. asked <= th[t].wake  BY <1>1 DEF AskedIsKept
  <2>2. asked <= now  BY <1>1, <1>3, <2>1 DEF Typed
  <2> QED  BY <1>1, <1>6, <2>2 DEF AskedIsKept, Inside
<1>9. PaceIsEnough'
  <2>1. IntervalSeconds' = IntervalSeconds  BY <1>1 DEF IntervalSeconds
  <2>2. th'[t].wake >= lastEnd + IntervalSeconds  BY <1>6, PaceType
  <2> QED  BY <1>1, <1>6, <2>1, <2>2 DEF PaceIsEnough, Inside
<1>10. TroubleIsLast' /\ FailureIsSeen'
  BY <1>1, <1>6 DEF TroubleIsLast, FailureIsSeen, GateAssumption
<1>11. RetriesLeft'  BY <1>6 DEF RetriesLeft, Inside
<1> QED  BY <1>6, <1>7, <1>8, <1>9, <1>10, <1>11

\* An answer for the caller: the lock is left, the end of the request kept.
LEMMA AnsweredKeeps ==
  ASSUME GateAssumption, IInv, NEW t \in Threads, Answered(t) PROVE IInv'
<1> USE DEF IInv
<1>1. /\ th[t].pc = "flight" /\ lastEnd' = now /\ Return(t, "answer")
      /\ UNCHANGED <<now, slowUntil, notBefore, trouble, asked, walls>>
  BY DEF Answered
<1>2. th[t].pc \in Inside /\ "answer" \in Outcomes /\ walls' \subseteq Threads
  BY <1>1 DEF Inside, Outcomes, Typed
<1>3. /\ holder' = None /\ th' \in [Threads -> Caller]
      /\ th'[t].since = th[t].since /\ th'[t].outcome = "answer"
      /\ \A u \in Threads : u # t => th'[u] = th[u]
      /\ \A u \in Threads : th'[u].pc \notin Inside
      /\ \A u \in Threads : (holder' = u) <=> th'[u].pc \in Inside
      /\ FirewallEndsCall'
  BY <1>1, <1>2, LeavesEmpty
<1>4. Typed'  BY <1>1, <1>3 DEF Typed
<1>5. AskedIsKept'
  <2>1. asked <= now  BY <1>1 DEF AskedIsKept
  <2> QED  BY <1>1, <1>3, <2>1 DEF AskedIsKept, Inside
<1>6. PaceIsEnough' /\ RetriesLeft'  BY <1>3 DEF PaceIsEnough, RetriesLeft, Inside
<1>7. TroubleIsLast' /\ FailureIsSeen'  BY <1>1, <1>3 DEF TroubleIsLast, FailureIsSeen
<1> QED  BY <1>3, <1>4, <1>5, <1>6, <1>7

\* A Retry-After nobody can read ends the call as an answer does; what is recorded stays.
LEMMA UnreadableKeeps ==
  ASSUME GateAssumption, IInv, NEW t \in Threads, NEW kind, Unreadable(t, kind) PROVE IInv'
<1> USE DEF IInv
<1>1. /\ th[t].pc = "flight" /\ lastEnd' = now /\ Return(t, "unread")
      /\ slowUntil' = IF kind = "rate_limited" THEN now + Slowdown ELSE slowUntil
      /\ UNCHANGED <<now, notBefore, trouble, asked, walls>>
  BY DEF Unreadable
<1>2. th[t].pc \in Inside /\ "unread" \in Outcomes /\ walls' \subseteq Threads
  BY <1>1 DEF Inside, Outcomes, Typed
<1>3. /\ holder' = None /\ th' \in [Threads -> Caller]
      /\ th'[t].since = th[t].since /\ th'[t].outcome = "unread"
      /\ \A u \in Threads : u # t => th'[u] = th[u]
      /\ \A u \in Threads : th'[u].pc \notin Inside
      /\ \A u \in Threads : (holder' = u) <=> th'[u].pc \in Inside
      /\ FirewallEndsCall'
  BY <1>1, <1>2, LeavesEmpty
<1>4. slowUntil' \in Int  BY <1>1 DEF Typed, GateAssumption
<1>5. Typed'  BY <1>1, <1>3, <1>4 DEF Typed
<1>6. AskedIsKept'
  <2>1. asked <= now  BY <1>1 DEF AskedIsKept
  <2> QED  BY <1>1, <1>3, <2>1 DEF AskedIsKept, Inside
<1>7. PaceIsEnough' /\ RetriesLeft'  BY <1>3 DEF PaceIsEnough, RetriesLeft, Inside
<1>8. TroubleIsLast' /\ FailureIsSeen'  BY <1>1, <1>3 DEF TroubleIsLast, FailureIsSeen
<1> QED  BY <1>3, <1>5, <1>6, <1>7, <1>8

\* A trouble recorded now is seen by every caller, each of which called before.
LEMMA TroubleRecorded ==
  ASSUME GateAssumption, IInv, NEW t \in Threads, th' \in [Threads -> Caller], now' = now,
         NEW STATE kind, trouble' = [at |-> now, kind |-> kind],
         th'[t].since = th[t].since, \A u \in Threads : u # t => th'[u] = th[u]
  PROVE  TroubleIsLast' /\ FailureIsSeen'
<1>1. trouble'.at = now /\ now \in Int  BY DEF IInv, Typed, GateAssumption
<1>2. \A u \in Threads : th'[u].since = th[u].since /\ th[u].since <= now
  BY DEF IInv, TroubleIsLast
<1> QED  BY <1>1, <1>2 DEF TroubleIsLast, FailureIsSeen

\* A firewall's answer: recorded, and the call is over.
LEMMA BlockedKeeps ==
  ASSUME GateAssumption, IInv, NEW t \in Threads, Blocked(t) PROVE IInv'
<1> USE DEF IInv
<1>1. /\ th[t].pc = "flight" /\ lastEnd' = now /\ walls' = walls \cup {t}
      /\ trouble' = [at |-> now, kind |-> "firewall"] /\ Return(t, "firewall")
      /\ UNCHANGED <<now, slowUntil, notBefore, asked>>
  BY DEF Blocked
<1>2. th[t].pc \in Inside /\ "firewall" \in Outcomes /\ walls' \subseteq Threads
  BY <1>1 DEF Inside, Outcomes, Typed
<1>3. /\ holder' = None /\ th' \in [Threads -> Caller]
      /\ th'[t].since = th[t].since /\ th'[t].outcome = "firewall"
      /\ \A u \in Threads : u # t => th'[u] = th[u]
      /\ \A u \in Threads : th'[u].pc \notin Inside
      /\ \A u \in Threads : (holder' = u) <=> th'[u].pc \in Inside
      /\ FirewallEndsCall'
  BY <1>1, <1>2, LeavesEmpty
<1>4. Typed'  BY <1>1, <1>2, <1>3 DEF Typed
<1>5. AskedIsKept'
  <2>1. asked <= now  BY <1>1 DEF AskedIsKept
  <2> QED  BY <1>1, <1>3, <2>1 DEF AskedIsKept, Inside
<1>6. PaceIsEnough' /\ RetriesLeft'  BY <1>3 DEF PaceIsEnough, RetriesLeft, Inside
<1>7. TroubleIsLast' /\ FailureIsSeen'  BY <1>1, <1>3, TroubleRecorded
<1> QED  BY <1>3, <1>4, <1>5, <1>6, <1>7

\* What a busy answer asks for.
LEMMA AskedGrows ==
  ASSUME GateAssumption, Typed, NEW after \in Delays \cup {None}, asked <= now,
         asked' = IF after = None THEN asked ELSE Max({asked, now + after})
  PROVE  /\ asked' \in Int
         /\ after = None => asked' <= now
         /\ after # None => asked' <= now + after
<1>1. asked \in Int /\ now \in Int  BY DEF Typed, GateAssumption
<1>2. CASE after = None  BY <1>1, <1>2
<1>3. CASE after # None
  <2>1. after \in Nat /\ now + after \in Int  BY <1>1, <1>3 DEF GateAssumption
  <2>2. asked' \in {asked, now + after}  BY <1>1, <1>3, <2>1, MaxOfTwo
  <2> QED  BY <1>1, <1>3, <2>1, <2>2
<1> QED  BY <1>2, <1>3

\* A busy NADA: waited out in the lock where retries are left and it is not for too long,
\* given up, and kept for whoever comes next, otherwise.
LEMMA BusyKeeps ==
  ASSUME GateAssumption, IInv, NEW t \in Threads, NEW kind \in {"unavailable", "rate_limited"},
         NEW after \in Delays \cup {None}, Busy(t, kind, after)
  PROVE  IInv'
<1> USE DEF IInv
<1>1. /\ th[t].pc = "flight" /\ lastEnd' = now
      /\ slowUntil' = IF kind = "rate_limited" THEN now + Slowdown ELSE slowUntil
      /\ asked' = IF after = None THEN asked ELSE Max({asked, now + after})
      /\ UNCHANGED <<now, walls>>
  BY DEF Busy
<1>2. asked <= now  BY <1>1 DEF AskedIsKept
<1>3. th[t] \in Caller /\ th[t].pc \in Inside  BY <1>1 DEF Typed, Inside
<1>4. now \in Int /\ slowUntil' \in Int  BY <1>1 DEF Typed, GateAssumption
<1>5. /\ asked' \in Int
      /\ after = None => asked' <= now
      /\ after # None => asked' <= now + after
  BY <1>1, <1>2, AskedGrows
<1>6. CASE th[t].attempt = MaxRetries \/ Waits(th[t].attempt, after) = {}
  <2>1. /\ notBefore' = IF after = None THEN notBefore ELSE Max({notBefore, now + after})
        /\ trouble' = [at |-> now, kind |-> kind] /\ Return(t, kind)
    BY <1>6 DEF Busy, GiveUp
  <2>2. kind \in Outcomes /\ walls' \subseteq Threads  BY <1>1 DEF Outcomes, Typed
  <2>3. /\ holder' = None /\ th' \in [Threads -> Caller]
        /\ th'[t].since = th[t].since /\ th'[t].outcome = kind
        /\ \A u \in Threads : u # t => th'[u] = th[u]
        /\ \A u \in Threads : th'[u].pc \notin Inside
        /\ \A u \in Threads : (holder' = u) <=> th'[u].pc \in Inside
        /\ FirewallEndsCall'
    BY <1>3, <2>1, <2>2, LeavesEmpty
  <2>4. notBefore' \in Int /\ (after # None => notBefore' >= now + after)
    <3>1. CASE after = None  BY <2>1, <3>1 DEF Typed
    <3>2. CASE after # None
      <4>1. after \in Nat /\ now \in Nat  BY <3>2, GateAssumption DEF GateAssumption, Typed
      <4>2. now + after \in Int /\ notBefore \in Int  BY <4>1 DEF Typed
      <4> QED  BY <2>1, <3>2, <4>2, MaxOfTwo
    <3> QED  BY <3>1, <3>2
  <2>5. Typed'
    <3>1. trouble' \in [at : Int, kind : {None, "firewall", "unavailable", "rate_limited"}]
      BY <1>4, <2>1
    <3> QED  BY <1>1, <1>4, <1>5, <2>3, <2>4, <3>1 DEF Typed
  <2>6. AskedIsKept'
    <3>1. asked' <= now \/ asked' <= notBefore'
      <4>1. CASE after = None  BY <1>5, <4>1
      <4>2. CASE after # None
        <5>1. after \in Nat  BY <4>2 DEF GateAssumption
        <5> QED  BY <1>4, <1>5, <2>4, <4>2, <5>1
      <4> QED  BY <4>1, <4>2
    <3> QED  BY <1>1, <2>3, <3>1 DEF AskedIsKept, Inside
  <2>7. PaceIsEnough' /\ RetriesLeft'  BY <2>3 DEF PaceIsEnough, RetriesLeft, Inside
  <2>8. TroubleIsLast' /\ FailureIsSeen'  BY <1>1, <2>1, <2>3, TroubleRecorded
  <2> QED  BY <2>3, <2>5, <2>6, <2>7, <2>8
<1>7. CASE ~(th[t].attempt = MaxRetries \/ Waits(th[t].attempt, after) = {})
  <2>1. PICK w \in Waits(th[t].attempt, after) :
          Becomes(t, "backoff", th[t].attempt, now + w, th[t].since, None)
    BY <1>7 DEF Busy
  <2>2. UNCHANGED <<holder, notBefore, trouble>>  BY <1>7 DEF Busy
  <2>3. th[t].attempt \in 0..MaxRetries  BY <1>3 DEF Caller
  <2>4. w \in Nat /\ (after # None => w >= after)  BY <2>3, WaitsLongEnough
  <2>5. now + w \in Int /\ "backoff" \in Inside  BY <1>4, <2>4 DEF Inside
  <2>6. /\ th' \in [Threads -> Caller]
        /\ th'[t].pc = "backoff" /\ th'[t].attempt = th[t].attempt /\ th'[t].wake = now + w
        /\ th'[t].since = th[t].since /\ th'[t].outcome = None
        /\ \A u \in Threads : u # t => th'[u] = th[u] /\ th'[u].pc \notin Inside
        /\ \A u \in Threads : (holder' = u) <=> th'[u].pc \in Inside
        /\ holder' # None
        /\ FirewallEndsCall'
    BY <1>1, <1>3, <2>1, <2>2, <2>3, <2>5, StaysInside
  <2>7. Typed'  BY <1>1, <1>4, <1>5, <2>2, <2>6 DEF Typed
  <2>8. AskedIsKept'
    <3>1. asked' <= now + w
      <4>1. CASE after = None  BY <1>4, <1>5, <2>4, <4>1
      <4>2. CASE after # None
        <5>1. after \in Nat  BY <4>2 DEF GateAssumption
        <5> QED  BY <1>4, <1>5, <2>4, <4>2, <5>1
      <4> QED  BY <4>1, <4>2
    <3> QED  BY <2>6, <3>1 DEF AskedIsKept, Inside
  <2>9. PaceIsEnough'  BY <2>6 DEF PaceIsEnough, Inside
  <2>10. RetriesLeft'
    <3>1. th[t].attempt < MaxRetries  BY <1>7, <2>3 DEF GateAssumption
    <3> QED  BY <2>6, <3>1 DEF RetriesLeft, Inside
  <2>11. TroubleIsLast' /\ FailureIsSeen'
    BY <1>1, <2>2, <2>6 DEF TroubleIsLast, FailureIsSeen, GateAssumption
  <2> QED  BY <2>6, <2>7, <2>8, <2>9, <2>10, <2>11
<1> QED  BY <1>6, <1>7

\* Time passes: what was to be waited for comes nearer, the doubled interval may end.
LEMMA TickKeeps ==
  ASSUME GateAssumption, IInv, Tick PROVE IInv'
<1> USE DEF IInv
<1>1. /\ now < MaxTime /\ now' = now + 1
      /\ UNCHANGED <<holder, th, lastEnd, slowUntil, notBefore, trouble, asked, walls>>
  BY DEF Tick
<1>2. now \in Int /\ asked \in Int /\ slowUntil \in Int /\ lastEnd \in Int  BY DEF Typed, GateAssumption
<1>3. Typed'  BY <1>1 DEF Typed, GateAssumption
<1>4. AskedIsKept'  BY <1>1, <1>2 DEF AskedIsKept
<1>5. PaceIsEnough'
  <2>1. IntervalSeconds' <= IntervalSeconds /\ IntervalSeconds \in Int /\ IntervalSeconds' \in Int
    BY <1>1, <1>2 DEF IntervalSeconds, GateAssumption
  <2>2. \A t \in Threads : th[t] \in Caller  BY DEF Typed
  <2>3. \A t \in Threads : th[t].wake \in Int  BY <2>2 DEF Caller
  <2> QED  BY <1>1, <1>2, <2>1, <2>3 DEF PaceIsEnough
<1>6. TroubleIsLast'
  <2>1. \A t \in Threads : th[t] \in Caller  BY DEF Typed
  <2>2. trouble.at \in Int /\ \A t \in Threads : th[t].since \in Int  BY <2>1 DEF Typed, Caller
  <2> QED  BY <1>1, <1>2, <2>2 DEF TroubleIsLast
<1>7. FirewallEndsCall' /\ FailureIsSeen' /\ RetriesLeft'
  BY <1>1 DEF FirewallEndsCall, FailureIsSeen, RetriesLeft
<1> QED  BY <1>3, <1>4, <1>5, <1>6, <1>7

\* A restart forgets all but the time.
LEMMA RestartKeeps ==
  ASSUME GateAssumption, IInv, Restart PROVE IInv'
<1>1. Never \in Int /\ Never <= 0  BY DEF GateAssumption, Never
<1>2. now \in 0..MaxTime /\ now >= 0  BY DEF IInv, Typed, GateAssumption
<1>3. Outside \in Caller  BY DEF GateAssumption, Outside, Caller, Outcomes
<1>4. \A t \in Threads : holder' # t  BY DEF GateAssumption, Restart
<1>5. Typed'
  <2>1. NoTrouble \in [at : Int, kind : {None, "firewall", "unavailable", "rate_limited"}]
    BY <1>1 DEF NoTrouble
  <2> QED  BY <1>1, <1>2, <1>3, <1>4, <2>1 DEF Restart, Typed, Outside, Inside
<1>6. AskedIsKept'  BY <1>1, <1>2 DEF Restart, AskedIsKept, Outside
<1>7. PaceIsEnough' /\ FirewallEndsCall' /\ RetriesLeft'
  BY DEF Restart, PaceIsEnough, FirewallEndsCall, RetriesLeft, Outside
<1>8. TroubleIsLast' /\ FailureIsSeen'
  BY <1>1, <1>2 DEF GateAssumption, Restart, TroubleIsLast, FailureIsSeen, Outside, NoTrouble
<1> QED  BY <1>5, <1>6, <1>7, <1>8 DEF IInv

-----------------------------------------------------------------------------
LEMMA NextKeeps == ASSUME GateAssumption, IInv, [Next]_vars PROVE IInv'
<1>1. ASSUME NEW t \in Threads, Call(t) \/ Enter(t) \/ Depart(t) PROVE IInv'
  BY <1>1, CallKeeps, EnterKeeps, DepartKeeps
<1>2. ASSUME NEW t \in Threads, Answered(t) \/ Blocked(t) \/ Retry(t) PROVE IInv'
  BY <1>2, AnsweredKeeps, BlockedKeeps, RetryKeeps
<1>3. ASSUME NEW t \in Threads, NEW kind \in {"unavailable", "rate_limited"},
             NEW after \in Delays \cup {None}, Busy(t, kind, after)
      PROVE IInv'
  BY <1>3, BusyKeeps
<1>4. CASE Tick \/ Restart  BY <1>4, TickKeeps, RestartKeeps
<1>5. CASE UNCHANGED vars
  <2>1. /\ UNCHANGED <<now, holder, th, lastEnd, slowUntil>>
        /\ UNCHANGED <<notBefore, trouble, asked, walls>>
    BY <1>5 DEF vars
  <2> QED  BY <2>1 DEF IInv, Typed, AskedIsKept, PaceIsEnough, IntervalSeconds, FirewallEndsCall,
                       TroubleIsLast, FailureIsSeen, RetriesLeft
<1>6. ASSUME NEW t \in Threads, NEW kind \in {"unavailable", "rate_limited"}, Unreadable(t, kind)
      PROVE IInv'
  BY <1>6, UnreadableKeeps
<1> QED  BY <1>1, <1>2, <1>3, <1>4, <1>5, <1>6 DEF Next

LEMMA Inductive == ASSUME GateAssumption PROVE Spec => []IInv
<1>1. Init => IInv  BY InitHolds
<1>2. IInv /\ [Next]_vars => IInv'  BY NextKeeps
<1> QED  BY <1>1, <1>2, PTL DEF Spec

\* Type correctness, and the mutual exclusion of the lock: two threads are never past it.
THEOREM OneHolder == Spec => []TypeOK
<1>1. IInv => TypeOK  BY DEF IInv, Typed, Caller, Inside, TypeOK
<1> QED  BY <1>1, Inductive, GateAssumption, PTL

\* The gate is polite to a busy NADA and to its firewall, and no failed call goes unseen.
THEOREM Polite == Spec => [](RetryAfterKept /\ FirewallEndsCall /\ FailureIsSeen)
<1>1. IInv => RetryAfterKept /\ FirewallEndsCall /\ FailureIsSeen
  BY DEF IInv, AskedIsKept, RetryAfterKept
<1> QED  BY <1>1, Inductive, GateAssumption, PTL

\* Only a thread that paced sends, so every request keeps its distance from the last.
LEMMA StepKeepsGap == ASSUME GateAssumption, IInv, [Next]_vars PROVE [KeepsGap]_vars
<1> SUFFICES ASSUME NEW u \in Threads, th[u].pc # "flight", th'[u].pc = "flight"
             PROVE  now >= lastEnd + IntervalSeconds
  BY DEF KeepsGap
<1>1. th \in [Threads -> Caller]  BY DEF IInv, Typed
<1>2. ASSUME NEW t \in Threads, NEW STATE pc, NEW STATE attempt, NEW STATE wake,
             NEW STATE since, NEW STATE outcome,
             Becomes(t, pc, attempt, wake, since, outcome)
      PROVE  u = t /\ pc = "flight"
  <2>1. u # t => th'[u] = th[u]  BY <1>1, <1>2 DEF Becomes
  <2>2. th'[t] = [pc |-> pc, attempt |-> attempt, wake |-> wake, since |-> since, outcome |-> outcome]
    BY <1>1, <1>2 DEF Becomes
  <2>3. th'[t].pc = pc  BY <2>2
  <2> QED  BY <2>1, <2>3
<1>3. ASSUME NEW t \in Threads, Call(t) \/ Enter(t) PROVE FALSE
  <2>1. CASE Call(t)
    <3>1. Becomes(t, "lock", 0, 0, now, None)  BY <2>1 DEF Call
    <3> QED  BY <1>2, <3>1
  <2>2. CASE Enter(t)
    <3>1. \/ Becomes(t, "idle", th[t].attempt, th[t].wake, th[t].since, "asked_to_wait")
          \/ Becomes(t, "pace", 0, PaceUntil, th[t].since, None)
      BY <2>2 DEF Enter, Return
    <3> QED  BY <1>2, <3>1
  <2> QED  BY <1>3, <2>1, <2>2
<1>4. ASSUME NEW t \in Threads, Depart(t) PROVE now >= lastEnd + IntervalSeconds
  <2>1. th[t].pc = "pace" /\ now >= th[t].wake  BY <1>4 DEF Depart
  <2>2. th[t].wake >= lastEnd + IntervalSeconds  BY <2>1 DEF IInv, PaceIsEnough
  <2>3. th[t] \in Caller  BY <1>1
  <2>4. now \in Int /\ th[t].wake \in Int /\ lastEnd + IntervalSeconds \in Int
    BY <2>3, PaceType DEF IInv, Typed, Caller, GateAssumption
  <2> QED  BY <2>1, <2>2, <2>4
<1>5. ASSUME NEW t \in Threads, Answered(t) \/ Blocked(t) \/ Retry(t) PROVE FALSE
  <2>1. \/ Becomes(t, "idle", th[t].attempt, th[t].wake, th[t].since, "answer")
        \/ Becomes(t, "idle", th[t].attempt, th[t].wake, th[t].since, "firewall")
        \/ Becomes(t, "pace", th[t].attempt + 1, PaceUntil, th[t].since, None)
    BY <1>5 DEF Answered, Blocked, Retry, Return
  <2> QED  BY <1>2, <2>1
<1>6. ASSUME NEW t \in Threads, NEW kind \in {"unavailable", "rate_limited"},
             NEW after \in Delays \cup {None}, Busy(t, kind, after)
      PROVE FALSE
  <2>1. \/ Becomes(t, "idle", th[t].attempt, th[t].wake, th[t].since, kind)
        \/ \E w \in Waits(th[t].attempt, after) :
             Becomes(t, "backoff", th[t].attempt, now + w, th[t].since, None)
    BY <1>6 DEF Busy, GiveUp, Return
  <2> QED  BY <1>2, <2>1
<1>7. ASSUME NEW t \in Threads, NEW kind \in {"unavailable", "rate_limited"}, Unreadable(t, kind)
      PROVE FALSE
  <2>1. Becomes(t, "idle", th[t].attempt, th[t].wake, th[t].since, "unread")
    BY <1>7 DEF Unreadable, Return
  <2> QED  BY <1>2, <2>1
<1>8. CASE Tick \/ Restart \/ UNCHANGED vars
  BY <1>8 DEF Tick, Restart, vars, Outside
<1> QED  BY <1>3, <1>4, <1>5, <1>6, <1>7, <1>8 DEF Next

\* Requests keep their distance, whatever threads send them and through retries and restarts.
THEOREM GapHolds == Spec => GapKept
<1>1. IInv /\ [Next]_vars => [KeepsGap]_vars  BY StepKeepsGap, GateAssumption
<1> QED  BY <1>1, Inductive, GateAssumption, PTL DEF Spec, GapKept

-----------------------------------------------------------------------------
(* The API keys: the record of a key, once in the file, keeps its role and its   *)
(* revocation, since a writer saves what it loaded while it had the lock, and    *)
(* nobody makes a record for a key that has one.                                 *)

KeysSaving == {"saveNew", "saveRevoked"}
KeysMaking == {"create", "saveNew"}
KeysPlace == {"idle", "create", "revoke", "saveNew", "saveRevoked", "created", "revoked"}

\* The records, in the file or lost for a while.
KeysStoreOK ==
  /\ K!Records # None /\ DOMAIN K!Records \subseteq Ids
  /\ \A i \in DOMAIN K!Records : K!Records[i] \in K!Rec
  /\ (keysFile = None) <=> (lost # None)

\* Writers: who saves has the lock, and loaded what the file still holds; who makes a
\* record is the only one to make it.
KeysWritersOK ==
  /\ DOMAIN writer = Writers
  /\ keysLock \in Writers \cup {None}
  /\ \A w \in Writers :
       /\ writer[w].pc \in KeysPlace
       /\ writer[w].pc # "idle" => writer[w].id \in Ids
       /\ writer[w].pc \in KeysMaking => writer[w].role \in Roles
       /\ (writer[w].pc \in KeysSaving) <=> (keysLock = w)
       /\ writer[w].pc \in KeysSaving => keysFile # None /\ writer[w].seen = keysFile
       /\ writer[w].pc \in KeysMaking => writer[w].id \notin DOMAIN K!Records
       /\ writer[w].pc = "saveRevoked" => writer[w].id \in DOMAIN K!Records
  /\ \A v, w \in Writers :
       writer[v].pc \in KeysMaking /\ writer[w].pc \in KeysMaking /\ v # w =>
         writer[v].id # writer[w].id

\* What was answered, or is about to be, is in the records; and what is revoked in them was
\* answered, or is about to be.
KeysAnswersOK ==
  /\ \A k \in issued : k[1] \in DOMAIN K!Records /\ K!Records[k[1]].role = k[2]
  /\ \A i \in revoked : i \in DOMAIN K!Records /\ K!Records[i].revoked
  /\ \A w \in Writers : writer[w].pc = "created" =>
       writer[w].id \in DOMAIN K!Records /\ K!Records[writer[w].id].role = writer[w].role
  /\ \A w \in Writers : writer[w].pc = "revoked" =>
       writer[w].id \in DOMAIN K!Records /\ K!Records[writer[w].id].revoked
  /\ \A i \in DOMAIN K!Records : K!Records[i].revoked =>
       i \in revoked \/ \E w \in Writers : writer[w].pc = "revoked" /\ writer[w].id = i

\* Requests: the keys in force have been noted for each that is under way.
KeysRoutesOK ==
  /\ DOMAIN keysReq = Asking /\ DOMAIN valid = Asking
  /\ \A r \in Asking :
       /\ keysReq[r].answer \in {None, 200, 401, 403, 503}
       /\ keysReq[r].pc # "done" => keysReq[r].answer = None
       /\ keysReq[r].pc # "idle" => K!InForce \subseteq valid[r] /\ keysReq[r].min \in Int
       /\ valid[r] \subseteq DOMAIN K!Records
  /\ K!LetInByKey

KeysInv == KeysStoreOK /\ KeysWritersOK /\ KeysAnswersOK /\ KeysRoutesOK

LEMMA KeysInitHolds == ASSUME K!KeysAssumption, K!Init PROVE KeysInv
<1>1. keysFile = K!NoRecords /\ keysFile # None /\ DOMAIN keysFile = {} /\ K!Records = keysFile
  BY DEF K!KeysAssumption, K!Init, K!NoRecords, K!Records
<1>2. KeysStoreOK  BY <1>1 DEF KeysStoreOK, K!Init
<1>3. \A w \in Writers : keysLock # w  BY DEF K!KeysAssumption, K!Init
<1>4. KeysWritersOK
  BY <1>1, <1>3 DEF KeysWritersOK, K!Init, K!Quiet, KeysSaving, KeysMaking, KeysPlace
<1>5. KeysAnswersOK  BY <1>1 DEF KeysAnswersOK, K!Init, K!Quiet
<1>6. KeysRoutesOK  BY <1>1 DEF KeysRoutesOK, K!LetInByKey, K!Init, K!Fresh, K!KeysAssumption
<1> QED  BY <1>2, <1>4, <1>5, <1>6 DEF KeysInv

\* A writer's step changes that writer only.
LEMMA KeysWriterMoves ==
  ASSUME KeysWritersOK, NEW w \in Writers, NEW STATE o, writer' = [writer EXCEPT ![w] = o]
  PROVE  DOMAIN writer' = Writers /\ writer'[w] = o
         /\ \A v \in Writers : v # w => writer'[v] = writer[v]
  BY DEF KeysWritersOK

\* Where the records and the answers stay, so does what is said of them.
LEMMA KeysAnswersStay ==
  ASSUME KeysAnswersOK, K!Records' = K!Records, UNCHANGED <<issued, revoked>>,
         \A w \in Writers : writer'[w].pc \in {"created", "revoked"} => writer'[w] = writer[w],
         \A w \in Writers : writer[w].pc = "revoked" => writer'[w] = writer[w]
  PROVE  KeysAnswersOK'
  BY DEF KeysAnswersOK

\* Where the file stays, so does what is said of requests that do not move.
LEMMA KeysRoutesStay ==
  ASSUME KeysRoutesOK, UNCHANGED <<keysFile, lost, keysReq, valid, envKey>>
  PROVE  KeysRoutesOK'
  BY DEF KeysRoutesOK, K!LetInByKey, K!Records, K!InForce, K!Active

LEMMA KeysStoreStays ==
  ASSUME KeysStoreOK, UNCHANGED <<keysFile, lost>>
  PROVE  KeysStoreOK' /\ K!Records' = K!Records
  BY DEF KeysStoreOK, K!Records

\* A request is made, for a new key or for one to revoke.
LEMMA KeysAskKeeps ==
  ASSUME K!KeysAssumption, KeysInv, UNCHANGED envKey, NEW w \in Writers, NEW id \in Ids,
         \/ \E role \in Roles : K!Ask(w, "create", id, role)
         \/ K!Ask(w, "revoke", id, None)
  PROVE  KeysInv'
<1> USE DEF KeysInv
<1>1. PICK kind \in {"create", "revoke"}, role \in Roles \cup {None} :
        K!Ask(w, kind, id, role) /\ (kind = "create" => role \in Roles)
  OBVIOUS
<1> DEFINE o == [pc |-> kind, id |-> id, role |-> role, seen |-> None]
<1>2. /\ writer[w].pc = "idle" /\ writer' = [writer EXCEPT ![w] = o]
      /\ UNCHANGED <<keysFile, lost, keysLock, keysReq, issued, revoked, valid>>
      /\ kind = "create" => \A v \in Writers : writer[v].id # id \/ writer[v].pc = "idle"
  BY <1>1 DEF K!Ask
<1>3. kind = "create" => id \notin DOMAIN K!Records  BY <1>1 DEF K!Ask, K!Records
<1>4. o.pc = kind /\ o.id = id /\ o.role = role  OBVIOUS
<1> HIDE DEF o
<1>5. /\ DOMAIN writer' = Writers /\ writer'[w] = o
      /\ \A v \in Writers : v # w => writer'[v] = writer[v]
  BY <1>2, KeysWriterMoves
<1>6. KeysStoreOK' /\ K!Records' = K!Records  BY <1>2, KeysStoreStays
<1>7. KeysWritersOK'
  BY <1>1, <1>2, <1>3, <1>4, <1>5, <1>6 DEF KeysWritersOK, KeysSaving, KeysMaking, KeysPlace
<1>8. KeysAnswersOK'
  BY <1>2, <1>4, <1>5, <1>6, KeysAnswersStay
<1>9. KeysRoutesOK'  BY <1>2, KeysRoutesStay
<1> QED  BY <1>6, <1>7, <1>8, <1>9

\* The lock is taken, and the records loaded; or the request is over.
LEMMA KeysLoadKeeps ==
  ASSUME K!KeysAssumption, KeysInv, UNCHANGED envKey, NEW w \in Writers, K!Load(w)
  PROVE  KeysInv'
<1> USE DEF KeysInv
<1>1. /\ writer[w].pc \in {"create", "revoke"} /\ keysLock = None
      /\ UNCHANGED <<keysFile, lost, keysReq, issued, revoked, valid>>
  BY DEF K!Load
<1>2. KeysStoreOK' /\ K!Records' = K!Records /\ KeysRoutesOK'
  BY <1>1, KeysStoreStays, KeysRoutesStay
<1>3. \A v \in Writers : writer[v].pc \notin KeysSaving
  BY <1>1 DEF KeysWritersOK, K!KeysAssumption
<1>4. CASE keysFile = None \/ (writer[w].pc = "revoke" /\ writer[w].id \notin DOMAIN keysFile)
  <2>1. writer' = [writer EXCEPT ![w] = K!Quiet] /\ keysLock' = keysLock  BY <1>4 DEF K!Load
  <2>2. /\ DOMAIN writer' = Writers /\ writer'[w] = K!Quiet
        /\ \A v \in Writers : v # w => writer'[v] = writer[v]
    BY <2>1, KeysWriterMoves
  <2>3. K!Quiet.pc = "idle"  BY DEF K!Quiet
  <2>4. KeysWritersOK'
    BY <1>1, <1>2, <1>3, <2>1, <2>2, <2>3, K!KeysAssumption DEF KeysWritersOK, KeysSaving,
       KeysMaking, KeysPlace, K!KeysAssumption
  <2>5. KeysAnswersOK'  BY <1>1, <1>2, <2>2, <2>3, KeysAnswersStay
  <2> QED  BY <1>2, <2>4, <2>5
<1>5. CASE ~(keysFile = None \/ (writer[w].pc = "revoke" /\ writer[w].id \notin DOMAIN keysFile))
  <2> DEFINE pc == IF writer[w].pc = "create" THEN "saveNew" ELSE "saveRevoked"
             o == [pc |-> pc, id |-> writer[w].id, role |-> writer[w].role, seen |-> keysFile]
  <2>1. writer' = [writer EXCEPT ![w] = o] /\ keysLock' = w  BY <1>5 DEF K!Load, K!AtWriter
  <2>2. o.pc = pc /\ o.id = writer[w].id /\ o.role = writer[w].role /\ o.seen = keysFile  OBVIOUS
  <2>3. /\ pc \in KeysSaving
        /\ pc = "saveNew" <=> writer[w].pc = "create"
    BY <1>1 DEF KeysSaving
  <2> HIDE DEF o, pc
  <2>4. /\ DOMAIN writer' = Writers /\ writer'[w] = o
        /\ \A v \in Writers : v # w => writer'[v] = writer[v]
    BY <2>1, KeysWriterMoves
  <2>5. keysFile # None /\ K!Records = keysFile
          /\ (pc = "saveRevoked" => writer[w].id \in DOMAIN keysFile)
    BY <1>1, <1>5, <2>3 DEF K!Records
  <2>6. KeysWritersOK'
    BY <1>1, <1>2, <1>3, <2>1, <2>2, <2>3, <2>4, <2>5 DEF KeysWritersOK, KeysSaving, KeysMaking,
       KeysPlace
  <2>7. KeysAnswersOK'  BY <1>1, <1>2, <2>2, <2>3, <2>4, KeysAnswersStay DEF KeysSaving
  <2> QED  BY <1>2, <2>6, <2>7
<1> QED  BY <1>4, <1>5

\* What a save makes of the records: one more, or one revoked, the others as they were.
LEMMA KeysSavedRecords ==
  ASSUME K!KeysAssumption, KeysInv, NEW w \in Writers, K!Save(w)
  PROVE  LET i == writer[w].id
         IN /\ keysFile' # None /\ lost' = None /\ K!Records' = keysFile' /\ K!Records = keysFile
            /\ DOMAIN keysFile' = DOMAIN keysFile \cup {i} /\ i \in Ids
            /\ \A j \in DOMAIN keysFile : j # i => keysFile'[j] = keysFile[j]
            /\ \A j \in DOMAIN keysFile' : keysFile'[j] \in K!Rec
            /\ writer[w].pc = "saveNew" =>
                 i \notin DOMAIN keysFile /\ keysFile'[i].role = writer[w].role
                 /\ ~keysFile'[i].revoked
            /\ writer[w].pc = "saveRevoked" =>
                 i \in DOMAIN keysFile /\ keysFile'[i].role = keysFile[i].role
                 /\ keysFile'[i].revoked
<1> USE DEF KeysInv
<1> DEFINE i == writer[w].id
           U == DOMAIN keysFile \cup {i}
<1>1. /\ writer[w].pc \in KeysSaving /\ keysFile' = K!Saved(w) /\ lost' = lost
  BY DEF K!Save, KeysSaving
<1>2. keysFile # None /\ writer[w].seen = keysFile /\ i \in Ids /\ K!Records = keysFile
      /\ lost = None
  BY <1>1 DEF KeysWritersOK, KeysStoreOK, KeysSaving, K!Records
<1>3. /\ writer[w].pc = "saveNew" => i \notin DOMAIN keysFile /\ writer[w].role \in Roles
      /\ writer[w].pc = "saveRevoked" => i \in DOMAIN keysFile
  BY <1>2 DEF KeysWritersOK, KeysMaking
<1>4. keysFile' = [j \in U |-> IF j # i THEN keysFile[j]
                           ELSE IF writer[w].pc = "saveNew" THEN [role |-> writer[w].role,
                             revoked |-> FALSE]
                                ELSE [role |-> keysFile[j].role, revoked |-> TRUE]]
  BY <1>1, <1>2 DEF K!Saved
<1>5. DOMAIN keysFile \subseteq Ids /\ \A j \in DOMAIN keysFile : keysFile[j] \in K!Rec
  BY <1>2 DEF KeysStoreOK
<1>6. DOMAIN keysFile' = U  BY <1>4
<1>7. \A j \in DOMAIN keysFile : j # i => keysFile'[j] = keysFile[j]  BY <1>4
<1>8. CASE writer[w].pc = "saveNew"
  <2>1. keysFile'[i] = [role |-> writer[w].role, revoked |-> FALSE]  BY <1>4, <1>8
  <2>2. keysFile'[i] \in K!Rec /\ keysFile'[i].role = writer[w].role /\ ~keysFile'[i].revoked
    BY <1>3, <1>8, <2>1 DEF K!Rec
  <2>3. \A j \in U : keysFile'[j] \in K!Rec  BY <1>5, <1>7, <2>2
  <2>4. keysFile' \in [U -> K!Rec]  BY <1>4, <1>6, <2>3
  <2>5. keysFile' # None  BY <1>2, <1>5, <2>4 DEF K!KeysAssumption
  <2> QED  BY <1>1, <1>2, <1>3, <1>6, <1>7, <1>8, <2>2, <2>3, <2>5 DEF K!Records
<1>9. CASE writer[w].pc = "saveRevoked"
  <2>1. keysFile'[i] = [role |-> keysFile[i].role, revoked |-> TRUE]  BY <1>4, <1>9
  <2>2. keysFile'[i] \in K!Rec /\ keysFile'[i].role = keysFile[i].role /\ keysFile'[i].revoked
    BY <1>3, <1>5, <1>9, <2>1 DEF K!Rec
  <2>3. \A j \in U : keysFile'[j] \in K!Rec  BY <1>5, <1>7, <2>2
  <2>4. keysFile' \in [U -> K!Rec]  BY <1>4, <1>6, <2>3
  <2>5. keysFile' # None  BY <1>2, <1>5, <2>4 DEF K!KeysAssumption
  <2> QED  BY <1>1, <1>2, <1>3, <1>6, <1>7, <1>9, <2>2, <2>3, <2>5 DEF K!Records
<1> QED  BY <1>1, <1>8, <1>9 DEF KeysSaving

\* Who is let in stays let in by its key: a record keeps its role.
LEMMA KeysLetInStays ==
  ASSUME KeysRoutesOK, UNCHANGED <<keysReq, envKey>>, DOMAIN K!Records \subseteq DOMAIN K!Records',
         \A j \in DOMAIN K!Records : K!Records'[j].role = K!Records[j].role,
         DOMAIN valid' = Asking, \A r \in Asking : valid[r] \subseteq valid'[r]
  PROVE  K!LetInByKey'
<1> SUFFICES ASSUME NEW r \in Asking, keysReq[r].answer = 200
             PROVE  \/ envKey /\ keysReq[r].key = "env"
                    \/ /\ keysReq[r].key \in valid'[r]
                       /\ K!Records'[keysReq[r].key].role >= keysReq[r].min
  BY DEF K!LetInByKey
<1>1. \/ envKey /\ keysReq[r].key = "env"
      \/ /\ keysReq[r].key \in valid[r] /\ valid[r] \subseteq DOMAIN K!Records
         /\ K!Records[keysReq[r].key].role >= keysReq[r].min
  BY DEF KeysRoutesOK, K!LetInByKey
<1> QED  BY <1>1

\* The file is replaced.
LEMMA KeysSaveKeeps ==
  ASSUME K!KeysAssumption, KeysInv, UNCHANGED envKey, NEW w \in Writers, K!Save(w)
  PROVE  KeysInv'
<1> USE DEF KeysInv
<1> DEFINE i == writer[w].id
           pc == IF writer[w].pc = "saveNew" THEN "created" ELSE "revoked"
           o == [pc |-> pc, id |-> i, role |-> writer[w].role, seen |-> writer[w].seen]
<1>1. /\ writer[w].pc \in KeysSaving /\ keysLock' = IF keysLock = w THEN None ELSE keysLock
      /\ valid' = [r \in Asking |-> valid[r] \cup K!Active(keysFile')]
      /\ writer' = [writer EXCEPT ![w] = o]
      /\ UNCHANGED <<lost, keysReq, issued, revoked>>
  BY DEF K!Save, KeysSaving, K!AtWriter
<1>2. /\ keysFile' # None /\ lost' = None /\ K!Records' = keysFile' /\ K!Records = keysFile
      /\ DOMAIN keysFile' = DOMAIN keysFile \cup {i} /\ i \in Ids
      /\ \A j \in DOMAIN keysFile : j # i => keysFile'[j] = keysFile[j]
      /\ \A j \in DOMAIN keysFile' : keysFile'[j] \in K!Rec
      /\ writer[w].pc = "saveNew" =>
           i \notin DOMAIN keysFile /\ keysFile'[i].role = writer[w].role /\ ~keysFile'[i].revoked
      /\ writer[w].pc = "saveRevoked" =>
           i \in DOMAIN keysFile /\ keysFile'[i].role = keysFile[i].role /\ keysFile'[i].revoked
  BY KeysSavedRecords
<1>3. keysLock = w /\ keysLock' = None  BY <1>1 DEF KeysWritersOK
<1>4. o.pc = pc /\ o.id = i /\ o.role = writer[w].role  OBVIOUS
<1>5. /\ pc \in {"created", "revoked"}
      /\ pc = "created" <=> writer[w].pc = "saveNew"
      /\ pc = "revoked" <=> writer[w].pc = "saveRevoked"
  BY <1>1 DEF KeysSaving
<1> HIDE DEF o, pc
<1>6. /\ DOMAIN writer' = Writers /\ writer'[w] = o
      /\ \A v \in Writers : v # w => writer'[v] = writer[v]
  BY <1>1, KeysWriterMoves
<1>7. \A v \in Writers : v # w => writer[v].pc \notin KeysSaving  BY <1>3 DEF KeysWritersOK
<1>8. KeysStoreOK'
  <2>1. DOMAIN keysFile' \subseteq Ids  BY <1>2 DEF KeysStoreOK
  <2> QED  BY <1>2, <2>1 DEF KeysStoreOK
<1>9. KeysWritersOK'
  <2>1. \A v \in Writers : v # w /\ writer[v].pc \in KeysMaking =>
          writer[v].id \notin DOMAIN keysFile'
    <3>1. CASE writer[w].pc = "saveNew"
      <4>1. \A v \in Writers : v # w /\ writer[v].pc \in KeysMaking => writer[v].id # i
        BY <3>1 DEF KeysWritersOK, KeysMaking
      <4> QED  BY <1>2, <4>1 DEF KeysWritersOK
    <3>2. CASE writer[w].pc = "saveRevoked"  BY <1>2, <3>2 DEF KeysWritersOK
    <3> QED  BY <1>1, <3>1, <3>2 DEF KeysSaving
  <2>2. None \notin Writers  BY DEF K!KeysAssumption
  <2> QED
    BY <1>2, <1>3, <1>4, <1>5, <1>6, <1>7, <2>1, <2>2 DEF KeysWritersOK, KeysSaving, KeysMaking,
       KeysPlace
<1>10. /\ DOMAIN keysFile \subseteq DOMAIN keysFile'
       /\ \A j \in DOMAIN keysFile : /\ keysFile'[j].role = keysFile[j].role
                                     /\ keysFile[j].revoked => keysFile'[j].revoked
  BY <1>1, <1>2 DEF KeysSaving
<1>11. KeysAnswersOK'
  <2>1. \A j \in DOMAIN keysFile' : keysFile'[j].revoked =>
          (j = i /\ pc = "revoked") \/ (j \in DOMAIN keysFile /\ keysFile[j].revoked)
    BY <1>1, <1>2, <1>5 DEF KeysSaving
  <2>2. /\ \A k \in issued' : k[1] \in DOMAIN keysFile' /\ keysFile'[k[1]].role = k[2]
        /\ \A j \in revoked' : j \in DOMAIN keysFile' /\ keysFile'[j].revoked
    BY <1>1, <1>2, <1>10 DEF KeysAnswersOK
  <2>3. \A v \in Writers :
          /\ writer'[v].pc = "created" =>
               writer'[v].id \in DOMAIN keysFile'
               /\ keysFile'[writer'[v].id].role = writer'[v].role
          /\ writer'[v].pc = "revoked" =>
               writer'[v].id \in DOMAIN keysFile' /\ keysFile'[writer'[v].id].revoked
    BY <1>2, <1>4, <1>5, <1>6, <1>10 DEF KeysAnswersOK
  <2>4. \A j \in DOMAIN keysFile' : keysFile'[j].revoked =>
          j \in revoked' \/ \E v \in Writers : writer'[v].pc = "revoked" /\ writer'[v].id = j
    <3> SUFFICES ASSUME NEW j \in DOMAIN keysFile', keysFile'[j].revoked
                 PROVE  j \in revoked' \/ \E v \in Writers : writer'[v].pc = "revoked"
                          /\ writer'[v].id = j
      OBVIOUS
    <3>1. CASE j = i /\ pc = "revoked"  BY <1>4, <1>6, <3>1
    <3>2. CASE j \in DOMAIN keysFile /\ keysFile[j].revoked
      <4>1. \/ j \in revoked
            \/ \E v \in Writers : v # w /\ writer[v].pc = "revoked" /\ writer[v].id = j
        BY <1>1, <1>2, <3>2 DEF KeysAnswersOK, KeysSaving
      <4> QED  BY <1>1, <1>6, <4>1
    <3> QED  BY <2>1, <3>1, <3>2
  <2> QED  BY <1>2, <2>2, <2>3, <2>4 DEF KeysAnswersOK
<1>12. KeysRoutesOK'
  <2>1. DOMAIN valid' = Asking /\ \A r \in Asking : valid'[r] = valid[r] \cup K!Active(keysFile')
    BY <1>1
  <2>2. K!InForce' = K!Active(keysFile') /\ K!Active(keysFile') \subseteq DOMAIN keysFile'
    BY <1>2 DEF K!InForce, K!Active
  <2>3. K!LetInByKey'  BY <1>1, <1>2, <1>10, <2>1, KeysLetInStays
  <2> QED  BY <1>1, <1>2, <1>10, <2>1, <2>2, <2>3 DEF KeysRoutesOK
<1> QED  BY <1>8, <1>9, <1>11, <1>12

\* The write fails: the lock is let go, and the file is as it was.
LEMMA KeysSaveFailsKeeps ==
  ASSUME K!KeysAssumption, KeysInv, UNCHANGED envKey, NEW w \in Writers, K!SaveFails(w)
  PROVE  KeysInv'
<1> USE DEF KeysInv
<1>1. /\ writer[w].pc \in KeysSaving /\ keysLock' = IF keysLock = w THEN None ELSE keysLock
      /\ writer' = [writer EXCEPT ![w] = K!Quiet]
      /\ UNCHANGED <<keysFile, lost, keysReq, issued, revoked, valid>>
  BY DEF K!SaveFails, KeysSaving
<1>2. KeysStoreOK' /\ K!Records' = K!Records /\ KeysRoutesOK'
  BY <1>1, KeysStoreStays, KeysRoutesStay
<1>3. keysLock' = None /\ \A v \in Writers : v # w => writer[v].pc \notin KeysSaving
  BY <1>1 DEF KeysWritersOK
<1>4. K!Quiet.pc = "idle"  BY DEF K!Quiet
<1>5. /\ DOMAIN writer' = Writers /\ writer'[w] = K!Quiet
      /\ \A v \in Writers : v # w => writer'[v] = writer[v]
  BY <1>1, KeysWriterMoves
<1>6. KeysWritersOK'
  BY <1>1, <1>2, <1>3, <1>4, <1>5 DEF KeysWritersOK, KeysSaving, KeysMaking, KeysPlace,
     K!KeysAssumption
<1>7. KeysAnswersOK'  BY <1>1, <1>2, <1>4, <1>5, KeysAnswersStay DEF KeysSaving
<1> QED  BY <1>2, <1>6, <1>7

\* The writer answers: what its record says was said of it while it was about to.
LEMMA KeysAnswerKeeps ==
  ASSUME K!KeysAssumption, KeysInv, UNCHANGED envKey, NEW w \in Writers, K!Answer(w)
  PROVE  KeysInv'
<1> USE DEF KeysInv
<1>1. /\ writer[w].pc \in {"created", "revoked"}
      /\ writer' = [writer EXCEPT ![w] = K!Quiet]
      /\ issued' = IF writer[w].pc = "created"
                   THEN issued \cup {<<writer[w].id, writer[w].role>>} ELSE issued
      /\ revoked' = IF writer[w].pc = "revoked" THEN revoked \cup {writer[w].id} ELSE revoked
      /\ UNCHANGED <<keysFile, lost, keysLock, keysReq, valid>>
  BY DEF K!Answer
<1>2. KeysStoreOK' /\ K!Records' = K!Records /\ KeysRoutesOK'
  BY <1>1, KeysStoreStays, KeysRoutesStay
<1>3. K!Quiet.pc = "idle"  BY DEF K!Quiet
<1>4. /\ DOMAIN writer' = Writers /\ writer'[w] = K!Quiet
      /\ \A v \in Writers : v # w => writer'[v] = writer[v]
  BY <1>1, KeysWriterMoves
<1>5. KeysWritersOK'
  BY <1>1, <1>2, <1>3, <1>4 DEF KeysWritersOK, KeysSaving, KeysMaking, KeysPlace
<1>6. KeysAnswersOK'
  <2>1. \A k \in issued' : k[1] \in DOMAIN K!Records /\ K!Records[k[1]].role = k[2]
    BY <1>1 DEF KeysAnswersOK
  <2>2. \A i \in revoked' : i \in DOMAIN K!Records /\ K!Records[i].revoked
    BY <1>1 DEF KeysAnswersOK
  <2>3. \A v \in Writers : writer'[v].pc \in {"created", "revoked"} => writer'[v] = writer[v]
    BY <1>3, <1>4
  <2>4. \A i \in DOMAIN K!Records : K!Records[i].revoked =>
          i \in revoked' \/ \E v \in Writers : writer'[v].pc = "revoked" /\ writer'[v].id = i
    BY <1>1, <1>4 DEF KeysAnswersOK
  <2> QED  BY <1>2, <2>1, <2>2, <2>3, <2>4 DEF KeysAnswersOK
<1> QED  BY <1>2, <1>5, <1>6

\* Where the writers and the records stay, so does what is said of both.
LEMMA KeysWritersStay ==
  ASSUME KeysWritersOK, KeysAnswersOK, K!Records' = K!Records,
         UNCHANGED <<keysLock, writer, issued, revoked>>,
         UNCHANGED keysFile \/ \A w \in Writers : writer[w].pc \notin KeysSaving
  PROVE  KeysWritersOK' /\ KeysAnswersOK'
<1>1. KeysAnswersOK'  BY DEF KeysAnswersOK
<1>2. CASE UNCHANGED keysFile  BY <1>1, <1>2 DEF KeysWritersOK
<1>3. CASE \A w \in Writers : writer[w].pc \notin KeysSaving  BY <1>1, <1>3 DEF KeysWritersOK
<1> QED  BY <1>1, <1>2, <1>3

\* A step of a request changes that request only.
LEMMA KeysRequestMoves ==
  ASSUME KeysRoutesOK, NEW r \in Asking, NEW STATE o, keysReq' = [keysReq EXCEPT ![r] = o]
  PROVE  DOMAIN keysReq' = Asking /\ keysReq'[r] = o
         /\ \A s \in Asking : s # r => keysReq'[s] = keysReq[s]
  BY DEF KeysRoutesOK

\* A request arrives, and what is in force is noted for it.
LEMMA KeysArriveKeeps ==
  ASSUME K!KeysAssumption, KeysInv, UNCHANGED envKey, NEW r \in Asking, NEW key,
         NEW min \in Required, K!Arrive(r, key, min)
  PROVE  KeysInv'
<1> USE DEF KeysInv
<1> DEFINE o == [pc |-> "resolve", key |-> key, min |-> min, answer |-> None]
<1>1. /\ keysReq' = [keysReq EXCEPT ![r] = o]
      /\ valid' = [valid EXCEPT ![r] = K!InForce]
      /\ UNCHANGED <<keysFile, lost, keysLock, writer, issued, revoked>>
  BY DEF K!Arrive
<1>2. o.pc = "resolve" /\ o.min = min /\ o.answer = None  OBVIOUS
<1> HIDE DEF o
<1>3. /\ DOMAIN keysReq' = Asking /\ keysReq'[r] = o
      /\ \A s \in Asking : s # r => keysReq'[s] = keysReq[s]
  BY <1>1, KeysRequestMoves
<1>4. /\ DOMAIN valid' = Asking /\ valid'[r] = K!InForce
      /\ \A s \in Asking : s # r => valid'[s] = valid[s]
  BY <1>1 DEF KeysRoutesOK
<1>5. KeysStoreOK' /\ K!Records' = K!Records  BY <1>1, KeysStoreStays
<1>6. KeysWritersOK' /\ KeysAnswersOK'  BY <1>1, <1>5, KeysWritersStay
<1>7. K!InForce' = K!InForce /\ K!InForce \subseteq DOMAIN K!Records
  BY <1>1 DEF K!InForce, K!Active, K!Records
<1>8. min \in Int  BY DEF K!KeysAssumption
<1>9. K!LetInByKey'
  BY <1>2, <1>3, <1>4, <1>5 DEF KeysRoutesOK, K!LetInByKey, K!KeysAssumption
<1>10. KeysRoutesOK'
  BY <1>2, <1>3, <1>4, <1>5, <1>7, <1>8, <1>9 DEF KeysRoutesOK
<1> QED  BY <1>5, <1>6, <1>10

\* A request that is under way goes on, or ends as it may.
LEMMA KeysRouteGoesOn ==
  ASSUME K!KeysAssumption, KeysInv, UNCHANGED envKey, NEW r \in Asking, NEW pc \in {"any", "done"},
         NEW answer \in {None, 200, 401, 403, 503}, K!AtRoute(r, pc, answer),
         keysReq[r].pc # "idle", pc # "done" => answer = None,
         answer = 200 => \/ envKey /\ keysReq[r].key = "env"
                         \/ /\ keysReq[r].key \in K!InForce
                            /\ K!Records[keysReq[r].key].role >= keysReq[r].min,
         UNCHANGED <<keysFile, lost, keysLock, writer, issued, revoked, valid>>
  PROVE  KeysInv'
<1> USE DEF KeysInv
<1> DEFINE o == [pc |-> pc, key |-> keysReq[r].key, min |-> keysReq[r].min, answer |-> answer]
<1>1. keysReq' = [keysReq EXCEPT ![r] = o]  BY DEF K!AtRoute
<1>2. o.pc = pc /\ o.key = keysReq[r].key /\ o.min = keysReq[r].min /\ o.answer = answer  OBVIOUS
<1> HIDE DEF o
<1>3. /\ DOMAIN keysReq' = Asking /\ keysReq'[r] = o
      /\ \A s \in Asking : s # r => keysReq'[s] = keysReq[s]
  BY <1>1 DEF KeysRoutesOK
<1>4. KeysStoreOK' /\ K!Records' = K!Records  BY KeysStoreStays
<1>5. KeysWritersOK' /\ KeysAnswersOK'  BY <1>4, KeysWritersStay
<1>6. K!InForce' = K!InForce  BY DEF K!InForce, K!Active
<1>7. K!InForce \subseteq valid[r]  BY DEF KeysRoutesOK
<1>8. K!LetInByKey'
  BY <1>2, <1>3, <1>4, <1>7 DEF KeysRoutesOK, K!LetInByKey
<1>9. KeysRoutesOK'
  BY <1>2, <1>3, <1>4, <1>6, <1>8 DEF KeysRoutesOK
<1> QED  BY <1>4, <1>5, <1>9

\* The route asks whose key it is.
LEMMA KeysResolveKeeps ==
  ASSUME K!KeysAssumption, KeysInv, UNCHANGED envKey, NEW r \in Asking, K!Resolve(r)
  PROVE  KeysInv'
<1>1. /\ keysReq[r].pc # "idle"
      /\ UNCHANGED <<keysFile, lost, keysLock, writer, issued, revoked, valid>>
  BY DEF K!Resolve
<1>2. CASE envKey /\ keysReq[r].key = "env"
  <2>1. K!AtRoute(r, "done", 200)  BY <1>2 DEF K!Resolve, K!Ends
  <2> QED  BY <1>1, <1>2, <2>1, KeysRouteGoesOn
<1>3. CASE ~(envKey /\ keysReq[r].key = "env") /\ keysFile = None
  <2>1. K!AtRoute(r, "done", 503)  BY <1>3 DEF K!Resolve, K!Ends
  <2> QED  BY <1>1, <2>1, KeysRouteGoesOn
<1>4. CASE ~(envKey /\ keysReq[r].key = "env") /\ keysFile # None
  <2>1. CASE \E role \in K!Found(r) : K!Ends(r, IF role < keysReq[r].min THEN 403 ELSE 200)
    <3>1. /\ keysReq[r].key \in K!InForce
          /\ K!Ends(r, IF keysFile[keysReq[r].key].role < keysReq[r].min THEN 403 ELSE 200)
      BY <2>1 DEF K!Found
    <3>2. K!Records[keysReq[r].key].role \in Int /\ keysReq[r].min \in Int /\ K!Records = keysFile
      BY <1>1, <1>4, <3>1 DEF KeysInv, KeysStoreOK, KeysRoutesOK, K!Records, K!InForce,
         K!Active, K!Rec, K!KeysAssumption
    <3>3. CASE keysFile[keysReq[r].key].role < keysReq[r].min
      <4>1. K!AtRoute(r, "done", 403)  BY <3>1, <3>3 DEF K!Ends
      <4> QED  BY <1>1, <4>1, KeysRouteGoesOn
    <3>4. CASE ~(keysFile[keysReq[r].key].role < keysReq[r].min)
      <4>1. K!AtRoute(r, "done", 200)  BY <3>1, <3>4 DEF K!Ends
      <4>2. K!Records[keysReq[r].key].role >= keysReq[r].min  BY <3>2, <3>4
      <4> QED  BY <1>1, <3>1, <4>1, <4>2, KeysRouteGoesOn
    <3> QED  BY <3>3, <3>4
  <2>2. CASE IF envKey THEN K!Ends(r, 401) ELSE K!AtRoute(r, "any", None)
    <3>1. K!AtRoute(r, "done", 401) \/ K!AtRoute(r, "any", None)  BY <2>2 DEF K!Ends
    <3>2. None # 200  BY DEF K!KeysAssumption
    <3>3. CASE K!AtRoute(r, "done", 401)  BY <1>1, <3>3, KeysRouteGoesOn
    <3>4. CASE K!AtRoute(r, "any", None)  BY <1>1, <3>2, <3>4, KeysRouteGoesOn
    <3> QED  BY <3>1, <3>3, <3>4
  <2> QED  BY <1>4, <2>1, <2>2 DEF K!Resolve
<1> QED  BY <1>2, <1>3, <1>4

LEMMA KeysAnyActiveKeeps ==
  ASSUME K!KeysAssumption, KeysInv, UNCHANGED envKey, NEW r \in Asking, K!AnyActive(r)
  PROVE  KeysInv'
<1>1. /\ keysReq[r].pc # "idle"
      /\ UNCHANGED <<keysFile, lost, keysLock, writer, issued, revoked, valid>>
      /\ K!AtRoute(r, "done", 503) \/ K!AtRoute(r, "done", 401)
  BY DEF K!AnyActive, K!Ends
<1>2. CASE K!AtRoute(r, "done", 503)  BY <1>1, <1>2, KeysRouteGoesOn
<1>3. CASE K!AtRoute(r, "done", 401)  BY <1>1, <1>3, KeysRouteGoesOn
<1> QED  BY <1>1, <1>2, <1>3

LEMMA KeysLeaveKeeps ==
  ASSUME K!KeysAssumption, KeysInv, UNCHANGED envKey, NEW r \in Asking, K!Leave(r)
  PROVE  KeysInv'
<1> USE DEF KeysInv
<1>1. /\ keysReq' = [keysReq EXCEPT ![r] = K!Fresh] /\ valid' = [valid EXCEPT ![r] = {}]
      /\ UNCHANGED <<keysFile, lost, keysLock, writer, issued, revoked>>
  BY DEF K!Leave
<1>2. K!Fresh.pc = "idle" /\ K!Fresh.answer = None  BY DEF K!Fresh
<1>3. /\ DOMAIN keysReq' = Asking /\ keysReq'[r] = K!Fresh
      /\ \A s \in Asking : s # r => keysReq'[s] = keysReq[s]
  BY <1>1, KeysRequestMoves
<1>4. /\ DOMAIN valid' = Asking /\ valid'[r] = {}
      /\ \A s \in Asking : s # r => valid'[s] = valid[s]
  BY <1>1 DEF KeysRoutesOK
<1>5. KeysStoreOK' /\ K!Records' = K!Records  BY <1>1, KeysStoreStays
<1>6. KeysWritersOK' /\ KeysAnswersOK'  BY <1>1, <1>5, KeysWritersStay
<1>7. K!InForce' = K!InForce  BY <1>1 DEF K!InForce, K!Active
<1>8. K!LetInByKey'
  BY <1>1, <1>2, <1>3, <1>4, <1>5 DEF KeysRoutesOK, K!LetInByKey, K!KeysAssumption
<1>9. KeysRoutesOK'
  BY <1>2, <1>3, <1>4, <1>5, <1>7, <1>8 DEF KeysRoutesOK
<1> QED  BY <1>5, <1>6, <1>9

\* The file is left unreadable: nothing is in force, and what it held is kept aside.
LEMMA KeysBreakKeeps ==
  ASSUME K!KeysAssumption, KeysInv, UNCHANGED envKey, K!Break
  PROVE  KeysInv'
<1> USE DEF KeysInv
<1>1. /\ keysFile # None /\ keysFile' = None /\ lost' = keysFile
      /\ \A w \in Writers : writer[w].pc \notin KeysSaving
      /\ UNCHANGED <<keysLock, writer, keysReq, issued, revoked, valid>>
  BY DEF K!Break, KeysSaving
<1>2. K!Records' = K!Records /\ K!Records = keysFile  BY <1>1 DEF K!Records
<1>3. KeysStoreOK'  BY <1>1, <1>2 DEF KeysStoreOK
<1>4. KeysWritersOK' /\ KeysAnswersOK'  BY <1>1, <1>2, KeysWritersStay
<1>5. K!InForce' = {}  BY <1>1 DEF K!InForce
<1>6. K!LetInByKey'  BY <1>1, <1>2 DEF KeysRoutesOK, K!LetInByKey
<1>7. KeysRoutesOK'  BY <1>1, <1>2, <1>5, <1>6 DEF KeysRoutesOK
<1> QED  BY <1>3, <1>4, <1>7

\* The file is readable again.
LEMMA KeysRepairKeeps ==
  ASSUME K!KeysAssumption, KeysInv, UNCHANGED envKey, K!Repair
  PROVE  KeysInv'
<1> USE DEF KeysInv
<1>1. /\ keysFile = None /\ keysFile' = lost /\ lost' = None
      /\ valid' = [r \in Asking |-> valid[r] \cup K!Active(lost)]
      /\ UNCHANGED <<keysLock, writer, keysReq, issued, revoked>>
  BY DEF K!Repair
<1>2. K!Records = lost /\ lost # None /\ K!Records' = lost  BY <1>1 DEF K!Records, KeysStoreOK
<1>3. KeysStoreOK'  BY <1>1, <1>2 DEF KeysStoreOK
<1>4. \A w \in Writers : writer[w].pc \notin KeysSaving  BY <1>1 DEF KeysWritersOK
<1>5. KeysWritersOK' /\ KeysAnswersOK'  BY <1>1, <1>2, <1>4, KeysWritersStay
<1>6. K!InForce' = K!Active(lost) /\ K!Active(lost) \subseteq DOMAIN lost
  BY <1>1, <1>2 DEF K!InForce, K!Active
<1>7. DOMAIN valid' = Asking /\ \A r \in Asking : valid'[r] = valid[r] \cup K!Active(lost)
  BY <1>1
<1>8. K!LetInByKey'  BY <1>1, <1>2, <1>7, KeysLetInStays
<1>9. KeysRoutesOK'  BY <1>1, <1>2, <1>6, <1>7, <1>8 DEF KeysRoutesOK
<1> QED  BY <1>3, <1>5, <1>9

LEMMA KeysNextKeeps == ASSUME K!KeysAssumption, KeysInv, [K!Next]_keysVars PROVE KeysInv'
<1>1. CASE UNCHANGED keysVars
  <2>1. UNCHANGED <<envKey, keysFile, lost, keysLock, writer, keysReq, issued, revoked, valid>>
    BY <1>1 DEF keysVars
  <2>2. KeysStoreOK' /\ K!Records' = K!Records /\ KeysRoutesOK'
    BY <2>1, KeysStoreStays, KeysRoutesStay DEF KeysInv
  <2> QED  BY <2>1, <2>2, KeysWritersStay DEF KeysInv
<1>2. CASE K!Next
  <2>1. UNCHANGED envKey /\ K!Step  BY <1>2 DEF K!Next
  <2>2. ASSUME NEW w \in Writers,
               \/ \E id \in Ids, role \in Roles : K!Ask(w, "create", id, role)
               \/ \E id \in Ids : K!Ask(w, "revoke", id, None)
        PROVE  KeysInv'
    BY <2>1, <2>2, KeysAskKeeps
  <2>3. ASSUME NEW w \in Writers, K!Load(w) \/ K!Save(w) \/ K!SaveFails(w) \/ K!Answer(w)
        PROVE  KeysInv'
    BY <2>1, <2>3, KeysLoadKeeps, KeysSaveKeeps, KeysSaveFailsKeeps, KeysAnswerKeeps
  <2>4. ASSUME NEW r \in Asking, NEW key, NEW min \in Required, K!Arrive(r, key, min)
        PROVE  KeysInv'
    BY <2>1, <2>4, KeysArriveKeeps
  <2>5. ASSUME NEW r \in Asking, K!Resolve(r) \/ K!AnyActive(r) \/ K!Leave(r)
        PROVE  KeysInv'
    BY <2>1, <2>5, KeysResolveKeeps, KeysAnyActiveKeeps, KeysLeaveKeeps
  <2>6. CASE K!Break \/ K!Repair  BY <2>1, <2>6, KeysBreakKeeps, KeysRepairKeeps
  <2> QED  BY <2>1, <2>2, <2>3, <2>4, <2>5, <2>6 DEF K!Step
<1> QED  BY <1>1, <1>2

LEMMA KeysInductive == ASSUME K!KeysAssumption PROVE K!Spec => []KeysInv
<1>1. K!Init => KeysInv  BY KeysInitHolds
<1>2. KeysInv /\ [K!Next]_(K!vars) => KeysInv'  BY KeysNextKeeps DEF K!vars, keysVars
<1> QED  BY <1>1, <1>2, PTL DEF K!Spec

\* Type correctness, for any keys, roles and requests: the file is records or unreadable,
\* and at most one writer of it is between its read and its replacement.
THEOREM KeysTyped == ASSUME K!KeysAssumption PROVE K!Spec => []K!TypeOK
<1>1. KeysInv => K!TypeOK
  BY DEF KeysInv, KeysStoreOK, KeysWritersOK, KeysRoutesOK, K!TypeOK, KeysSaving
<1> QED  BY <1>1, KeysInductive, PTL

\* An answered creation or revocation of a key is never undone: by another writer, by a
\* write that fails, by a time the file was unreadable.
THEOREM KeysStay == ASSUME K!KeysAssumption PROVE K!Spec => []K!AnsweredStays
<1>1. KeysInv => K!AnsweredStays  BY DEF KeysInv, KeysAnswersOK, K!AnsweredStays
<1> QED  BY <1>1, KeysInductive, PTL

\* require_role lets in who presented a key that was in force, with the role, at some
\* time since the request arrived.
THEOREM LetInOnlyByKey == ASSUME K!KeysAssumption PROVE K!Spec => []K!LetInByKey
<1>1. KeysInv => K!LetInByKey  BY DEF KeysInv, KeysRoutesOK
<1> QED  BY <1>1, KeysInductive, PTL

-----------------------------------------------------------------------------
(* The index generation: a request that met no change takes its value from the   *)
(* cache or from the reading of whoever had the lock, so both have to be of the  *)
(* index as it is: that is so from the forgetting on, which waits for a reader   *)
(* under way, until the index changes.                                           *)

GenValues == 0..Generations \cup {None}
GenCallerRec == [pc : {"idle", "lock", "read", "keep", "sent"},
              read : GenValues, sent : GenValues, calm : BOOLEAN]

GenTyped ==
  /\ index \in 0..Generations \cup {Unstamped, None}
  /\ next \in Nat /\ genNow \in Nat
  /\ cache \in [value : GenValues, at : Int] /\ cache.at <= genNow
  /\ genLock \in Callers \cup {None}
  /\ caller \in [Callers -> GenCallerRec]
  /\ settled \in BOOLEAN
  /\ \A c \in Callers : (genLock = c) <=> caller[c].pc \in {"read", "keep"}

\* A value of the index as it is, or none.
GenNow(value) == value \in {index, None}

\* The cache and what a reader is about to put there are of the index as it is.
GenCurrent == GenNow(cache.value) /\ \A c \in Callers : caller[c].pc = "keep" =>
  GenNow(caller[c].read)

\* They are once the index is settled, and for as long as a request that found it so has
\* met no change.
GenFresh ==
  /\ settled => GenCurrent
  /\ \A c \in Callers : caller[c].calm => GenCurrent
  /\ \A c \in Callers : caller[c].calm /\ caller[c].pc = "sent" => GenNow(caller[c].sent)

GenInv == GenTyped /\ GenFresh

LEMMA GenInitHolds == ASSUME I!GenerationAssumption, I!Init PROVE GenInv
<1>1. /\ I!Away \in GenCallerRec /\ I!Away.pc = "idle" /\ I!Away.calm = FALSE
      /\ I!Forgotten \in [value : GenValues, at : Int] /\ I!Forgotten.at < 0
  BY DEF I!Away, GenCallerRec, GenValues, I!Forgotten, I!Long, I!GenerationAssumption
<1>2. GenTyped
  <2>1. index \in 0..Generations \cup {Unstamped, None}
    BY DEF I!Init, I!GenerationAssumption
  <2>2. /\ caller \in [Callers -> GenCallerRec]
        /\ \A c \in Callers : genLock # c /\ caller[c].pc = "idle"
    BY <1>1 DEF I!Init, I!GenerationAssumption
  <2>3. /\ next \in Nat /\ genNow = 0 /\ cache = I!Forgotten
        /\ genLock \in Callers \cup {None} /\ settled \in BOOLEAN
    BY DEF I!Init
  <2> QED  BY <1>1, <2>1, <2>2, <2>3 DEF GenTyped
<1>3. GenFresh  BY <1>1 DEF I!Init, GenFresh
<1> QED  BY <1>2, <1>3 DEF GenInv

\* A caller's step changes that caller only.
LEMMA GenCallerMoves ==
  ASSUME GenTyped, NEW c \in Callers, NEW pc \in {"lock", "read", "keep", "sent"},
         NEW read \in GenValues, NEW sent \in GenValues, NEW quiet \in BOOLEAN,
         caller' = [caller EXCEPT ![c] =
                     [pc |-> pc, read |-> read, sent |-> sent, calm |-> quiet]]
  PROVE  /\ caller' \in [Callers -> GenCallerRec]
         /\ caller'[c].pc = pc /\ caller'[c].read = read
         /\ caller'[c].sent = sent /\ caller'[c].calm = quiet
         /\ \A d \in Callers : d # c => caller'[d] = caller[d]
<1> DEFINE o == [pc |-> pc, read |-> read, sent |-> sent, calm |-> quiet]
<1>1. /\ o \in GenCallerRec
      /\ o.pc = pc /\ o.read = read /\ o.sent = sent /\ o.calm = quiet
  BY DEF GenCallerRec
<1> HIDE DEF o
<1>2. caller' = [caller EXCEPT ![c] = o]  BY DEF o
<1> QED  BY <1>1, <1>2 DEF GenTyped

LEMMA GenCallKeeps == ASSUME I!GenerationAssumption, GenInv, NEW c \in Callers, I!Call(c)
                      PROVE GenInv'
<1> USE DEF GenInv
<1>1. /\ caller[c].pc \notin {"read", "keep"}
      /\ caller' = [caller EXCEPT ![c] =
                     [pc |-> "lock", read |-> None, sent |-> None, calm |-> settled]]
      /\ UNCHANGED <<index, next, cache, genLock, genNow, settled>>
  BY DEF I!Call
<1>2. None \in GenValues /\ settled \in BOOLEAN  BY DEF GenValues, GenTyped
<1>3. /\ caller' \in [Callers -> GenCallerRec]
      /\ caller'[c].pc = "lock" /\ caller'[c].calm = settled
      /\ \A d \in Callers : d # c => caller'[d] = caller[d]
  BY <1>1, <1>2, GenCallerMoves
<1>4. GenTyped'  BY <1>1, <1>3 DEF GenTyped
<1>5. GenCurrent => GenCurrent'  BY <1>1, <1>3 DEF GenCurrent, GenNow
<1>6. GenFresh'  BY <1>1, <1>3, <1>5 DEF GenFresh, GenNow
<1> QED  BY <1>4, <1>6

LEMMA GenLookKeeps == ASSUME I!GenerationAssumption, GenInv, NEW c \in Callers, I!Look(c)
                      PROVE GenInv'
<1> USE DEF GenInv
<1>1. /\ caller[c].pc = "lock" /\ genLock = None
      /\ UNCHANGED <<index, next, cache, genNow, settled>>
  BY DEF I!Look
<1>2. None \in GenValues /\ cache.value \in GenValues /\ caller[c].calm \in BOOLEAN
  BY DEF GenValues, GenTyped, GenCallerRec
<1>3. CASE genNow - cache.at < TTL
  <2>1. caller' = [caller EXCEPT ![c] =
          [pc |-> "sent", read |-> None, sent |-> cache.value, calm |-> caller[c].calm]]
        /\ genLock' = genLock
    BY <1>3 DEF I!Look, I!Send, I!At
  <2>2. /\ caller' \in [Callers -> GenCallerRec]
        /\ caller'[c].pc = "sent" /\ caller'[c].sent = cache.value
        /\ caller'[c].calm = caller[c].calm
        /\ \A d \in Callers : d # c => caller'[d] = caller[d]
    BY <1>2, <2>1, GenCallerMoves
  <2>3. GenTyped'  BY <1>1, <2>1, <2>2 DEF GenTyped
  <2>4. GenCurrent => GenCurrent'  BY <1>1, <2>2 DEF GenCurrent, GenNow
  <2>5. GenCurrent => GenNow(cache.value)  BY DEF GenCurrent
  <2>6. GenFresh'  BY <1>1, <2>2, <2>4, <2>5 DEF GenFresh, GenNow
  <2> QED  BY <2>3, <2>6
<1>4. CASE ~(genNow - cache.at < TTL)
  <2>1. caller' = [caller EXCEPT ![c] =
          [pc |-> "read", read |-> None, sent |-> None, calm |-> caller[c].calm]]
        /\ genLock' = c
    BY <1>4 DEF I!Look, I!At
  <2>2. /\ caller' \in [Callers -> GenCallerRec]
        /\ caller'[c].pc = "read" /\ caller'[c].calm = caller[c].calm
        /\ \A d \in Callers : d # c => caller'[d] = caller[d]
    BY <1>2, <2>1, GenCallerMoves
  <2>3. GenTyped'  BY <1>1, <2>1, <2>2 DEF GenTyped, I!GenerationAssumption
  <2>4. GenCurrent => GenCurrent'  BY <1>1, <2>2 DEF GenCurrent, GenNow
  <2>5. GenFresh'  BY <1>1, <2>2, <2>4 DEF GenFresh, GenNow
  <2> QED  BY <2>3, <2>5
<1> QED  BY <1>3, <1>4

LEMMA GenReadKeeps == ASSUME I!GenerationAssumption, GenInv, NEW c \in Callers, I!Read(c)
                      PROVE GenInv'
<1> USE DEF GenInv
<1>1. /\ caller[c].pc = "read" /\ UNCHANGED <<index, next, cache, genLock, genNow, settled>>
  BY DEF I!Read
<1>2. PICK got \in {index, None} : I!At(c, "keep", IF got = Unstamped THEN None ELSE got, None)
  BY DEF I!Read
<1> DEFINE read == IF got = Unstamped THEN None ELSE got
<1>3. caller' = [caller EXCEPT ![c] =
        [pc |-> "keep", read |-> read, sent |-> None, calm |-> caller[c].calm]]
  BY <1>2 DEF I!At
<1>4. read \in GenValues /\ None \in GenValues /\ GenNow(read) /\ caller[c].calm \in BOOLEAN
  BY DEF GenTyped, GenValues, GenNow, GenCallerRec
<1> HIDE DEF read
<1>5. /\ caller' \in [Callers -> GenCallerRec]
      /\ caller'[c].pc = "keep" /\ caller'[c].read = read
      /\ caller'[c].calm = caller[c].calm
      /\ \A d \in Callers : d # c => caller'[d] = caller[d]
  BY <1>3, <1>4, GenCallerMoves
<1>6. GenTyped'  BY <1>1, <1>5 DEF GenTyped
<1>7. GenCurrent => GenCurrent'  BY <1>1, <1>4, <1>5 DEF GenCurrent, GenNow
<1>8. GenFresh'  BY <1>1, <1>5, <1>7 DEF GenFresh, GenNow
<1> QED  BY <1>6, <1>8

LEMMA GenKeepKeeps == ASSUME I!GenerationAssumption, GenInv, NEW c \in Callers, I!Keep(c)
                      PROVE GenInv'
<1> USE DEF GenInv
<1> DEFINE read == caller[c].read
<1>0. GenTyped /\ c \in Callers
  OBVIOUS
<1>1. /\ caller[c].pc = "keep" /\ cache' = [value |-> read, at |-> genNow] /\ genLock' = None
      /\ caller' = [caller EXCEPT ![c] =
                     [pc |-> "sent", read |-> None, sent |-> read, calm |-> caller[c].calm]]
      /\ UNCHANGED <<index, next, genNow, settled>>
  BY DEF I!Keep, I!Send, I!At
<1>2. read \in GenValues /\ None \in GenValues /\ caller[c].calm \in BOOLEAN /\ genLock = c
  BY <1>1 DEF GenTyped, GenValues, GenCallerRec
<1>3. GenCurrent => GenNow(read)  BY <1>1 DEF GenCurrent
<1>4. cache'.value = read /\ cache'.at = genNow  BY <1>1
<1>5. /\ caller' \in [Callers -> GenCallerRec]
      /\ caller'[c].pc = "sent" /\ caller'[c].sent = read /\ caller'[c].calm = caller[c].calm
      /\ \A d \in Callers : d # c => caller'[d] = caller[d]
  <2>. DEFINE o == [pc |-> "sent", read |-> None, sent |-> read, calm |-> caller[c].calm]
  <2>1. /\ o \in GenCallerRec
        /\ o.pc = "sent" /\ o.sent = read /\ o.calm = caller[c].calm
    BY <1>2 DEF GenCallerRec
  <2>2. caller' = [caller EXCEPT ![c] = o]
    BY <1>1
  <2>. HIDE DEF o
  <2>. QED BY <1>0, <2>1, <2>2 DEF GenTyped
<1>6. genNow \in Int /\ cache' \in [value : GenValues, at : Int]  BY <1>1, <1>2 DEF GenTyped
<1> HIDE DEF read
<1>7. GenTyped'  BY <1>1, <1>2, <1>4, <1>5, <1>6 DEF GenTyped, I!GenerationAssumption
<1>8. GenCurrent => GenCurrent'  BY <1>1, <1>3, <1>4, <1>5 DEF GenCurrent, GenNow
<1>9. GenFresh'  BY <1>1, <1>3, <1>5, <1>8 DEF GenFresh, GenNow
<1> QED  BY <1>7, <1>9

\* The index changes: nothing is settled, and no request is calm.
LEMMA GenBecomesKeeps ==
  ASSUME I!GenerationAssumption, GenInv, NEW g \in 0..Generations \cup {Unstamped, None},
         I!Becomes(g), next' \in Nat, UNCHANGED <<cache, genLock, genNow>>
  PROVE  GenInv'
<1> USE DEF GenInv
<1>1. /\ index' = g /\ settled' = FALSE
      /\ caller' = [c \in Callers |-> [caller[c] EXCEPT !.calm = FALSE]]
  BY DEF I!Becomes
<1>2. ASSUME NEW c \in Callers
      PROVE  /\ caller'[c] \in GenCallerRec /\ caller'[c].pc = caller[c].pc
             /\ caller'[c].calm = FALSE
  <2>1. caller[c] \in GenCallerRec  BY DEF GenTyped
  <2>2. caller'[c] = [caller[c] EXCEPT !.calm = FALSE]  BY <1>1
  <2> QED  BY <2>1, <2>2 DEF GenCallerRec
<1>3. caller' \in [Callers -> GenCallerRec]  BY <1>1, <1>2
<1>4. GenTyped'  BY <1>1, <1>2, <1>3 DEF GenTyped
<1>5. GenFresh'  BY <1>1, <1>2 DEF GenFresh
<1> QED  BY <1>4, <1>5

LEMMA GenNewKeeps ==
  ASSUME I!GenerationAssumption, GenInv, I!New, UNCHANGED <<cache, genLock, genNow>>
  PROVE  GenInv'
<1>1. next < Generations /\ next' = next + 1 /\ I!Becomes(next)  BY DEF I!New
<1>2. next \in 0..Generations \cup {Unstamped, None} /\ next' \in Nat
  BY <1>1 DEF GenInv, GenTyped, I!GenerationAssumption
<1> QED  BY <1>1, <1>2, GenBecomesKeeps

\* A step that touches nothing of this.
LEMMA GenSameKeeps ==
  ASSUME GenInv, I!Same, UNCHANGED <<cache, genLock, genNow>>
  PROVE  GenInv'
<1>1. UNCHANGED <<index, next, settled, caller, cache, genLock, genNow>>  BY DEF I!Same
<1>2. GenTyped'  BY <1>1 DEF GenInv, GenTyped
<1>3. GenCurrent' <=> GenCurrent  BY <1>1 DEF GenCurrent, GenNow
<1>4. GenFresh'  BY <1>1, <1>3 DEF GenInv, GenFresh, GenNow
<1> QED  BY <1>2, <1>4 DEF GenInv

\* Forgetting: nobody reads, and the cache is empty, so both are of the index as it is.
LEMMA GenForgetKeeps ==
  ASSUME I!GenerationAssumption, GenInv, I!Forget, settled' \in BOOLEAN,
         UNCHANGED <<index, next, genLock, caller, genNow>>
  PROVE  GenInv'
<1> USE DEF GenInv
<1>1. genLock = None /\ cache' = I!Forgotten  BY DEF I!Forget
<1>2. /\ I!Forgotten \in [value : GenValues, at : Int] /\ I!Forgotten.at < 0
      /\ I!Forgotten.value = None
  BY DEF GenValues, I!Forgotten, I!Long, I!GenerationAssumption
<1>3. GenTyped'  BY <1>1, <1>2 DEF GenTyped
<1>4. \A c \in Callers : caller[c].pc # "keep"  BY <1>1 DEF GenTyped, I!GenerationAssumption
<1>5. GenCurrent'  BY <1>1, <1>2, <1>4 DEF GenCurrent, GenNow
<1>6. GenFresh'  BY <1>5 DEF GenFresh, GenNow
<1> QED  BY <1>3, <1>6

LEMMA GenAdminKeeps ==
  ASSUME I!GenerationAssumption, GenInv, NEW a \in Recreates,
         I!Ask(a, "drop") \/ I!Ask(a, "recreate") \/ I!Drop(a) \/ I!Delete(a) \/ I!Create(a)
           \/ I!AdminForgets(a)
  PROVE  GenInv'
<1>1. CASE I!Ask(a, "drop") \/ I!Ask(a, "recreate")
  <2>1. I!Same /\ UNCHANGED <<cache, genLock, genNow>>  BY <1>1 DEF I!Ask
  <2> QED  BY <2>1, GenSameKeeps
<1>2. CASE I!Drop(a) \/ I!Delete(a)
  <2>1. /\ UNCHANGED <<cache, genLock, genNow>>
        /\ I!Same \/ (I!Becomes(None) /\ next' = next)
    BY <1>2 DEF I!Drop, I!Delete
  <2>2. next \in Nat  BY DEF GenInv, GenTyped
  <2> QED  BY <2>1, <2>2, GenSameKeeps, GenBecomesKeeps
<1>3. CASE I!Create(a)
  <2>1. (I!Same \/ I!New) /\ UNCHANGED <<cache, genLock, genNow>>  BY <1>3 DEF I!Create
  <2> QED  BY <2>1, GenSameKeeps, GenNewKeeps
<1>4. CASE I!AdminForgets(a)
  <2>1. I!Forget /\ settled' \in BOOLEAN /\ UNCHANGED <<index, next, genLock, caller, genNow>>
    BY <1>4 DEF I!AdminForgets, I!ForgetBy
  <2> QED  BY <2>1, GenForgetKeeps
<1> QED  BY <1>1, <1>2, <1>3, <1>4

LEMMA GenIngestKeeps ==
  ASSUME I!GenerationAssumption, GenInv, NEW g \in Ingests,
         I!Exists(g) \/ I!EnsureCreates(g) \/ I!EnsureForgets(g) \/ I!BulkWrites(g)
  PROVE  GenInv'
<1>1. CASE I!Exists(g) \/ I!EnsureCreates(g)
  <2>1. (I!Same \/ I!New) /\ UNCHANGED <<cache, genLock, genNow>>
    BY <1>1 DEF I!Exists, I!EnsureCreates
  <2> QED  BY <2>1, GenSameKeeps, GenNewKeeps
<1>2. CASE I!EnsureForgets(g)
  <2>1. I!Forget /\ settled' \in BOOLEAN /\ UNCHANGED <<index, next, genLock, caller, genNow>>
    BY <1>2 DEF I!EnsureForgets, I!ForgetBy
  <2> QED  BY <2>1, GenForgetKeeps
<1>3. CASE I!BulkWrites(g)
  <2>1. /\ UNCHANGED <<cache, genLock, genNow>>
        /\ I!Same \/ (I!Becomes(Unstamped) /\ next' = next)
    BY <1>3 DEF I!BulkWrites
  <2>2. next \in Nat  BY DEF GenInv, GenTyped
  <2> QED  BY <2>1, <2>2, GenSameKeeps, GenBecomesKeeps
<1> QED  BY <1>1, <1>2, <1>3

LEMMA GenNextKeeps == ASSUME I!GenerationAssumption, GenInv, [I!Next]_genVars PROVE GenInv'
<1>1. CASE UNCHANGED genVars
  <2>1. I!Same /\ UNCHANGED <<cache, genLock, genNow>>  BY <1>1 DEF genVars, I!Same
  <2> QED  BY <2>1, GenSameKeeps
<1>2. ASSUME NEW c \in Callers, I!Call(c) \/ I!Look(c) \/ I!Read(c) \/ I!Keep(c) PROVE GenInv'
  BY <1>2, GenCallKeeps, GenLookKeeps, GenReadKeeps, GenKeepKeeps
<1>3. CASE I!Elsewhere
  <2>1. I!New /\ UNCHANGED <<cache, genLock, genNow>>  BY <1>3 DEF I!Elsewhere
  <2> QED  BY <2>1, GenNewKeeps
<1>4. CASE I!Refused
  <2>1. I!Forget /\ UNCHANGED <<index, next, genLock, caller, genNow, settled>>
    BY <1>4 DEF I!Refused
  <2>2. settled' \in BOOLEAN  BY <2>1 DEF GenInv, GenTyped
  <2> QED  BY <2>1, <2>2, GenForgetKeeps
<1>5. CASE I!Tick
  <2>1. genNow' = genNow + 1 /\ UNCHANGED <<index, next, cache, genLock, caller, settled>>
    BY <1>5 DEF I!Tick
  <2>2. GenTyped'  BY <2>1 DEF GenInv, GenTyped
  <2>3. GenCurrent' <=> GenCurrent  BY <2>1 DEF GenCurrent, GenNow
  <2>4. GenFresh'  BY <2>1, <2>3 DEF GenInv, GenFresh, GenNow
  <2> QED  BY <2>2, <2>4 DEF GenInv
<1> QED  BY <1>1, <1>2, <1>3, <1>4, <1>5, GenAdminKeeps, GenIngestKeeps DEF I!Next

LEMMA GenInductive == ASSUME I!GenerationAssumption PROVE I!Spec => []GenInv
<1>1. I!Init => GenInv  BY GenInitHolds
<1>2. GenInv /\ [I!Next]_(I!gvars) => GenInv'  BY GenNextKeeps DEF I!gvars, genVars
<1> QED  BY <1>1, <1>2, PTL DEF I!Spec

\* Type correctness; whoever reads the mapping or puts a value into the cache has the lock.
THEOREM GenerationTyped == ASSUME I!GenerationAssumption PROVE I!Spec => []I!TypeOK
<1>1. GenInv => I!TypeOK  BY DEF GenInv, GenTyped, I!TypeOK, GenValues
<1> QED  BY <1>1, GenInductive, PTL

\* Once a route or an ingest that changed the index is through, no request that starts before
\* the next change carries an old generation, whatever readers were under way.
THEOREM NewGenerationSent == ASSUME I!GenerationAssumption PROVE I!Spec => []I!NewOneSent
<1>1. GenInv => I!NewOneSent  BY DEF GenInv, GenFresh, GenNow, I!NewOneSent
<1> QED  BY <1>1, GenInductive, PTL

-----------------------------------------------------------------------------
(* The facets registry: the operation that has the lock read what is still in    *)
(* the two files, or what stands for a file that could not be read, and what it  *)
(* is about to write is what the requests make of them one after the other; a    *)
(* sync, which has no lock, read what no removal has touched since; or else the  *)
(* histories know it.                                                            *)

FacetsLists == [facetable : SUBSET Keys, excluded : SUBSET Keys]
FacetsWaiting == {"idle", "lock"}
FacetsListed == {"load", "save", "write", "deny"}
FacetsTwice == {"saveDeny", "writeDeny", "over"}

\* What an operation has read, at each point.
FacetsSeenAt(pc) ==
  CASE pc \in {"idle", "lock", "excluded", "load"} -> {{}}
    [] pc \in {"save", "deny", "over"} -> SUBSET Keys
    [] pc = "write" -> [all : SUBSET Keys, kept : SUBSET Keys]
    [] pc = "saveDeny" -> [all : SUBSET Keys, deny : SUBSET Keys]
    [] pc = "writeDeny" -> [all : SUBSET Keys, deny : SUBSET Keys, kept : SUBSET Keys]

FacetsOpTyped(a, o) ==
  /\ o = [pc |-> o.pc, kind |-> o.kind, keys |-> o.keys, seen |-> o.seen, late |-> o.late]
  /\ o.pc \in FacetsWaiting \cup {"excluded"} \cup FacetsListed \cup FacetsTwice
  /\ o.keys \subseteq Keys /\ o.late \in BOOLEAN /\ o.seen \in FacetsSeenAt(o.pc)
  /\ a \in Admins =>
       /\ o.pc # "excluded" /\ (o.pc # "idle" => o.kind \in {"set", "add", "remove"})
       /\ o.kind = "set" => o.pc \notin FacetsTwice
  /\ a \in Syncs /\ o.pc \in FacetsListed \cup FacetsTwice => o.kind = "add"

FacetsTyped ==
  /\ facetsFile \in FacetsLists \cup {None} /\ serial \in FacetsLists /\ removed \subseteq Keys
  /\ alone \in BOOLEAN /\ overtaken \in BOOLEAN /\ (alone => ~overtaken)
  /\ DOMAIN op = F!Actors /\ \A a \in F!Actors : FacetsOpTyped(a, op[a])
  /\ facetsLock \in Admins \cup {None}
  /\ \A a \in Admins : op[a].pc \notin FacetsWaiting <=> facetsLock = a

FacetsBefore(o) == IF o.pc \in {"write", "saveDeny", "writeDeny"} THEN o.seen.all ELSE o.seen
FacetsDenied(o, f) == IF o.kind = "add" THEN f.excluded \ o.keys
  ELSE f.excluded \cup (o.seen.all \cap o.keys)

\* What the holder of the lock has read is what the file holds.
FacetsHolderReads(o, f, gone) ==
  /\ o.pc \in {"save", "write"} /\ o.kind # "set" => FacetsBefore(o) = f.facetable
  /\ o.pc = "write" => o.seen.kept = f.excluded
  /\ o.pc \in {"deny"} \cup FacetsTwice => IF o.kind = "remove" THEN f.facetable \cap o.keys = {}
                                     ELSE gone \cap o.keys = {}
  /\ o.pc \in {"saveDeny", "writeDeny"} => o.seen.deny = FacetsDenied(o, f)
  /\ o.pc = "writeDeny" => o.seen.kept = f.facetable
  /\ o.pc = "over" /\ o.kind = "remove" => o.seen \cap o.keys \subseteq f.excluded

\* And what it made of the file is what it would have, all at once.
FacetsHolderMakes(o, f, s) ==
  /\ o.pc \in {"load", "save", "write"} => f = s
  /\ o.pc \in {"deny", "saveDeny", "writeDeny"} =>
       /\ f.facetable = F!Serially(o.kind, o.keys, s).facetable /\ f.excluded = s.excluded
       /\ o.kind # "set" => FacetsBefore(o) = s.facetable
  /\ o.pc = "over" => f = F!Serially(o.kind, o.keys, s)

\* A sync that no request met: it has read no removed key, and leaves the deny list alone.
FacetsSyncReadsOK(o, f, gone) ==
  /\ o.pc \notin FacetsTwice
  /\ o.pc \in FacetsListed => o.keys \cap f.excluded = {}
  /\ o.pc \in {"save", "write"} => FacetsBefore(o) \cap gone = {}
  /\ o.pc = "write" => o.seen.kept = f.excluded

FacetsUndisturbed ==
  /\ removed \cap F!Loaded(facetsFile).facetable = {}
  /\ removed \subseteq F!Loaded(facetsFile).excluded
  /\ facetsLock # None => FacetsHolderReads(op[facetsLock], F!Loaded(facetsFile), removed)
  /\ facetsLock = None => \A a \in Syncs : op[a].pc \notin FacetsWaiting /\ ~op[a].late =>
       FacetsSyncReadsOK(op[a], F!Loaded(facetsFile), removed)

FacetsInTurn == IF facetsLock = None THEN F!Loaded(facetsFile) = serial
  ELSE FacetsHolderMakes(op[facetsLock], F!Loaded(facetsFile), serial)

FacetsInv == FacetsTyped /\ (~overtaken => FacetsUndisturbed) /\ (alone => FacetsInTurn)

LEMMA FacetsRegistryIsListed ==
  ASSUME F!FacetsAssumption, FacetsTyped
  PROVE  /\ F!Loaded(facetsFile) \in FacetsLists /\ serial \in FacetsLists
         /\ F!Loaded(facetsFile).facetable \in SUBSET Keys
         /\ F!Loaded(facetsFile).excluded \in SUBSET Keys
         /\ serial.facetable \in SUBSET Keys /\ serial.excluded \in SUBSET Keys
  BY DEF F!FacetsAssumption, FacetsTyped, F!Loaded, FacetsLists

LEMMA FacetsRegistryWritten ==
  ASSUME F!FacetsAssumption, NEW f \in FacetsLists
  PROVE  F!Loaded(f) = f
<1>1. PICK U \in SUBSET Keys, R \in SUBSET Keys : f = [facetable |-> U, excluded |-> R]
  BY DEF FacetsLists
<1>. QED BY <1>1 DEF F!FacetsAssumption, F!Loaded

LEMMA FacetsOneAtATime ==
  ASSUME F!FacetsAssumption, FacetsTyped, NEW a \in F!Actors, op[a].pc \notin FacetsWaiting
  PROVE  a \in Admins => facetsLock = a /\ facetsLock # None
  BY DEF FacetsTyped, F!FacetsAssumption

\* An operation moves; it may write the file.
LEMMA FacetsMoves ==
  ASSUME F!FacetsAssumption, FacetsTyped, NEW a \in F!Actors, NEW o, FacetsOpTyped(a, o),
         op' = [op EXCEPT ![a] = o], a \in Admins => (o.pc \notin FacetsWaiting <=> facetsLock = a),
         facetsFile' \in FacetsLists \cup {None}, removed' \subseteq Keys,
         alone' \in BOOLEAN, overtaken' \in BOOLEAN, alone' => ~overtaken',
         UNCHANGED <<facetsLock, serial>>,
         ~overtaken' =>
           /\ removed' \cap F!Loaded(facetsFile').facetable = {}
           /\ removed' \subseteq F!Loaded(facetsFile').excluded
           /\ facetsLock # None => FacetsHolderReads(IF facetsLock = a THEN o
                ELSE op[facetsLock], F!Loaded(facetsFile'), removed')
           /\ facetsLock = None =>
                /\ a \in Syncs /\ o.pc \notin FacetsWaiting /\ ~o.late
                     => FacetsSyncReadsOK(o, F!Loaded(facetsFile'), removed')
                /\ \A s \in Syncs \ {a} : op[s].pc \notin FacetsWaiting /\ ~op[s].late
                     => FacetsSyncReadsOK(op[s], F!Loaded(facetsFile'), removed'),
         alone' => IF facetsLock = None THEN F!Loaded(facetsFile') = serial
                   ELSE FacetsHolderMakes(IF facetsLock = a THEN o
                     ELSE op[facetsLock], F!Loaded(facetsFile'), serial)
  PROVE  FacetsInv'
<1>1. op'[a] = o /\ DOMAIN op' = F!Actors /\ \A b \in F!Actors \ {a} : op'[b] = op[b]
  BY DEF FacetsTyped
<1>2. FacetsTyped'
  <2>1. \A b \in F!Actors : FacetsOpTyped(b, op'[b])
    BY <1>1 DEF FacetsTyped
  <2>2. \A b \in F!Actors : FacetsOpTyped(b, op[b])'
    BY <2>1 DEF FacetsOpTyped, FacetsSeenAt
  <2>3. \A b \in Admins : op'[b].pc \notin FacetsWaiting <=> facetsLock = b
    BY <1>1 DEF FacetsTyped, F!Actors
  <2>. QED BY <1>1, <2>2, <2>3 DEF FacetsTyped, FacetsWaiting
<1>3. facetsLock \in F!Actors \cup {None}
  BY DEF FacetsTyped, F!Actors
<1>4. (~overtaken => FacetsUndisturbed)'
  <2>. SUFFICES ASSUME ~overtaken' PROVE FacetsUndisturbed'
    OBVIOUS
  <2>1. ASSUME facetsLock # None
        PROVE FacetsHolderReads(op'[facetsLock], F!Loaded(facetsFile'), removed')
    BY <1>1, <1>3, <2>1
  <2>2. ASSUME facetsLock = None, NEW s \in Syncs, op'[s].pc \notin FacetsWaiting, ~op'[s].late
        PROVE  FacetsSyncReadsOK(op'[s], F!Loaded(facetsFile'), removed')
    <3>1. s \in F!Actors
      BY DEF F!Actors
    <3>. QED BY <1>1, <2>2, <3>1
  <2>3. facetsLock # None => FacetsHolderReads(op[facetsLock], F!Loaded(facetsFile), removed)'
    BY <2>1 DEF FacetsHolderReads, FacetsBefore, FacetsDenied, F!Loaded
  <2>4. \A s \in Syncs : facetsLock = None /\ op'[s].pc \notin FacetsWaiting /\ ~op'[s].late
          => FacetsSyncReadsOK(op[s], F!Loaded(facetsFile), removed)'
    BY <2>2 DEF FacetsSyncReadsOK, FacetsBefore, F!Loaded
  <2>. QED BY <2>3, <2>4 DEF FacetsUndisturbed, F!Loaded, FacetsWaiting
<1>5. (alone => FacetsInTurn)'
  <2>. SUFFICES ASSUME alone' PROVE FacetsInTurn'
    OBVIOUS
  <2>1. ASSUME facetsLock # None
        PROVE FacetsHolderMakes(op'[facetsLock], F!Loaded(facetsFile'), serial)
    BY <1>1, <1>3, <2>1
  <2>2. facetsLock # None => FacetsHolderMakes(op[facetsLock], F!Loaded(facetsFile), serial)'
    BY <2>1 DEF FacetsHolderMakes, FacetsBefore, F!Loaded, F!Serially
  <2>. QED BY <2>2 DEF FacetsInTurn, F!Loaded
<1>. QED BY <1>2, <1>4, <1>5 DEF FacetsInv

\* An operation moves and writes nothing.
LEMMA FacetsMovesReading ==
  ASSUME F!FacetsAssumption, FacetsInv, NEW a \in F!Actors, NEW o, FacetsOpTyped(a, o),
         op' = [op EXCEPT ![a] = o], a \in Admins => (o.pc \notin FacetsWaiting <=> facetsLock = a),
         UNCHANGED <<facetsFile, facetsLock, removed, serial, alone, overtaken>>,
         ~overtaken /\ facetsLock = a /\ facetsLock # None =>
           FacetsHolderReads(o, F!Loaded(facetsFile), removed),
         ~overtaken /\ facetsLock = None /\ a \in Syncs /\ o.pc \notin FacetsWaiting /\ ~o.late
           => FacetsSyncReadsOK(o, F!Loaded(facetsFile), removed),
         alone /\ facetsLock = a /\ facetsLock # None =>
           FacetsHolderMakes(o, F!Loaded(facetsFile), serial)
  PROVE  FacetsInv'
<1>1. FacetsTyped /\ (~overtaken => FacetsUndisturbed) /\ (alone => FacetsInTurn)
  BY DEF FacetsInv
<1>2. F!Loaded(facetsFile') = F!Loaded(facetsFile)
  BY DEF F!Loaded
<1>3. facetsFile' \in FacetsLists \cup {None} /\ removed' \subseteq Keys /\ alone' \in BOOLEAN
      /\ overtaken' \in BOOLEAN /\ (alone' => ~overtaken')
  BY <1>1 DEF FacetsTyped
<1>4. ~overtaken' =>
        /\ removed' \cap F!Loaded(facetsFile').facetable = {}
        /\ removed' \subseteq F!Loaded(facetsFile').excluded
        /\ facetsLock # None => FacetsHolderReads(IF facetsLock = a THEN o
             ELSE op[facetsLock], F!Loaded(facetsFile'), removed')
        /\ facetsLock = None =>
             /\ a \in Syncs /\ o.pc \notin FacetsWaiting /\ ~o.late
                  => FacetsSyncReadsOK(o, F!Loaded(facetsFile'), removed')
             /\ \A s \in Syncs \ {a} : op[s].pc \notin FacetsWaiting /\ ~op[s].late
                  => FacetsSyncReadsOK(op[s], F!Loaded(facetsFile'), removed')
  BY <1>1, <1>2 DEF FacetsUndisturbed
<1>5. alone' => IF facetsLock = None THEN F!Loaded(facetsFile') = serial
                ELSE FacetsHolderMakes(IF facetsLock = a THEN o
                  ELSE op[facetsLock], F!Loaded(facetsFile'), serial)
  BY <1>1, <1>2 DEF FacetsInTurn
<1>. QED BY <1>1, <1>3, <1>4, <1>5, FacetsMoves

\* The record an operation becomes.
LEMMA FacetsOpFields ==
  ASSUME FacetsTyped, NEW a \in F!Actors, NEW pc, NEW kind, NEW keys, NEW seen,
         F!Does(a, pc, kind, keys, seen)
  PROVE  \E o : /\ op' = [op EXCEPT ![a] = o] /\ o.pc = pc /\ o.kind = kind /\ o.keys = keys
                /\ o.seen = seen /\ o.late = op[a].late /\ op[a].late \in BOOLEAN
                /\ o = [pc |-> o.pc, kind |-> o.kind, keys |-> o.keys, seen |-> o.seen,
                     late |-> o.late]
<1>. DEFINE o == [pc |-> pc, kind |-> kind, keys |-> keys, seen |-> seen, late |-> op[a].late]
<1>1. op[a].late \in BOOLEAN
  BY DEF FacetsTyped, FacetsOpTyped
<1>2. op' = [op EXCEPT ![a] = o]
  BY DEF F!Does
<1>3. /\ o.pc = pc /\ o.kind = kind /\ o.keys = keys /\ o.seen = seen /\ o.late = op[a].late
      /\ o = [pc |-> o.pc, kind |-> o.kind, keys |-> o.keys, seen |-> o.seen, late |-> o.late]
  OBVIOUS
<1>. QED BY <1>1, <1>2, <1>3

LEMMA FacetsRequestKeeps ==
  ASSUME F!FacetsAssumption, FacetsInv, NEW a \in F!Actors, NEW kind, NEW keys \in SUBSET Keys,
         a \in Admins => kind \in {"set", "add", "remove"}, F!Request(a, kind, keys)
  PROVE  FacetsInv'
<1>1. FacetsTyped
  BY DEF FacetsInv
<1>2. PICK o : /\ op' = [op EXCEPT ![a] = o] /\ o.pc = "lock" /\ o.kind = kind /\ o.keys = keys
               /\ o.seen = {} /\ o.late = op[a].late /\ op[a].late \in BOOLEAN
               /\ o = [pc |-> o.pc, kind |-> o.kind, keys |-> o.keys, seen |-> o.seen,
                    late |-> o.late]
  BY <1>1, FacetsOpFields DEF F!Request
<1>3. FacetsOpTyped(a, o)
  BY <1>2 DEF FacetsOpTyped, FacetsSeenAt, FacetsWaiting, FacetsListed, FacetsTwice
<1>4. a \in Admins => (o.pc \notin FacetsWaiting <=> facetsLock = a)
  BY <1>1, <1>2 DEF FacetsTyped, FacetsWaiting, F!Request
<1>5. o.pc \in FacetsWaiting /\ (a \in Admins \/ (facetsLock # a /\ a \in Syncs))
  BY <1>1, <1>2, FacetsOneAtATime DEF FacetsWaiting, F!Actors, FacetsTyped, F!FacetsAssumption
<1>6. facetsLock = a => facetsLock = None
  BY <1>1, <1>4, <1>5 DEF FacetsTyped, F!FacetsAssumption
<1>. QED BY <1>2, <1>3, <1>4, <1>5, <1>6, FacetsMovesReading DEF F!Request

LEMMA FacetsAcquireKeeps ==
  ASSUME F!FacetsAssumption, FacetsInv, NEW a \in F!Actors, F!Acquire(a)
  PROVE  FacetsInv'
<1>1. FacetsTyped /\ (~overtaken => FacetsUndisturbed) /\ (alone => FacetsInTurn)
        /\ facetsLock = None /\ a \in Admins
      /\ facetsLock' = a /\ a # None /\ op[a].pc = "lock" /\ a \notin Syncs
  BY DEF FacetsInv, F!Acquire, F!FacetsAssumption
<1>2. PICK o : /\ op' = [op EXCEPT ![a] = o]
                    /\ o.pc = (IF op[a].kind = "set" THEN "save" ELSE "load")
               /\ o.kind = op[a].kind /\ o.keys = op[a].keys
               /\ o.seen = {} /\ o.late = op[a].late /\ op[a].late \in BOOLEAN
               /\ o = [pc |-> o.pc, kind |-> o.kind, keys |-> o.keys, seen |-> o.seen,
                    late |-> o.late]
  BY <1>1, FacetsOpFields DEF F!Acquire, F!Goes
<1>3. FacetsOpTyped(a, o)
  BY <1>1, <1>2 DEF FacetsTyped, FacetsOpTyped, FacetsSeenAt, FacetsWaiting, FacetsListed,
     FacetsTwice
<1>4. op'[a] = o /\ DOMAIN op' = F!Actors /\ \A b \in F!Actors \ {a} : op'[b] = op[b]
  BY <1>1, <1>2 DEF FacetsTyped
<1>5. FacetsTyped'
  <2>1. \A b \in F!Actors : FacetsOpTyped(b, op'[b])
    BY <1>1, <1>3, <1>4 DEF FacetsTyped
  <2>2. \A b \in F!Actors : FacetsOpTyped(b, op[b])'
    BY <2>1 DEF FacetsOpTyped, FacetsSeenAt
  <2>3. \A b \in Admins : op'[b].pc \notin FacetsWaiting <=> facetsLock' = b
    BY <1>1, <1>2, <1>4 DEF FacetsTyped, F!Actors, FacetsWaiting, F!FacetsAssumption
  <2>. QED BY <1>1, <1>4, <2>2, <2>3 DEF FacetsTyped, FacetsWaiting, F!Acquire
<1>6. F!Loaded(facetsFile') = F!Loaded(facetsFile)
  BY DEF F!Loaded, F!Acquire
<1>7. (~overtaken => FacetsUndisturbed)'
  <2>. SUFFICES ASSUME ~overtaken' PROVE FacetsUndisturbed'
    OBVIOUS
  <2>1. removed \cap F!Loaded(facetsFile).facetable = {}
        /\ removed \subseteq F!Loaded(facetsFile).excluded
    BY <1>1 DEF FacetsUndisturbed, F!Acquire
  <2>2. FacetsHolderReads(op'[a], F!Loaded(facetsFile'), removed')
    BY <1>2, <1>4 DEF FacetsHolderReads, FacetsTwice
  <2>3. FacetsHolderReads(op[facetsLock], F!Loaded(facetsFile), removed)'
    BY <1>1, <2>2 DEF FacetsHolderReads, FacetsBefore, FacetsDenied, F!Loaded
  <2>. QED BY <1>1, <1>6, <2>1, <2>3 DEF FacetsUndisturbed, F!Loaded, F!Acquire
<1>8. (alone => FacetsInTurn)'
  <2>. SUFFICES ASSUME alone' PROVE FacetsInTurn'
    OBVIOUS
  <2>1. F!Loaded(facetsFile) = serial
    BY <1>1 DEF FacetsInTurn, F!Acquire
  <2>2. FacetsHolderMakes(op'[a], F!Loaded(facetsFile'), serial')
    BY <1>2, <1>4, <1>6, <2>1 DEF FacetsHolderMakes, F!Acquire
  <2>3. FacetsHolderMakes(op[facetsLock], F!Loaded(facetsFile), serial)'
    BY <1>1, <2>2 DEF FacetsHolderMakes, FacetsBefore, F!Loaded, F!Serially
  <2>. QED BY <1>1, <2>3 DEF FacetsInTurn, F!Loaded
<1>. QED BY <1>5, <1>7, <1>8 DEF FacetsInv

LEMMA FacetsSyncReadsKeeps ==
  ASSUME F!FacetsAssumption, FacetsInv, NEW a \in F!Actors,
         F!SyncReads(a, F!Loaded(facetsFile))
  PROVE  FacetsInv'
<1>1. FacetsTyped /\ a \in Syncs /\ a \notin Admins /\ facetsLock # a
  BY DEF FacetsInv, F!SyncReads, F!FacetsAssumption, FacetsTyped, F!Actors
<1>2. PICK o : /\ op' = [op EXCEPT ![a] = o] /\ o.pc = "excluded" /\ o.kind = "sync"
               /\ o.keys = op[a].keys \ (F!Loaded(facetsFile).facetable \cup Fixed)
               /\ o.seen = {} /\ o.late = op[a].late /\ op[a].late \in BOOLEAN
               /\ o = [pc |-> o.pc, kind |-> o.kind, keys |-> o.keys, seen |-> o.seen,
                    late |-> o.late]
  BY <1>1, FacetsOpFields DEF F!SyncReads
<1>3. FacetsOpTyped(a, o)
  BY <1>1, <1>2 DEF FacetsTyped, FacetsOpTyped, FacetsSeenAt, FacetsWaiting, FacetsListed,
     FacetsTwice
<1>4. FacetsSyncReadsOK(o, F!Loaded(facetsFile), removed)
  BY <1>2 DEF FacetsSyncReadsOK, FacetsListed, FacetsTwice
<1>. QED BY <1>1, <1>2, <1>3, <1>4, FacetsMovesReading DEF F!SyncReads, F!Reads

LEMMA FacetsSyncChecksKeeps ==
  ASSUME F!FacetsAssumption, FacetsInv, NEW a \in F!Actors,
         F!SyncChecks(a, F!Loaded(facetsFile))
  PROVE  FacetsInv'
<1>1. FacetsTyped /\ a \in Syncs /\ a \notin Admins /\ facetsLock # a
  BY DEF FacetsInv, F!SyncChecks, F!FacetsAssumption, FacetsTyped, F!Actors, FacetsOpTyped
<1>2. CASE op' = [op EXCEPT ![a] = F!Idle]
  <2>1. FacetsOpTyped(a, F!Idle) /\ F!Idle.pc \in FacetsWaiting
    BY <1>1 DEF F!Idle, FacetsOpTyped, FacetsSeenAt, FacetsWaiting, FacetsListed, FacetsTwice
  <2>. QED BY <1>1, <1>2, <2>1, FacetsMovesReading DEF F!SyncChecks, F!Reads
<1>3. CASE F!Does(a, "load", "add", op[a].keys \ F!Loaded(facetsFile).excluded, {})
  <2>2. PICK o : /\ op' = [op EXCEPT ![a] = o] /\ o.pc = "load" /\ o.kind = "add"
                 /\ o.keys = op[a].keys \ F!Loaded(facetsFile).excluded
                 /\ o.seen = {} /\ o.late = op[a].late /\ op[a].late \in BOOLEAN
                 /\ o = [pc |-> o.pc, kind |-> o.kind, keys |-> o.keys, seen |-> o.seen,
                      late |-> o.late]
    BY <1>1, <1>3, FacetsOpFields
  <2>3. FacetsOpTyped(a, o)
    BY <1>1, <2>2 DEF FacetsTyped, FacetsOpTyped, FacetsSeenAt, FacetsWaiting, FacetsListed,
       FacetsTwice
  <2>4. FacetsSyncReadsOK(o, F!Loaded(facetsFile), removed)
    BY <2>2 DEF FacetsSyncReadsOK, FacetsListed, FacetsTwice
  <2>. QED BY <1>1, <2>2, <2>3, <2>4, FacetsMovesReading DEF F!SyncChecks, F!Reads
<1>. QED BY <1>2, <1>3 DEF F!SyncChecks

LEMMA FacetsAtWork ==
  ASSUME F!FacetsAssumption, FacetsInv, NEW a \in F!Actors, op[a].pc \notin FacetsWaiting
  PROVE  /\ FacetsTyped /\ FacetsOpTyped(a, op[a]) /\ a # None /\ (facetsLock = a <=> a \in Admins)
         /\ a \in Admins => /\ a \notin Syncs /\ facetsLock # None
                            /\ ~overtaken => FacetsHolderReads(op[a], F!Loaded(facetsFile), removed)
                            /\ alone => FacetsHolderMakes(op[a], F!Loaded(facetsFile), serial)
         /\ a \notin Admins => /\ a \in Syncs
                               /\ ~overtaken /\ facetsLock = None /\ ~op[a].late
                                    => FacetsSyncReadsOK(op[a], F!Loaded(facetsFile), removed)
<1>1. FacetsTyped /\ FacetsOpTyped(a, op[a]) /\ a # None /\ (a \in Admins <=> a \notin Syncs)
  BY DEF FacetsInv, FacetsTyped, F!FacetsAssumption, F!Actors
<1>2. facetsLock = a <=> a \in Admins
  BY <1>1 DEF FacetsTyped
<1>. QED BY <1>1, <1>2 DEF FacetsInv, FacetsUndisturbed, FacetsInTurn

LEMMA FacetsLoadKeeps ==
  ASSUME F!FacetsAssumption, FacetsInv, NEW a \in F!Actors,
         F!Load(a, F!Loaded(facetsFile))
  PROVE  FacetsInv'
<1>. DEFINE f == F!Loaded(facetsFile)
<1>0. op[a].pc = "load" /\ op[a].pc \notin FacetsWaiting
  BY DEF F!Load, FacetsWaiting
<1>1. /\ FacetsTyped /\ FacetsOpTyped(a, op[a]) /\ a # None /\ (facetsLock = a <=> a \in Admins)
      /\ a \in Admins => /\ a \notin Syncs /\ facetsLock # None
                         /\ ~overtaken => FacetsHolderReads(op[a], f, removed)
                         /\ alone => FacetsHolderMakes(op[a], f, serial)
      /\ a \notin Admins => /\ a \in Syncs
                            /\ ~overtaken /\ facetsLock = None /\ ~op[a].late
                                 => FacetsSyncReadsOK(op[a], f, removed)
  BY <1>0, FacetsAtWork
<1>2. PICK o : /\ op' = [op EXCEPT ![a] = o] /\ o.pc = "save" /\ o.kind = op[a].kind
               /\ o.keys = op[a].keys
               /\ o.seen = f.facetable /\ o.late = op[a].late /\ op[a].late \in BOOLEAN
               /\ o = [pc |-> o.pc, kind |-> o.kind, keys |-> o.keys, seen |-> o.seen,
                    late |-> o.late]
  BY <1>1, FacetsOpFields DEF F!Load, F!Goes
<1>3. FacetsOpTyped(a, o)
  BY <1>0, <1>1, <1>2, FacetsRegistryIsListed DEF FacetsOpTyped, FacetsSeenAt, FacetsWaiting,
     FacetsListed, FacetsTwice
<1>4. ~overtaken /\ facetsLock = a /\ facetsLock # None => FacetsHolderReads(o, f, removed)
  BY <1>2 DEF FacetsHolderReads, FacetsBefore, FacetsTwice
<1>5. ~overtaken /\ facetsLock = None /\ a \in Syncs /\ o.pc \notin FacetsWaiting /\ ~o.late
        => FacetsSyncReadsOK(o, f, removed)
  <2>1. ~overtaken => removed \cap f.facetable = {}
    BY DEF FacetsInv, FacetsUndisturbed
  <2>. QED
    BY <1>0, <1>1, <1>2, <2>1 DEF FacetsSyncReadsOK, FacetsBefore, FacetsTwice, FacetsListed
<1>6. alone /\ facetsLock = a /\ facetsLock # None => FacetsHolderMakes(o, f, serial)
  BY <1>0, <1>1, <1>2 DEF FacetsHolderMakes
<1>7. a \in Admins => (o.pc \notin FacetsWaiting <=> facetsLock = a)
  BY <1>1, <1>2 DEF FacetsWaiting
<1>. QED BY <1>2, <1>3, <1>4, <1>5, <1>6, <1>7, FacetsMovesReading DEF F!Load, F!Reads

LEMMA FacetsSaveReadsKeeps ==
  ASSUME F!FacetsAssumption, FacetsInv, NEW a \in F!Actors,
         F!SaveReads(a, F!Loaded(facetsFile))
  PROVE  FacetsInv'
<1>. DEFINE f == F!Loaded(facetsFile)
            seen == [all |-> op[a].seen, kept |-> f.excluded]
<1>0. op[a].pc = "save" /\ op[a].pc \notin FacetsWaiting
  BY DEF F!SaveReads, FacetsWaiting
<1>1. /\ FacetsTyped /\ FacetsOpTyped(a, op[a]) /\ a # None /\ (facetsLock = a <=> a \in Admins)
      /\ a \in Admins => /\ a \notin Syncs /\ facetsLock # None
                         /\ ~overtaken => FacetsHolderReads(op[a], f, removed)
                         /\ alone => FacetsHolderMakes(op[a], f, serial)
      /\ a \notin Admins => /\ a \in Syncs
                            /\ ~overtaken /\ facetsLock = None /\ ~op[a].late
                                 => FacetsSyncReadsOK(op[a], f, removed)
  BY <1>0, FacetsAtWork
<1>2. PICK o : /\ op' = [op EXCEPT ![a] = o] /\ o.pc = "write" /\ o.kind = op[a].kind
               /\ o.keys = op[a].keys
               /\ o.seen = seen /\ o.late = op[a].late /\ op[a].late \in BOOLEAN
               /\ o = [pc |-> o.pc, kind |-> o.kind, keys |-> o.keys, seen |-> o.seen,
                    late |-> o.late]
  BY <1>1, FacetsOpFields DEF F!SaveReads, F!Goes
<1>3. op[a].seen \in SUBSET Keys /\ seen \in [all : SUBSET Keys, kept : SUBSET Keys]
  BY <1>0, <1>1, FacetsRegistryIsListed DEF FacetsOpTyped, FacetsSeenAt
<1>4. FacetsOpTyped(a, o)
  BY <1>0, <1>1, <1>2, <1>3 DEF FacetsOpTyped, FacetsSeenAt, FacetsWaiting, FacetsListed,
     FacetsTwice
<1>5. o.seen.all = op[a].seen /\ o.seen.kept = f.excluded
  BY <1>2
<1>6. ~overtaken /\ facetsLock = a /\ facetsLock # None => FacetsHolderReads(o, f, removed)
  BY <1>0, <1>1, <1>2, <1>5 DEF FacetsHolderReads, FacetsBefore, FacetsTwice
<1>7. ~overtaken /\ facetsLock = None /\ a \in Syncs /\ o.pc \notin FacetsWaiting /\ ~o.late
        => FacetsSyncReadsOK(o, f, removed)
  BY <1>0, <1>1, <1>2, <1>5 DEF FacetsSyncReadsOK, FacetsBefore, FacetsTwice, FacetsListed
<1>8. alone /\ facetsLock = a /\ facetsLock # None => FacetsHolderMakes(o, f, serial)
  BY <1>0, <1>1, <1>2 DEF FacetsHolderMakes
<1>9. a \in Admins => (o.pc \notin FacetsWaiting <=> facetsLock = a)
  BY <1>1, <1>2 DEF FacetsWaiting
<1>. QED BY <1>2, <1>4, <1>6, <1>7, <1>8, <1>9, FacetsMovesReading DEF F!SaveReads, F!Reads

LEMMA FacetsDenyReadsKeeps ==
  ASSUME F!FacetsAssumption, FacetsInv, NEW a \in F!Actors,
         F!DenyReads(a, F!Loaded(facetsFile))
  PROVE  FacetsInv'
<1>. DEFINE f == F!Loaded(facetsFile)
            seen == [all |-> op[a].seen.all, deny |-> op[a].seen.deny, kept |-> f.facetable]
<1>0. op[a].pc = "saveDeny" /\ op[a].pc \notin FacetsWaiting
  BY DEF F!DenyReads, FacetsWaiting
<1>1. /\ FacetsTyped /\ FacetsOpTyped(a, op[a]) /\ a # None /\ (facetsLock = a <=> a \in Admins)
      /\ a \in Admins => /\ a \notin Syncs /\ facetsLock # None
                         /\ ~overtaken => FacetsHolderReads(op[a], f, removed)
                         /\ alone => FacetsHolderMakes(op[a], f, serial)
      /\ a \notin Admins => /\ a \in Syncs
                            /\ ~overtaken /\ facetsLock = None /\ ~op[a].late
                                 => FacetsSyncReadsOK(op[a], f, removed)
  BY <1>0, FacetsAtWork
<1>2. PICK o : /\ op' = [op EXCEPT ![a] = o] /\ o.pc = "writeDeny" /\ o.kind = op[a].kind
               /\ o.keys = op[a].keys
               /\ o.seen = seen /\ o.late = op[a].late /\ op[a].late \in BOOLEAN
               /\ o = [pc |-> o.pc, kind |-> o.kind, keys |-> o.keys, seen |-> o.seen,
                    late |-> o.late]
  BY <1>1, FacetsOpFields DEF F!DenyReads, F!Goes
<1>3. seen \in [all : SUBSET Keys, deny : SUBSET Keys, kept : SUBSET Keys]
  BY <1>0, <1>1, FacetsRegistryIsListed DEF FacetsOpTyped, FacetsSeenAt
<1>4. FacetsOpTyped(a, o)
  BY <1>0, <1>1, <1>2, <1>3 DEF FacetsOpTyped, FacetsSeenAt, FacetsWaiting, FacetsListed,
     FacetsTwice
<1>5. o.seen.all = op[a].seen.all /\ o.seen.deny = op[a].seen.deny /\ o.seen.kept = f.facetable
  BY <1>2
<1>6. ~overtaken /\ facetsLock = a /\ facetsLock # None => FacetsHolderReads(o, f, removed)
  BY <1>0, <1>1, <1>2, <1>5 DEF FacetsHolderReads, FacetsBefore, FacetsDenied, FacetsTwice
<1>7. ~overtaken /\ facetsLock = None /\ a \in Syncs /\ o.pc \notin FacetsWaiting /\ ~o.late
        => FacetsSyncReadsOK(o, f, removed)
  BY <1>0, <1>1, <1>2 DEF FacetsSyncReadsOK, FacetsTwice
<1>8. alone /\ facetsLock = a /\ facetsLock # None => FacetsHolderMakes(o, f, serial)
  BY <1>0, <1>1, <1>2, <1>5 DEF FacetsHolderMakes, FacetsBefore
<1>9. a \in Admins => (o.pc \notin FacetsWaiting <=> facetsLock = a)
  BY <1>1, <1>2 DEF FacetsWaiting
<1>. QED BY <1>2, <1>4, <1>6, <1>7, <1>8, <1>9, FacetsMovesReading DEF F!DenyReads, F!Reads

\* The two writes.
LEMMA FacetsSaveWritesKeeps ==
  ASSUME F!FacetsAssumption, FacetsInv, NEW a \in F!Actors, F!SaveWrites(a)
  PROVE  FacetsInv'
<1>. DEFINE f == F!Loaded(facetsFile)
            new == F!NewFacetable(op[a].kind, op[a].keys, op[a].seen.all)
            g == [facetable |-> new, excluded |-> op[a].seen.kept]
<1>0. op[a].pc = "write" /\ op[a].pc \notin FacetsWaiting
  BY DEF F!SaveWrites, FacetsWaiting
<1>1. /\ FacetsTyped /\ FacetsOpTyped(a, op[a]) /\ a # None /\ (facetsLock = a <=> a \in Admins)
      /\ a \in Admins => /\ a \notin Syncs /\ facetsLock # None
                         /\ ~overtaken => FacetsHolderReads(op[a], f, removed)
                         /\ alone => FacetsHolderMakes(op[a], f, serial)
      /\ a \notin Admins => /\ a \in Syncs
                            /\ ~overtaken /\ facetsLock = None /\ ~op[a].late
                                 => FacetsSyncReadsOK(op[a], f, removed)
  BY <1>0, FacetsAtWork
<1>2. PICK o : /\ op' = [op EXCEPT ![a] = o] /\ o.pc = "deny" /\ o.kind = op[a].kind
               /\ o.keys = op[a].keys
               /\ o.seen = op[a].seen.all /\ o.late = op[a].late /\ op[a].late \in BOOLEAN
               /\ o = [pc |-> o.pc, kind |-> o.kind, keys |-> o.keys, seen |-> o.seen,
                    late |-> o.late]
  BY <1>1, FacetsOpFields DEF F!SaveWrites, F!Goes
<1>3. op[a].seen.all \in SUBSET Keys /\ op[a].seen.kept \in SUBSET Keys
      /\ op[a].keys \in SUBSET Keys
      /\ op[a].kind \in {"set", "add", "remove"} /\ (a \in Syncs => op[a].kind = "add")
  BY <1>0, <1>1, FacetsAtWork DEF FacetsOpTyped, FacetsSeenAt, FacetsWaiting, FacetsListed,
     FacetsTwice
<1>4. new \in SUBSET Keys
  BY <1>3 DEF F!NewFacetable
<1>5. g \in FacetsLists /\ facetsFile' = g /\ F!Loaded(facetsFile') = g
  <2>. HIDE DEF new
  <2>1. g \in FacetsLists
    BY <1>3, <1>4 DEF FacetsLists
  <2>2. facetsFile' = g
    BY DEF F!SaveWrites, new
  <2>. QED BY <2>1, <2>2, FacetsRegistryWritten
<1>6. FacetsOpTyped(a, o)
  BY <1>0, <1>1, <1>2, <1>3 DEF FacetsOpTyped, FacetsSeenAt, FacetsWaiting, FacetsListed,
     FacetsTwice
<1>7. a \in Admins => (o.pc \notin FacetsWaiting <=> facetsLock = a)
  BY <1>1, <1>2 DEF FacetsWaiting
<1>8. removed' \subseteq removed /\ removed' \subseteq Keys
  BY <1>1 DEF F!SaveWrites, FacetsTyped
<1>9. alone' = (alone /\ a \in Admins)
        /\ overtaken' = (overtaken \/ (a \in Syncs /\ (op[a].late \/ facetsLock # None)))
      /\ UNCHANGED <<facetsLock, serial>>
  BY DEF F!SaveWrites, F!Writes
<1>10. alone' \in BOOLEAN /\ overtaken' \in BOOLEAN /\ (alone' => ~overtaken')
  BY <1>1, <1>9 DEF FacetsTyped
<1>11. ~overtaken => /\ removed \cap f.facetable = {} /\ removed \subseteq f.excluded
                     /\ facetsLock = None =>
                          \A s \in Syncs : op[s].pc \notin FacetsWaiting /\ ~op[s].late
                                         => FacetsSyncReadsOK(op[s], f, removed)
  BY DEF FacetsInv, FacetsUndisturbed
<1>12. ASSUME a \in Admins
       PROVE  /\ ~overtaken' =>
                /\ removed' \cap g.facetable = {} /\ removed' \subseteq g.excluded
                /\ FacetsHolderReads(o, g, removed')
              /\ alone' => FacetsHolderMakes(o, g, serial)
  <2>. HIDE DEF new
  <2>1. g.facetable = new /\ g.excluded = op[a].seen.kept
    OBVIOUS
  <2>2. removed' = IF op[a].kind # "remove" THEN removed \ op[a].keys ELSE removed
    BY <1>12 DEF F!SaveWrites
  <2>3. ASSUME ~overtaken'
        PROVE  /\ removed' \cap g.facetable = {} /\ removed' \subseteq g.excluded
               /\ FacetsHolderReads(o, g, removed')
    <3>1. (op[a].kind # "set" => op[a].seen.all = f.facetable) /\ op[a].seen.kept = f.excluded
          /\ removed \cap f.facetable = {} /\ removed \subseteq f.excluded
      BY <1>0, <1>1, <1>9, <1>11, <1>12, <2>3 DEF FacetsHolderReads, FacetsBefore
    <3>2. new = IF op[a].kind = "set" THEN op[a].keys
                ELSE IF op[a].kind = "add" THEN f.facetable \cup op[a].keys
                  ELSE f.facetable \ op[a].keys
      BY <1>3, <3>1 DEF F!NewFacetable, new
    <3>3. removed' \cap new = {} /\ removed' \subseteq op[a].seen.kept
      BY <1>3, <2>2, <3>1, <3>2
    <3>4. IF op[a].kind = "remove" THEN new \cap op[a].keys = {} ELSE removed' \cap op[a].keys = {}
      BY <1>3, <2>2, <3>2
    <3>5. FacetsHolderReads(o, g, removed')
      BY <1>2, <2>1, <3>4 DEF FacetsHolderReads, FacetsTwice
    <3>. QED BY <2>1, <3>3, <3>5
  <2>4. ASSUME alone' PROVE FacetsHolderMakes(o, g, serial)
    <3>1. f = serial /\ (op[a].kind # "set" => op[a].seen.all = f.facetable)
            /\ op[a].seen.kept = f.excluded
      BY <1>0, <1>1, <1>9, <1>10, <1>12, <2>4 DEF FacetsHolderReads, FacetsHolderMakes,
         FacetsBefore
    <3>2. new = F!Serially(op[a].kind, op[a].keys, serial).facetable
      BY <1>3, <3>1 DEF F!NewFacetable, F!Serially, new
    <3>. QED BY <1>2, <2>1, <3>1, <3>2 DEF FacetsHolderMakes, FacetsBefore
  <2>. QED BY <2>3, <2>4
<1>13. ASSUME a \notin Admins, ~overtaken'
       PROVE  /\ facetsLock = None /\ removed' \cap g.facetable = {}
              /\ removed' \subseteq g.excluded
              /\ FacetsSyncReadsOK(o, g, removed')
              /\ \A s \in Syncs \ {a} : op[s].pc \notin FacetsWaiting /\ ~op[s].late
                   => FacetsSyncReadsOK(op[s], g, removed')
  <2>. HIDE DEF new
  <2>1. g.facetable = new /\ g.excluded = op[a].seen.kept
    OBVIOUS
  <2>2. facetsLock = None /\ ~op[a].late /\ ~overtaken /\ a \in Syncs /\ removed' = removed
    BY <1>1, <1>9, <1>13 DEF F!SaveWrites
  <2>3. op[a].seen.all \cap removed = {} /\ op[a].seen.kept = f.excluded
        /\ op[a].keys \cap f.excluded = {}
    BY <1>0, <1>1, <1>13, <2>2 DEF FacetsSyncReadsOK, FacetsBefore, FacetsListed
  <2>4. new = op[a].seen.all \cup op[a].keys
    BY <1>3, <2>2 DEF F!NewFacetable, new
  <2>5. removed' \cap new = {} /\ removed' \subseteq op[a].seen.kept
    BY <1>11, <2>2, <2>3, <2>4
  <2>6. FacetsSyncReadsOK(o, g, removed')
    BY <1>2, <2>1, <2>3 DEF FacetsSyncReadsOK, FacetsTwice, FacetsListed
  <2>7. ASSUME NEW s \in Syncs \ {a}, op[s].pc \notin FacetsWaiting, ~op[s].late
        PROVE  FacetsSyncReadsOK(op[s], g, removed')
    BY <1>11, <2>1, <2>2, <2>3, <2>7 DEF FacetsSyncReadsOK
  <2>. QED BY <2>1, <2>2, <2>5, <2>6, <2>7
<1>14. ~overtaken' =>
        /\ removed' \cap F!Loaded(facetsFile').facetable = {}
        /\ removed' \subseteq F!Loaded(facetsFile').excluded
        /\ facetsLock # None => FacetsHolderReads(IF facetsLock = a THEN o
             ELSE op[facetsLock], F!Loaded(facetsFile'), removed')
        /\ facetsLock = None =>
             /\ a \in Syncs /\ o.pc \notin FacetsWaiting /\ ~o.late
                  => FacetsSyncReadsOK(o, F!Loaded(facetsFile'), removed')
             /\ \A s \in Syncs \ {a} : op[s].pc \notin FacetsWaiting /\ ~op[s].late
                  => FacetsSyncReadsOK(op[s], F!Loaded(facetsFile'), removed')
  BY <1>1, <1>5, <1>12, <1>13
<1>15. alone' => IF facetsLock = None THEN F!Loaded(facetsFile') = serial
                 ELSE FacetsHolderMakes(IF facetsLock = a THEN o
                   ELSE op[facetsLock], F!Loaded(facetsFile'), serial)
  BY <1>1, <1>5, <1>9, <1>12
<1>16. facetsFile' \in FacetsLists \cup {None}
  BY <1>5
<1>. QED BY <1>1, <1>2, <1>6, <1>7, <1>8, <1>9, <1>10, <1>14, <1>15, <1>16, FacetsMoves

LEMMA FacetsDenyWritesKeeps ==
  ASSUME F!FacetsAssumption, FacetsInv, NEW a \in F!Actors, F!DenyWrites(a)
  PROVE  FacetsInv'
<1>. DEFINE f == F!Loaded(facetsFile)
            g == [facetable |-> op[a].seen.kept, excluded |-> op[a].seen.deny]
<1>0. op[a].pc = "writeDeny" /\ op[a].pc \notin FacetsWaiting
  BY DEF F!DenyWrites, FacetsWaiting
<1>1. /\ FacetsTyped /\ FacetsOpTyped(a, op[a]) /\ a # None /\ (facetsLock = a <=> a \in Admins)
      /\ a \in Admins => /\ a \notin Syncs /\ facetsLock # None
                         /\ ~overtaken => FacetsHolderReads(op[a], f, removed)
                         /\ alone => FacetsHolderMakes(op[a], f, serial)
      /\ a \notin Admins => /\ a \in Syncs
                            /\ ~overtaken /\ facetsLock = None /\ ~op[a].late
                                 => FacetsSyncReadsOK(op[a], f, removed)
  BY <1>0, FacetsAtWork
<1>2. PICK o : /\ op' = [op EXCEPT ![a] = o] /\ o.pc = "over" /\ o.kind = op[a].kind
               /\ o.keys = op[a].keys
               /\ o.seen = op[a].seen.all /\ o.late = op[a].late /\ op[a].late \in BOOLEAN
               /\ o = [pc |-> o.pc, kind |-> o.kind, keys |-> o.keys, seen |-> o.seen,
                    late |-> o.late]
  BY <1>1, FacetsOpFields DEF F!DenyWrites, F!Goes
<1>3. op[a].seen.all \in SUBSET Keys /\ op[a].seen.kept \in SUBSET Keys
      /\ op[a].seen.deny \in SUBSET Keys /\ op[a].keys \in SUBSET Keys
      /\ op[a].kind \in {"add", "remove"}
  BY <1>0, <1>1 DEF FacetsOpTyped, FacetsSeenAt, FacetsWaiting, FacetsListed, FacetsTwice
<1>4. g \in FacetsLists /\ facetsFile' = g /\ F!Loaded(facetsFile') = g
  <2>1. g \in FacetsLists
    BY <1>3 DEF FacetsLists
  <2>2. facetsFile' = g
    BY DEF F!DenyWrites
  <2>. QED BY <2>1, <2>2, FacetsRegistryWritten
<1>5. FacetsOpTyped(a, o)
  BY <1>0, <1>1, <1>2, <1>3 DEF FacetsOpTyped, FacetsSeenAt, FacetsWaiting, FacetsListed,
     FacetsTwice
<1>6. a \in Admins => (o.pc \notin FacetsWaiting <=> facetsLock = a)
  BY <1>1, <1>2 DEF FacetsWaiting
<1>7. alone' = (alone /\ a \in Admins)
        /\ overtaken' = (overtaken \/ (a \in Syncs /\ (op[a].late \/ facetsLock # None)))
      /\ UNCHANGED <<facetsLock, serial, removed>>
  BY DEF F!DenyWrites, F!Writes
<1>8. alone' \in BOOLEAN /\ overtaken' \in BOOLEAN /\ (alone' => ~overtaken')
        /\ removed' \subseteq Keys
  BY <1>1, <1>7 DEF FacetsTyped
<1>9. ~overtaken => removed \cap f.facetable = {} /\ removed \subseteq f.excluded
  BY DEF FacetsInv, FacetsUndisturbed
<1>10. ~overtaken' => a \in Admins
  BY <1>0, <1>1, <1>7 DEF FacetsSyncReadsOK, FacetsTwice
<1>11. g.facetable = op[a].seen.kept /\ g.excluded = op[a].seen.deny
  OBVIOUS
<1>12. ASSUME a \in Admins, ~overtaken'
       PROVE  /\ removed \cap g.facetable = {} /\ removed \subseteq g.excluded
              /\ FacetsHolderReads(o, g, removed)
  <2>1. /\ op[a].seen.kept = f.facetable /\ op[a].seen.deny = FacetsDenied(op[a], f)
        /\ IF op[a].kind = "remove" THEN f.facetable \cap op[a].keys = {}
           ELSE removed \cap op[a].keys = {}
    BY <1>0, <1>1, <1>7, <1>12 DEF FacetsHolderReads, FacetsTwice
  <2>2. removed \subseteq FacetsDenied(op[a], f)
    BY <1>3, <1>7, <1>9, <1>12, <2>1 DEF FacetsDenied
  <2>3. op[a].kind = "remove" => op[a].seen.all \cap op[a].keys \subseteq op[a].seen.deny
    BY <2>1 DEF FacetsDenied
  <2>4. FacetsHolderReads(o, g, removed)
    BY <1>2, <1>11, <2>1, <2>3 DEF FacetsHolderReads, FacetsTwice
  <2>. QED BY <1>7, <1>9, <1>11, <1>12, <2>1, <2>2, <2>4
<1>13. ASSUME a \in Admins, alone' PROVE FacetsHolderMakes(o, g, serial)
  <2>1. op[a].seen.kept = f.facetable /\ op[a].seen.deny = FacetsDenied(op[a], f)
        /\ f.facetable = F!Serially(op[a].kind, op[a].keys, serial).facetable
        /\ f.excluded = serial.excluded
        /\ op[a].seen.all = serial.facetable
    BY <1>0, <1>1, <1>3, <1>7, <1>8, <1>13 DEF FacetsHolderReads, FacetsHolderMakes, FacetsBefore
  <2>2. g = F!Serially(op[a].kind, op[a].keys, serial)
    BY <1>3, <2>1 DEF F!Serially, FacetsDenied
  <2>. QED BY <1>2, <2>2 DEF FacetsHolderMakes
<1>14. ~overtaken' =>
        /\ removed' \cap F!Loaded(facetsFile').facetable = {}
        /\ removed' \subseteq F!Loaded(facetsFile').excluded
        /\ facetsLock # None => FacetsHolderReads(IF facetsLock = a THEN o
             ELSE op[facetsLock], F!Loaded(facetsFile'), removed')
        /\ facetsLock = None =>
             /\ a \in Syncs /\ o.pc \notin FacetsWaiting /\ ~o.late
                  => FacetsSyncReadsOK(o, F!Loaded(facetsFile'), removed')
             /\ \A s \in Syncs \ {a} : op[s].pc \notin FacetsWaiting /\ ~op[s].late
                  => FacetsSyncReadsOK(op[s], F!Loaded(facetsFile'), removed')
  BY <1>1, <1>4, <1>7, <1>10, <1>12
<1>15. alone' => IF facetsLock = None THEN F!Loaded(facetsFile') = serial
                 ELSE FacetsHolderMakes(IF facetsLock = a THEN o
                   ELSE op[facetsLock], F!Loaded(facetsFile'), serial)
  BY <1>1, <1>4, <1>7, <1>13
<1>16. facetsFile' \in FacetsLists \cup {None}
  BY <1>4
<1>. QED BY <1>1, <1>2, <1>5, <1>6, <1>7, <1>8, <1>14, <1>15, <1>16, FacetsMoves

\* An operation ends: whoever was under way with a request is late.
LEMMA FacetsEndsKeeps ==
  ASSUME F!FacetsAssumption, FacetsInv, NEW a \in F!Actors, op[a].pc \notin FacetsWaiting,
         F!Ends(a),
         UNCHANGED facetsFile, alone' \in BOOLEAN, alone' => alone,
         overtaken' \in BOOLEAN, overtaken => overtaken', alone' => ~overtaken',
         serial' \in FacetsLists, removed' \in SUBSET Keys,
         ~overtaken' => /\ removed' \cap F!Loaded(facetsFile).facetable = {}
                        /\ removed' \subseteq F!Loaded(facetsFile).excluded,
         a \in Admins => (alone' => F!Loaded(facetsFile) = serial'),
         a \notin Admins => UNCHANGED <<serial, removed>>
  PROVE  FacetsInv'
<1>. DEFINE f == F!Loaded(facetsFile)
<1>1. /\ FacetsTyped /\ FacetsOpTyped(a, op[a]) /\ a # None /\ (facetsLock = a <=> a \in Admins)
      /\ a \in Admins => /\ a \notin Syncs /\ facetsLock # None
                         /\ ~overtaken => FacetsHolderReads(op[a], f, removed)
                         /\ alone => FacetsHolderMakes(op[a], f, serial)
      /\ a \notin Admins => /\ a \in Syncs
                            /\ ~overtaken /\ facetsLock = None /\ ~op[a].late
                                 => FacetsSyncReadsOK(op[a], f, removed)
  BY FacetsAtWork
<1>2. /\ DOMAIN op' = F!Actors /\ op'[a] = F!Idle
      /\ \A b \in F!Actors \ {a} :
           op'[b] = [op[b] EXCEPT !.late =
                       @ \/ (a \in Admins /\ b \in Syncs /\ op[b].pc \notin {"idle", "lock"})]
  BY DEF F!Ends
<1>3. \A b \in F!Actors \ {a} :
        /\ FacetsOpTyped(b, op'[b]) /\ op'[b].pc = op[b].pc /\ op'[b].kind = op[b].kind
        /\ op'[b].keys = op[b].keys /\ op'[b].seen = op[b].seen
        /\ op'[b].late = (op[b].late
             \/ (a \in Admins /\ b \in Syncs /\ op[b].pc \notin FacetsWaiting))
  <2>. SUFFICES ASSUME NEW b \in F!Actors \ {a}
                PROVE  /\ FacetsOpTyped(b, op'[b]) /\ op'[b].pc = op[b].pc
                       /\ op'[b].kind = op[b].kind
                       /\ op'[b].keys = op[b].keys /\ op'[b].seen = op[b].seen
                       /\ op'[b].late = (op[b].late
                            \/ (a \in Admins /\ b \in Syncs /\ op[b].pc \notin FacetsWaiting))
    OBVIOUS
  <2>. DEFINE late == op[b].late
                \/ (a \in Admins /\ b \in Syncs /\ op[b].pc \notin {"idle", "lock"})
  <2>1. op'[b] = [op[b] EXCEPT !.late = late] /\ FacetsOpTyped(b, op[b])
    BY <1>1, <1>2 DEF FacetsTyped
  <2>2. late \in BOOLEAN
          /\ (late <=> (op[b].late
               \/ (a \in Admins /\ b \in Syncs /\ op[b].pc \notin FacetsWaiting)))
    BY <2>1 DEF FacetsOpTyped, FacetsWaiting
  <2>. HIDE DEF late
  <2>3. op'[b] = [pc |-> op[b].pc, kind |-> op[b].kind, keys |-> op[b].keys, seen |-> op[b].seen,
          late |-> late]
    BY <2>1 DEF FacetsOpTyped
  <2>4. FacetsOpTyped(b, op'[b])
    BY <2>1, <2>2, <2>3 DEF FacetsOpTyped
  <2>. QED BY <2>2, <2>3, <2>4
<1>4. facetsLock' = IF facetsLock = a THEN None ELSE facetsLock
  BY DEF F!Ends
<1>5. FacetsTyped'
  <2>1. FacetsOpTyped(a, F!Idle) /\ F!Idle.pc \in FacetsWaiting
    BY DEF F!Idle, FacetsOpTyped, FacetsSeenAt, FacetsWaiting, FacetsListed, FacetsTwice
  <2>2. \A b \in F!Actors : FacetsOpTyped(b, op'[b])
    BY <1>2, <1>3, <2>1
  <2>3. \A b \in F!Actors : FacetsOpTyped(b, op[b])'
    BY <2>2 DEF FacetsOpTyped, FacetsSeenAt
  <2>4. \A b \in Admins : op'[b].pc \notin FacetsWaiting <=> facetsLock' = b
    <3>. TAKE b \in Admins
    <3>1. b \in F!Actors /\ b # None
      BY DEF F!Actors, F!FacetsAssumption
    <3>2. CASE b = a
      BY <1>2, <1>4, <2>1, <3>1, <3>2
    <3>3. CASE b # a
      <4>1. op'[b].pc = op[b].pc
        BY <1>3, <3>1, <3>3
      <4>. QED BY <1>1, <1>4, <3>1, <3>3, <4>1 DEF FacetsTyped
    <3>. QED BY <3>2, <3>3
  <2>. QED BY <1>1, <1>2, <1>4, <2>3, <2>4 DEF FacetsTyped, FacetsWaiting
<1>6. F!Loaded(facetsFile') = f
  BY DEF F!Loaded
<1>7. \A b \in Syncs : b \in F!Actors
  BY DEF F!Actors
<1>8. ASSUME NEW b \in F!Actors \ {a}
      PROVE  /\ FacetsSyncReadsOK(op[b], f, removed) => FacetsSyncReadsOK(op'[b], f, removed)
             /\ FacetsHolderReads(op[b], f, removed) => FacetsHolderReads(op'[b], f, removed)
             /\ FacetsHolderMakes(op[b], f, serial) => FacetsHolderMakes(op'[b], f, serial)
  <2>0. /\ op'[b].pc = op[b].pc /\ op'[b].kind = op[b].kind
        /\ op'[b].keys = op[b].keys /\ op'[b].seen = op[b].seen
    BY <1>3
  <2>. HIDE DEF f
  <2>1. FacetsBefore(op'[b]) = FacetsBefore(op[b])
        /\ FacetsDenied(op'[b], f) = FacetsDenied(op[b], f)
    BY <2>0 DEF FacetsBefore, FacetsDenied
  <2>2. FacetsSyncReadsOK(op[b], f, removed) => FacetsSyncReadsOK(op'[b], f, removed)
    BY <2>0, <2>1 DEF FacetsSyncReadsOK
  <2>3. FacetsHolderReads(op[b], f, removed) => FacetsHolderReads(op'[b], f, removed)
    BY <2>0, <2>1 DEF FacetsHolderReads
  <2>4. FacetsHolderMakes(op[b], f, serial) => FacetsHolderMakes(op'[b], f, serial)
    BY <2>0, <2>1 DEF FacetsHolderMakes
  <2>. QED BY <2>2, <2>3, <2>4
<1>9. (~overtaken => FacetsUndisturbed)'
  <2>. SUFFICES ASSUME ~overtaken' PROVE FacetsUndisturbed'
    OBVIOUS
  <2>0. FacetsUndisturbed /\ ~overtaken
    BY DEF FacetsInv
  <2>1. ASSUME facetsLock' # None
        PROVE FacetsHolderReads(op'[facetsLock'], F!Loaded(facetsFile'), removed')
    <3>1. facetsLock' = facetsLock /\ facetsLock # a /\ a \notin Admins /\ removed' = removed
          /\ facetsLock \in F!Actors
      BY <1>1, <1>4, <2>1 DEF FacetsTyped, F!Actors
    <3>. QED BY <1>6, <1>8, <2>0, <2>1, <3>1 DEF FacetsUndisturbed
  <2>2. ASSUME facetsLock' = None, NEW s \in Syncs, op'[s].pc \notin FacetsWaiting, ~op'[s].late
        PROVE  FacetsSyncReadsOK(op'[s], F!Loaded(facetsFile'), removed')
    <3>1. s # a /\ s \in F!Actors
      BY <1>2, <1>7, <2>2 DEF F!Idle, FacetsWaiting
    <3>2. ~op[s].late /\ op[s].pc \notin FacetsWaiting /\ a \notin Admins
      BY <1>3, <2>2, <3>1
    <3>3. removed' = removed /\ facetsLock = None
      BY <1>1, <1>4, <2>2, <3>2
    <3>. QED BY <1>6, <1>8, <2>0, <3>1, <3>2, <3>3 DEF FacetsUndisturbed
  <2>3. facetsLock' # None => FacetsHolderReads(op[facetsLock], F!Loaded(facetsFile), removed)'
    BY <2>1 DEF FacetsHolderReads, FacetsBefore, FacetsDenied, F!Loaded
  <2>4. \A s \in Syncs : facetsLock' = None /\ op'[s].pc \notin FacetsWaiting /\ ~op'[s].late
          => FacetsSyncReadsOK(op[s], F!Loaded(facetsFile), removed)'
    BY <2>2 DEF FacetsSyncReadsOK, FacetsBefore, F!Loaded
  <2>5. removed' \cap F!Loaded(facetsFile').facetable = {}
        /\ removed' \subseteq F!Loaded(facetsFile').excluded
    BY <1>6, <2>0
  <2>. QED BY <2>3, <2>4, <2>5 DEF FacetsUndisturbed, F!Loaded, FacetsWaiting
<1>10. (alone => FacetsInTurn)'
  <2>. SUFFICES ASSUME alone' PROVE FacetsInTurn'
    OBVIOUS
  <2>0. FacetsInTurn
    BY DEF FacetsInv
  <2>1. CASE a \in Admins
    BY <1>1, <1>4, <1>6, <2>1 DEF FacetsInTurn, F!Loaded
  <2>2. CASE a \notin Admins /\ facetsLock = None
    BY <1>1, <1>4, <1>6, <2>0, <2>2 DEF FacetsInTurn, F!Loaded
  <2>3. CASE a \notin Admins /\ facetsLock # None
    <3>1. facetsLock' = facetsLock /\ facetsLock # a /\ serial' = serial
          /\ facetsLock \in F!Actors
      BY <1>1, <1>4, <2>3 DEF FacetsTyped, F!Actors
    <3>2. FacetsHolderMakes(op'[facetsLock'], F!Loaded(facetsFile'), serial')
      BY <1>6, <1>8, <2>0, <2>3, <3>1 DEF FacetsInTurn
    <3>3. FacetsHolderMakes(op[facetsLock], F!Loaded(facetsFile), serial)'
      BY <3>2 DEF FacetsHolderMakes, FacetsBefore, F!Loaded, F!Serially
    <3>. QED BY <2>3, <3>1, <3>3 DEF FacetsInTurn, F!Loaded
  <2>. QED BY <2>1, <2>2, <2>3
<1>. QED BY <1>5, <1>9, <1>10 DEF FacetsInv

\* A request or a sync comes to its end.
LEMMA FacetsFinishedKeeps ==
  ASSUME F!FacetsAssumption, FacetsInv, NEW a \in F!Actors, op[a].pc \in {"deny", "over"},
         F!Finished(a),
         op[a].pc = "deny" /\ op[a].kind = "remove" => op[a].seen \cap op[a].keys = {},
         op[a].pc = "deny" /\ op[a].kind = "add" =>
           F!Loaded(facetsFile).excluded \cap op[a].keys = {},
         UNCHANGED <<facetsFile, alone, overtaken>>
  PROVE  FacetsInv'
<1>. DEFINE f == F!Loaded(facetsFile)
<1>0. op[a].pc \notin FacetsWaiting
  BY DEF FacetsWaiting
<1>1. /\ FacetsTyped /\ FacetsOpTyped(a, op[a]) /\ a # None /\ (facetsLock = a <=> a \in Admins)
      /\ a \in Admins => /\ a \notin Syncs /\ facetsLock # None
                         /\ ~overtaken => FacetsHolderReads(op[a], f, removed)
                         /\ alone => FacetsHolderMakes(op[a], f, serial)
      /\ a \notin Admins => /\ a \in Syncs
                            /\ ~overtaken /\ facetsLock = None /\ ~op[a].late
                                 => FacetsSyncReadsOK(op[a], f, removed)
  BY <1>0, FacetsAtWork
<1>2. F!Ends(a) /\ (a \notin Admins => UNCHANGED <<serial, removed>>)
  BY DEF F!Finished
<1>3. /\ f \in FacetsLists /\ f.facetable \in SUBSET Keys /\ f.excluded \in SUBSET Keys
      /\ serial \in FacetsLists
      /\ serial.facetable \in SUBSET Keys /\ serial.excluded \in SUBSET Keys
      /\ removed \in SUBSET Keys /\ op[a].keys \in SUBSET Keys /\ op[a].seen \in SUBSET Keys
      /\ alone \in BOOLEAN /\ (alone => ~overtaken) /\ overtaken' \in BOOLEAN
      /\ (overtaken => overtaken') /\ (alone' => ~overtaken') /\ (~overtaken' => ~overtaken)
  BY <1>1, FacetsRegistryIsListed DEF FacetsTyped, FacetsOpTyped, FacetsSeenAt
<1>4. ~overtaken => removed \cap f.facetable = {} /\ removed \subseteq f.excluded
  BY DEF FacetsInv, FacetsUndisturbed
<1>5. CASE a \in Admins
  <2>1. op[a].kind \in {"set", "add", "remove"} /\ (op[a].kind = "set" => op[a].pc = "deny")
    BY <1>0, <1>1, <1>5 DEF FacetsOpTyped, FacetsWaiting, FacetsTwice
  <2>2. /\ serial' = F!Serially(op[a].kind, op[a].keys, serial)
        /\ removed' = IF op[a].kind = "remove" THEN removed \cup (op[a].seen \cap op[a].keys)
             ELSE removed
    BY <1>5 DEF F!Finished
  <2>3. serial' \in FacetsLists
    BY <1>3, <2>1, <2>2 DEF F!Serially, FacetsLists
  <2>4. ASSUME ~overtaken PROVE removed' \cap f.facetable = {} /\ removed' \subseteq f.excluded
    <3>1. FacetsHolderReads(op[a], f, removed)
      BY <1>1, <1>5, <2>4
    <3>2. op[a].kind = "remove" => /\ f.facetable \cap op[a].keys = {}
                                   /\ op[a].seen \cap op[a].keys \subseteq f.excluded
      BY <3>1 DEF FacetsHolderReads, FacetsTwice
    <3>. QED BY <1>3, <1>4, <2>2, <2>4, <3>2
  <2>5. ASSUME alone PROVE f = serial'
    <3>1. FacetsHolderMakes(op[a], f, serial)
      BY <1>1, <1>5, <2>5
    <3>2. CASE op[a].pc = "over"
      BY <2>2, <3>1, <3>2 DEF FacetsHolderMakes
    <3>3. CASE op[a].pc = "deny"
      <4>1. /\ f.facetable = F!Serially(op[a].kind, op[a].keys, serial).facetable
            /\ f.excluded = serial.excluded
            /\ op[a].kind # "set" => op[a].seen = serial.facetable
        BY <3>1, <3>3 DEF FacetsHolderMakes, FacetsBefore
      <4>2. f.excluded = F!Serially(op[a].kind, op[a].keys, serial).excluded
        BY <1>3, <2>1, <3>3, <4>1 DEF F!Serially
      <4>. QED BY <1>3, <2>2, <2>3, <4>1, <4>2 DEF FacetsLists
    <3>. QED BY <3>2, <3>3
  <2>6. removed' \in SUBSET Keys
    BY <1>3, <2>2
  <2>. QED BY <1>0, <1>2, <1>3, <1>5, <2>3, <2>4, <2>5, <2>6, FacetsEndsKeeps
<1>6. CASE a \notin Admins
  BY <1>0, <1>2, <1>3, <1>4, <1>6, FacetsEndsKeeps
<1>. QED BY <1>5, <1>6

LEMMA FacetsDenyKeeps ==
  ASSUME F!FacetsAssumption, FacetsInv, NEW a \in F!Actors,
         F!Deny(a, F!Loaded(facetsFile))
  PROVE  FacetsInv'
<1>. DEFINE f == F!Loaded(facetsFile)
            deny == IF op[a].kind = "add" THEN f.excluded \ op[a].keys
                    ELSE f.excluded \cup (op[a].seen \cap op[a].keys)
            same == CASE op[a].kind = "set" -> TRUE
                      [] op[a].kind = "add" -> f.excluded \cap op[a].keys = {}
                      [] op[a].kind = "remove" -> op[a].seen \cap op[a].keys = {}
            seen == [all |-> op[a].seen, deny |-> deny]
<1>0. op[a].pc = "deny" /\ op[a].pc \notin FacetsWaiting
  BY DEF F!Deny, FacetsWaiting
<1>1. /\ FacetsTyped /\ FacetsOpTyped(a, op[a]) /\ a # None /\ (facetsLock = a <=> a \in Admins)
      /\ a \in Admins => /\ a \notin Syncs /\ facetsLock # None
                         /\ ~overtaken => FacetsHolderReads(op[a], f, removed)
                         /\ alone => FacetsHolderMakes(op[a], f, serial)
      /\ a \notin Admins => /\ a \in Syncs
                            /\ ~overtaken /\ facetsLock = None /\ ~op[a].late
                                 => FacetsSyncReadsOK(op[a], f, removed)
  BY <1>0, FacetsAtWork
<1>2. op[a].kind \in {"set", "add", "remove"} /\ (a \in Syncs => op[a].kind = "add")
  BY <1>0, <1>1 DEF FacetsOpTyped, FacetsWaiting, FacetsListed, FacetsTwice, F!Actors
<1>3. CASE same /\ F!Finished(a)
  BY <1>0, <1>2, <1>3, FacetsFinishedKeeps DEF F!Deny, F!Reads
<1>4. CASE ~same /\ F!Goes(a, "saveDeny", seen) /\ UNCHANGED <<facetsLock, removed, serial>>
  <2>1. PICK o : /\ op' = [op EXCEPT ![a] = o] /\ o.pc = "saveDeny" /\ o.kind = op[a].kind
                 /\ o.keys = op[a].keys
                 /\ o.seen = seen /\ o.late = op[a].late /\ op[a].late \in BOOLEAN
                 /\ o = [pc |-> o.pc, kind |-> o.kind, keys |-> o.keys, seen |-> o.seen,
                      late |-> o.late]
    BY <1>1, <1>4, FacetsOpFields DEF F!Goes
  <2>2. op[a].kind # "set"
    BY <1>4
  <2>3. op[a].seen \in SUBSET Keys /\ deny \in SUBSET Keys /\ op[a].keys \in SUBSET Keys
    BY <1>0, <1>1, FacetsRegistryIsListed DEF FacetsOpTyped, FacetsSeenAt
  <2>4. seen \in [all : SUBSET Keys, deny : SUBSET Keys]
    <3>. HIDE DEF deny
    <3>. QED BY <2>3
  <2>5. FacetsOpTyped(a, o)
    <3>. HIDE DEF seen
    <3>. QED
      BY <1>0, <1>1, <1>2, <2>1, <2>2, <2>3, <2>4 DEF FacetsOpTyped, FacetsSeenAt,
         FacetsWaiting, FacetsListed, FacetsTwice
  <2>6. o.seen.all = op[a].seen /\ o.seen.deny = deny
    <3>. HIDE DEF deny
    <3>. QED BY <2>1
  <2>7. ~overtaken /\ facetsLock = a /\ facetsLock # None => FacetsHolderReads(o, f, removed)
    BY <1>0, <1>1, <2>1, <2>6 DEF FacetsHolderReads, FacetsBefore, FacetsDenied, FacetsTwice
  <2>8. ~overtaken /\ facetsLock = None /\ a \in Syncs /\ o.pc \notin FacetsWaiting /\ ~o.late
          => FacetsSyncReadsOK(o, f, removed)
    <3>1. ~overtaken /\ facetsLock = None /\ a \in Syncs /\ ~op[a].late =>
            op[a].keys \cap f.excluded = {}
      BY <1>0, <1>1 DEF FacetsSyncReadsOK, FacetsListed
    <3>2. a \in Syncs => f.excluded \cap op[a].keys # {}
      BY <1>2, <1>4
    <3>. QED BY <2>1, <3>1, <3>2
  <2>9. alone /\ facetsLock = a /\ facetsLock # None => FacetsHolderMakes(o, f, serial)
    BY <1>0, <1>1, <2>1, <2>6 DEF FacetsHolderMakes, FacetsBefore
  <2>10. a \in Admins => (o.pc \notin FacetsWaiting <=> facetsLock = a)
    BY <1>1, <2>1 DEF FacetsWaiting
  <2>. QED BY <1>4, <2>1, <2>5, <2>7, <2>8, <2>9, <2>10, FacetsMovesReading DEF F!Deny, F!Reads
<1>. QED BY <1>3, <1>4 DEF F!Deny

LEMMA FacetsOverKeeps ==
  ASSUME F!FacetsAssumption, FacetsInv, NEW a \in F!Actors, F!Over(a)
  PROVE  FacetsInv'
BY FacetsFinishedKeeps DEF F!Over

LEMMA FacetsFailsKeeps ==
  ASSUME F!FacetsAssumption, FacetsInv, NEW a \in F!Actors, F!Fails(a)
  PROVE  FacetsInv'
<1>1. op[a].pc \notin FacetsWaiting /\ F!Ends(a) /\ alone' = FALSE
      /\ UNCHANGED <<facetsFile, removed, serial, overtaken>>
  BY DEF F!Fails, FacetsWaiting
<1>2. FacetsTyped /\ (~overtaken => FacetsUndisturbed)
  BY DEF FacetsInv
<1>3. /\ serial' \in FacetsLists /\ removed' \in SUBSET Keys
      /\ overtaken' \in BOOLEAN /\ (overtaken => overtaken')
  BY <1>1, <1>2 DEF FacetsTyped
<1>4. ~overtaken' => removed' \cap F!Loaded(facetsFile).facetable = {}
        /\ removed' \subseteq F!Loaded(facetsFile).excluded
  BY <1>1, <1>2 DEF FacetsUndisturbed
<1>. QED BY <1>1, <1>3, <1>4, FacetsEndsKeeps

LEMMA FacetsCrashKeeps ==
  ASSUME F!FacetsAssumption, FacetsInv, F!Crash
  PROVE  FacetsInv'
<1>1. FacetsTyped /\ (~overtaken => FacetsUndisturbed)
  BY DEF FacetsInv
<1>2. /\ op' = [a \in F!Actors |-> F!Idle] /\ facetsLock' = None /\ alone' = FALSE
      /\ UNCHANGED <<facetsFile, removed, serial, overtaken>>
  BY DEF F!Crash
<1>3. \A a \in F!Actors : FacetsOpTyped(a, F!Idle) /\ F!Idle.pc \in FacetsWaiting
  BY DEF F!Idle, FacetsOpTyped, FacetsSeenAt, FacetsWaiting, FacetsListed, FacetsTwice
<1>4. \A a \in F!Actors : FacetsOpTyped(a, op[a])'
  <2>1. \A a \in F!Actors : FacetsOpTyped(a, op'[a])
    BY <1>2, <1>3
  <2>. QED BY <2>1 DEF FacetsOpTyped, FacetsSeenAt
<1>5. \A a \in F!Actors : op'[a].pc \in FacetsWaiting
  BY <1>2, <1>3
<1>6. FacetsTyped'
  <2>1. \A a \in Admins : a # None /\ a \in F!Actors
    BY DEF F!FacetsAssumption, F!Actors
  <2>. QED BY <1>1, <1>2, <1>4, <1>5, <2>1 DEF FacetsTyped, FacetsWaiting
<1>7. (~overtaken => FacetsUndisturbed)'
  BY <1>1, <1>2, <1>5 DEF FacetsUndisturbed, F!Loaded, FacetsWaiting, F!Actors
<1>. QED BY <1>2, <1>6, <1>7 DEF FacetsInv

LEMMA FacetsInitHolds ==
  ASSUME F!FacetsAssumption, F!Init
  PROVE  FacetsInv
<1>1. \A a \in F!Actors : FacetsOpTyped(a, F!Idle) /\ F!Idle.pc \in FacetsWaiting
  BY DEF F!Idle, FacetsOpTyped, FacetsSeenAt, FacetsWaiting, FacetsListed, FacetsTwice
<1>2. F!Loaded(None) = [facetable |-> Defaults, excluded |-> {}] /\ F!Loaded(None) \in FacetsLists
  BY DEF F!Loaded, FacetsLists, F!FacetsAssumption
<1>3. \A a \in F!Actors : op[a] = F!Idle
  BY DEF F!Init
<1>4. \A a \in Admins : a # None /\ a \in F!Actors
  BY DEF F!FacetsAssumption, F!Actors
<1>5. FacetsTyped
  BY <1>1, <1>2, <1>3, <1>4 DEF F!Init, FacetsTyped
<1>6. ~overtaken => FacetsUndisturbed
  BY <1>1, <1>2, <1>3 DEF F!Init, FacetsUndisturbed, F!Actors
<1>7. FacetsInTurn
  BY DEF F!Init, FacetsInTurn
<1>. QED BY <1>5, <1>6, <1>7 DEF FacetsInv

\* A step that reads.
FacetsReading(a, f) ==
  \/ F!SyncReads(a, f) \/ F!SyncChecks(a, f) \/ F!Load(a, f) \/ F!SaveReads(a, f)
  \/ F!Deny(a, f) \/ F!DenyReads(a, f)

\* After a read of a file that could not be read, only the types are left to keep.
LEMMA FacetsMovesMisread ==
  ASSUME F!FacetsAssumption, FacetsTyped, NEW a \in F!Actors, NEW o, FacetsOpTyped(a, o),
         op' = [op EXCEPT ![a] = o], a \in Admins => (o.pc \notin FacetsWaiting <=> facetsLock = a),
         UNCHANGED <<facetsFile, facetsLock, removed, serial>>,
         alone' = FALSE, overtaken' = TRUE
  PROVE  FacetsInv'
<1>1. facetsFile' \in FacetsLists \cup {None} /\ removed' \subseteq Keys
  BY DEF FacetsTyped
<1>. QED BY <1>1, FacetsMoves

LEMMA FacetsMisreadKeeps ==
  ASSUME F!FacetsAssumption, FacetsInv, NEW a \in F!Actors,
         NEW f \in {F!Loaded(facetsFile), F!Loaded(None)}, f # F!Loaded(facetsFile),
         FacetsReading(a, f)
  PROVE  FacetsInv'
<1>1. /\ FacetsTyped /\ f.facetable \in SUBSET Keys /\ f.excluded \in SUBSET Keys
      /\ FacetsOpTyped(a, op[a])
  <2>1. f = [facetable |-> Defaults, excluded |-> {}]
    BY DEF F!Loaded
  <2>. QED BY <2>1 DEF FacetsInv, FacetsTyped, F!FacetsAssumption
<1>2. alone' = FALSE /\ overtaken' = TRUE /\ facetsFile' = facetsFile
  BY DEF FacetsReading, F!Reads, F!SyncReads, F!SyncChecks, F!Load, F!SaveReads, F!Deny, F!DenyReads
<1>3. CASE F!SyncReads(a, f)
  <2>1. PICK o : /\ op' = [op EXCEPT ![a] = o] /\ o.pc = "excluded" /\ o.kind = "sync"
                 /\ o.keys = op[a].keys \ (f.facetable \cup Fixed)
                 /\ o.seen = {} /\ o.late = op[a].late /\ op[a].late \in BOOLEAN
                 /\ o = [pc |-> o.pc, kind |-> o.kind, keys |-> o.keys, seen |-> o.seen,
                      late |-> o.late]
    BY <1>1, <1>3, FacetsOpFields DEF F!SyncReads
  <2>2. a \in Syncs /\ a \notin Admins
    BY <1>3 DEF F!SyncReads, F!FacetsAssumption
  <2>3. FacetsOpTyped(a, o)
    BY <1>1, <2>1, <2>2 DEF FacetsOpTyped, FacetsSeenAt, FacetsWaiting, FacetsListed, FacetsTwice
  <2>. QED BY <1>1, <1>2, <1>3, <2>1, <2>2, <2>3, FacetsMovesMisread DEF F!SyncReads
<1>4. CASE F!SyncChecks(a, f)
  <2>1. a \in Syncs /\ a \notin Admins
    BY <1>1, <1>4 DEF F!SyncChecks, FacetsOpTyped, F!Actors, F!FacetsAssumption
  <2>2. CASE op' = [op EXCEPT ![a] = F!Idle]
    <3>1. FacetsOpTyped(a, F!Idle)
      BY <2>1 DEF F!Idle, FacetsOpTyped, FacetsSeenAt, FacetsWaiting, FacetsListed, FacetsTwice
    <3>. QED BY <1>1, <1>2, <1>4, <2>1, <2>2, <3>1, FacetsMovesMisread DEF F!SyncChecks
  <2>3. CASE F!Does(a, "load", "add", op[a].keys \ f.excluded, {})
    <3>1. PICK o : /\ op' = [op EXCEPT ![a] = o] /\ o.pc = "load" /\ o.kind = "add"
                   /\ o.keys = op[a].keys \ f.excluded
                   /\ o.seen = {} /\ o.late = op[a].late /\ op[a].late \in BOOLEAN
                   /\ o = [pc |-> o.pc, kind |-> o.kind, keys |-> o.keys, seen |-> o.seen,
                        late |-> o.late]
      BY <1>1, <2>3, FacetsOpFields
    <3>2. FacetsOpTyped(a, o)
      BY <1>1, <2>1, <3>1 DEF FacetsOpTyped, FacetsSeenAt, FacetsWaiting, FacetsListed, FacetsTwice
    <3>. QED BY <1>1, <1>2, <1>4, <2>1, <3>1, <3>2, FacetsMovesMisread DEF F!SyncChecks
  <2>. QED BY <1>4, <2>2, <2>3 DEF F!SyncChecks
<1>5. ASSUME op[a].pc \notin FacetsWaiting
      PROVE  a \in Admins <=> facetsLock = a
  BY <1>1, <1>5, FacetsAtWork
<1>6. CASE F!Load(a, f)
  <2>1. PICK o : /\ op' = [op EXCEPT ![a] = o] /\ o.pc = "save" /\ o.kind = op[a].kind
                 /\ o.keys = op[a].keys
                 /\ o.seen = f.facetable /\ o.late = op[a].late /\ op[a].late \in BOOLEAN
                 /\ o = [pc |-> o.pc, kind |-> o.kind, keys |-> o.keys, seen |-> o.seen,
                      late |-> o.late]
    BY <1>1, <1>6, FacetsOpFields DEF F!Load, F!Goes
  <2>2. op[a].pc = "load" /\ op[a].pc \notin FacetsWaiting
    BY <1>6 DEF F!Load, FacetsWaiting
  <2>3. FacetsOpTyped(a, o)
    BY <1>1, <2>1, <2>2 DEF FacetsOpTyped, FacetsSeenAt, FacetsWaiting, FacetsListed, FacetsTwice
  <2>4. a \in Admins => (o.pc \notin FacetsWaiting <=> facetsLock = a)
    BY <1>5, <2>1, <2>2 DEF FacetsWaiting
  <2>. QED BY <1>1, <1>2, <1>6, <2>1, <2>3, <2>4, FacetsMovesMisread DEF F!Load
<1>7. CASE F!SaveReads(a, f)
  <2>. DEFINE seen == [all |-> op[a].seen, kept |-> f.excluded]
  <2>1. PICK o : /\ op' = [op EXCEPT ![a] = o] /\ o.pc = "write" /\ o.kind = op[a].kind
                 /\ o.keys = op[a].keys
                 /\ o.seen = seen /\ o.late = op[a].late /\ op[a].late \in BOOLEAN
                 /\ o = [pc |-> o.pc, kind |-> o.kind, keys |-> o.keys, seen |-> o.seen,
                      late |-> o.late]
    BY <1>1, <1>7, FacetsOpFields DEF F!SaveReads, F!Goes
  <2>2. op[a].pc = "save" /\ op[a].pc \notin FacetsWaiting
    BY <1>7 DEF F!SaveReads, FacetsWaiting
  <2>3. seen \in [all : SUBSET Keys, kept : SUBSET Keys]
    BY <1>1, <2>2 DEF FacetsOpTyped, FacetsSeenAt
  <2>4. FacetsOpTyped(a, o)
    <3>. HIDE DEF seen
    <3>. QED
      BY <1>1, <2>1, <2>2, <2>3 DEF FacetsOpTyped, FacetsSeenAt, FacetsWaiting, FacetsListed,
         FacetsTwice
  <2>5. a \in Admins => (o.pc \notin FacetsWaiting <=> facetsLock = a)
    BY <1>5, <2>1, <2>2 DEF FacetsWaiting
  <2>. QED BY <1>1, <1>2, <1>7, <2>1, <2>4, <2>5, FacetsMovesMisread DEF F!SaveReads
<1>8. CASE F!DenyReads(a, f)
  <2>. DEFINE seen == [all |-> op[a].seen.all, deny |-> op[a].seen.deny, kept |-> f.facetable]
  <2>1. PICK o : /\ op' = [op EXCEPT ![a] = o] /\ o.pc = "writeDeny" /\ o.kind = op[a].kind
                 /\ o.keys = op[a].keys
                 /\ o.seen = seen /\ o.late = op[a].late /\ op[a].late \in BOOLEAN
                 /\ o = [pc |-> o.pc, kind |-> o.kind, keys |-> o.keys, seen |-> o.seen,
                      late |-> o.late]
    BY <1>1, <1>8, FacetsOpFields DEF F!DenyReads, F!Goes
  <2>2. op[a].pc = "saveDeny" /\ op[a].pc \notin FacetsWaiting
    BY <1>8 DEF F!DenyReads, FacetsWaiting
  <2>3. seen \in [all : SUBSET Keys, deny : SUBSET Keys, kept : SUBSET Keys]
    BY <1>1, <2>2 DEF FacetsOpTyped, FacetsSeenAt
  <2>4. FacetsOpTyped(a, o)
    <3>. HIDE DEF seen
    <3>. QED
      BY <1>1, <2>1, <2>2, <2>3 DEF FacetsOpTyped, FacetsSeenAt, FacetsWaiting, FacetsListed,
         FacetsTwice
  <2>5. a \in Admins => (o.pc \notin FacetsWaiting <=> facetsLock = a)
    BY <1>5, <2>1, <2>2 DEF FacetsWaiting
  <2>. QED BY <1>1, <1>2, <1>8, <2>1, <2>4, <2>5, FacetsMovesMisread DEF F!DenyReads
<1>9. CASE F!Deny(a, f)
  <2>. DEFINE deny == IF op[a].kind = "add" THEN f.excluded \ op[a].keys
                      ELSE f.excluded \cup (op[a].seen \cap op[a].keys)
              seen == [all |-> op[a].seen, deny |-> deny]
  <2>1. op[a].pc = "deny" /\ op[a].pc \notin FacetsWaiting
    BY <1>9 DEF F!Deny, FacetsWaiting
  <2>2. /\ op[a].kind \in {"set", "add", "remove"} /\ op[a].seen \in SUBSET Keys
        /\ op[a].keys \in SUBSET Keys
    BY <1>1, <2>1 DEF FacetsOpTyped, FacetsSeenAt, FacetsWaiting, FacetsListed, F!Actors
  <2>3. CASE F!Finished(a)
    <3>1. F!Ends(a) /\ (a \notin Admins => UNCHANGED <<serial, removed>>)
      BY <2>3 DEF F!Finished
    <3>2. a \in Admins =>
            /\ serial' = F!Serially(op[a].kind, op[a].keys, serial)
            /\ removed' = IF op[a].kind = "remove" THEN removed \cup (op[a].seen \cap op[a].keys)
                 ELSE removed
      BY <2>3 DEF F!Finished
    <3>3. serial \in FacetsLists /\ serial.facetable \in SUBSET Keys
          /\ serial.excluded \in SUBSET Keys /\ removed \in SUBSET Keys
      BY <1>1, FacetsRegistryIsListed DEF FacetsTyped
    <3>4. serial' \in FacetsLists /\ removed' \in SUBSET Keys
      BY <2>2, <3>1, <3>2, <3>3 DEF F!Serially, FacetsLists
    <3>. QED BY <1>2, <2>1, <3>1, <3>4, FacetsEndsKeeps
  <2>4. CASE op[a].kind # "set" /\ F!Goes(a, "saveDeny", seen)
               /\ UNCHANGED <<facetsLock, removed, serial>>
    <3>1. PICK o : /\ op' = [op EXCEPT ![a] = o] /\ o.pc = "saveDeny" /\ o.kind = op[a].kind
                   /\ o.keys = op[a].keys
                   /\ o.seen = seen /\ o.late = op[a].late /\ op[a].late \in BOOLEAN
                   /\ o = [pc |-> o.pc, kind |-> o.kind, keys |-> o.keys, seen |-> o.seen,
                        late |-> o.late]
      BY <1>1, <2>4, FacetsOpFields DEF F!Goes
    <3>2. seen \in [all : SUBSET Keys, deny : SUBSET Keys]
      <4>1. deny \in SUBSET Keys
        BY <1>1, <2>2
      <4>. HIDE DEF deny
      <4>. QED BY <2>2, <4>1
    <3>3. FacetsOpTyped(a, o)
      <4>. HIDE DEF seen
      <4>. QED
        BY <1>1, <2>1, <2>4, <3>1, <3>2 DEF FacetsOpTyped, FacetsSeenAt, FacetsWaiting,
           FacetsListed, FacetsTwice
    <3>4. a \in Admins => (o.pc \notin FacetsWaiting <=> facetsLock = a)
      BY <1>5, <2>1, <3>1 DEF FacetsWaiting
    <3>. QED BY <1>1, <1>2, <2>4, <3>1, <3>3, <3>4, FacetsMovesMisread
  <2>. QED BY <1>9, <2>2, <2>3, <2>4 DEF F!Deny
<1>. QED BY <1>3, <1>4, <1>6, <1>7, <1>8, <1>9 DEF FacetsReading

LEMMA FacetsStep ==
  ASSUME F!FacetsAssumption, FacetsInv, [F!Next]_facetsVars
  PROVE  FacetsInv'
<1>1. ASSUME NEW a \in Admins, NEW kind \in {"set", "add", "remove"}, NEW keys \in SUBSET Keys,
             F!Request(a, kind, keys)
      PROVE  FacetsInv'
  <2>1. a \in F!Actors
    BY DEF F!Actors
  <2>. QED BY <1>1, <2>1, FacetsRequestKeeps
<1>2. ASSUME NEW a \in Syncs, NEW keys \in SUBSET Keys, F!Request(a, "sync", keys)
      PROVE  FacetsInv'
  <2>1. a \in F!Actors /\ a \notin Admins
    BY DEF F!Actors, F!FacetsAssumption
  <2>. QED BY <1>2, <2>1, FacetsRequestKeeps
<1>3. ASSUME NEW a \in F!Actors,
             \/ F!Acquire(a) \/ F!SaveWrites(a) \/ F!DenyWrites(a) \/ F!Over(a) \/ F!Fails(a)
      PROVE  FacetsInv'
  BY <1>3, FacetsAcquireKeeps, FacetsSaveWritesKeeps, FacetsDenyWritesKeeps, FacetsOverKeeps,
     FacetsFailsKeeps
<1>5. ASSUME NEW a \in F!Actors, NEW f \in {F!Loaded(facetsFile), F!Loaded(None)},
             FacetsReading(a, f)
      PROVE  FacetsInv'
  <2>1. CASE f = F!Loaded(facetsFile)
    BY <1>5, <2>1, FacetsSyncReadsKeeps, FacetsSyncChecksKeeps, FacetsLoadKeeps,
       FacetsSaveReadsKeeps, FacetsDenyKeeps, FacetsDenyReadsKeeps DEF FacetsReading
  <2>2. CASE f # F!Loaded(facetsFile)
    BY <1>5, <2>2, FacetsMisreadKeeps
  <2>. QED BY <2>1, <2>2
<1>4. CASE UNCHANGED facetsVars
  <2>1. FacetsTyped'
    BY <1>4 DEF facetsVars, FacetsInv, FacetsTyped, FacetsOpTyped, FacetsSeenAt, FacetsWaiting
  <2>2. (~overtaken => FacetsUndisturbed)'
    BY <1>4 DEF facetsVars, FacetsInv, FacetsUndisturbed, FacetsHolderReads, FacetsSyncReadsOK,
       FacetsBefore, FacetsDenied, F!Loaded
  <2>3. (alone => FacetsInTurn)'
    BY <1>4 DEF facetsVars, FacetsInv, FacetsInTurn, FacetsHolderMakes, FacetsBefore, F!Loaded,
       F!Serially
  <2>. QED BY <2>1, <2>2, <2>3 DEF FacetsInv
<1>. QED BY <1>1, <1>2, <1>3, <1>4, <1>5, FacetsCrashKeeps DEF F!Next, FacetsReading

LEMMA FacetsInvImplies ==
  ASSUME FacetsInv
  PROVE  F!RequestsSerialised /\ F!RemovedStaysOut
BY DEF FacetsInv, FacetsInTurn, FacetsUndisturbed, F!RequestsSerialised, F!RemovedStaysOut

-----------------------------------------------------------------------------
(* A study's filters: what a merge is about to write is made of what the chunks  *)
(* have, what a backfill is about to write is what the rows have, and one job    *)
(* at most is between the study and its chunks, unless the histories know it.    *)

\* What a job carries, at each point.
FiltersJobTyped(o) ==
  /\ o = [pc |-> o.pc, key |-> o.key, f |-> o.f, body |-> o.body]
  /\ o.pc \in {"idle", "read", "merge", "sync", "fetch", "rewrite", "chunks", "delete", "load",
               "index", "scan", "facets"}
  /\ o.pc = "idle" => o = T!Idle
  /\ o.pc # "idle" => o.key \in T!JobKeys \cup Batches
  /\ o.pc \in {"merge", "sync", "rewrite", "chunks", "index", "facets"} => o.f \in T!Filter
  /\ o.pc \in {"read", "merge"} => o.body \in T!Patches
  /\ o.pc \in {"delete", "load", "index"} => o.body \in T!Filter \cup {None}
  /\ o.pc \in {"scan", "facets"} => backend = "qdrant"
  /\ o.pc \in {"fetch", "rewrite", "chunks"} => backend = "opensearch"
  /\ o.pc \in {"merge", "sync", "read", "delete", "load", "index"} => o.key # "scheduler"

FiltersTyped ==
  /\ backend \in {"qdrant", "opensearch"} /\ record \in T!Filter /\ indexed \in BOOLEAN
  /\ rows \in IF backend = "qdrant" /\ indexed THEN T!Filter ELSE {None}
  /\ facets \in IF indexed THEN T!Filter \cup {None} ELSE {None}
  /\ studyFacets \in IF backend = "opensearch" /\ indexed THEN T!Filter \cup {None} ELSE {None}
  /\ DOMAIN job = Jobs /\ \A j \in Jobs : FiltersJobTyped(job[j])
  /\ \A i, j \in Jobs : job[i].key = job[j].key => i = j \/ job[i] = T!Idle
  /\ crossed \in BOOLEAN /\ refilled \in BOOLEAN /\ torn \in BOOLEAN

FiltersCurrent == T!OrNothing(IF backend = "qdrant" THEN rows ELSE facets)

\* What a merge is about to write is made of what the chunks have, and (on Qdrant) they have
\* what was asked for.
FiltersMergesTrue ==
  /\ backend = "qdrant" /\ indexed => merged = FiltersCurrent
  /\ \A j \in Jobs : job[j].pc = "merge" => job[j].f = T!Merged(FiltersCurrent, job[j].body)

\* So is what the backfill is about to write.
FiltersBackfillTrue ==
  backend = "qdrant" =>
    /\ facets \in {None, rows}
    /\ \A j \in Jobs : job[j].pc = "facets" => indexed /\ job[j].f = rows

\* One job at most is between the chunks and the study document, and with none they agree.
FiltersOneMidway ==
  /\ \A i, j \in Jobs : T!Midway(i) /\ T!Midway(j) => i = j
  /\ \A j \in Jobs : job[j].pc = "chunks" => studyFacets = job[j].f
  /\ studyFacets # None /\ (\A j \in Jobs : ~T!Midway(j)) => facets = studyFacets

FiltersInv ==
  /\ FiltersTyped
  /\ (~crossed => FiltersMergesTrue) /\ (~refilled => FiltersBackfillTrue)
       /\ (~torn => FiltersOneMidway)

FiltersMid(o) == o.pc = "chunks" \/ (o.pc \in {"fetch", "rewrite"} /\ o.key # "scheduler")

LEMMA FiltersMidwayIs ==
  ASSUME NEW j \in Jobs
  PROVE  T!Midway(j) <=> FiltersMid(job[j])
BY DEF T!Midway, FiltersMid

LEMMA FiltersMidwayIsNext ==
  ASSUME NEW j \in Jobs
  PROVE  T!Midway(j)' <=> FiltersMid(job'[j])
BY DEF T!Midway, FiltersMid

LEMMA FiltersRealKeys ==
  ASSUME T!FiltersAssumption, FiltersTyped, NEW j \in Jobs
  PROVE  /\ FiltersJobTyped(job[j]) /\ (job[j].pc = "idle" <=> job[j] = T!Idle)
         /\ job[j] # T!Idle => job[j].key # None
         /\ T!Idle.key = None /\ T!Idle.pc = "idle" /\ FiltersJobTyped(T!Idle)
         /\ ~FiltersMid(T!Idle)
BY DEF T!FiltersAssumption, FiltersTyped, FiltersJobTyped, T!Idle, FiltersMid

LEMMA FiltersJobFields ==
  ASSUME NEW j \in Jobs, NEW pc, NEW f, T!Does(j, pc, f)
  PROVE  \E o : /\ job' = [job EXCEPT ![j] = o] /\ o.pc = pc /\ o.key = job[j].key /\ o.f = f
                /\ o.body = job[j].body
                /\ o = [pc |-> o.pc, key |-> o.key, f |-> o.f, body |-> o.body]
<1>. DEFINE o == [pc |-> pc, key |-> job[j].key, f |-> f, body |-> job[j].body]
<1>1. job' = [job EXCEPT ![j] = o]
  BY DEF T!Does
<1>2. /\ o.pc = pc /\ o.key = job[j].key /\ o.f = f /\ o.body = job[j].body
      /\ o = [pc |-> o.pc, key |-> o.key, f |-> o.f, body |-> o.body]
  OBVIOUS
<1>. QED BY <1>1, <1>2

\* The types, whatever a job does.
LEMMA FiltersJobsTyped ==
  ASSUME T!FiltersAssumption, FiltersTyped, NEW j \in Jobs, NEW o, FiltersJobTyped(o),
         job' = [job EXCEPT ![j] = o], UNCHANGED backend,
         o = T!Idle \/ \A i \in Jobs \ {j} : job[i].key # o.key,
         record' \in T!Filter, indexed' \in BOOLEAN,
         rows' \in IF backend = "qdrant" /\ indexed' THEN T!Filter ELSE {None},
         facets' \in IF indexed' THEN T!Filter \cup {None} ELSE {None},
         studyFacets' \in IF backend = "opensearch" /\ indexed' THEN T!Filter \cup {None}
           ELSE {None},
         crossed' \in BOOLEAN, refilled' \in BOOLEAN, torn' \in BOOLEAN
  PROVE  FiltersTyped' /\ job'[j] = o /\ \A i \in Jobs \ {j} : job'[i] = job[i]
<1>1. DOMAIN job' = Jobs /\ job'[j] = o /\ \A i \in Jobs \ {j} : job'[i] = job[i]
  BY DEF FiltersTyped
<1>2. \A i \in Jobs : FiltersJobTyped(job'[i])
  BY <1>1 DEF FiltersTyped
<1>3. \A i \in Jobs : FiltersJobTyped(job[i])'
  BY <1>2 DEF FiltersJobTyped, T!Idle
<1>4. \A i, k \in Jobs : job'[i].key = job'[k].key => i = k \/ job'[i] = T!Idle
  <2>. SUFFICES ASSUME NEW i \in Jobs, NEW k \in Jobs, job'[i].key = job'[k].key, i # k
                PROVE  job'[i] = T!Idle
    OBVIOUS
  <2>1. CASE i # j /\ k # j
    BY <1>1, <2>1 DEF FiltersTyped
  <2>2. CASE i = j
    <3>1. o = T!Idle \/ job[k].key # o.key
      BY <2>2
    <3>. QED BY <1>1, <2>2, <3>1
  <2>3. CASE k = j
    <3>1. o = T!Idle
      BY <1>1, <2>3
    <3>2. job[i].key = None
      BY <1>1, <2>3, <3>1, FiltersRealKeys
    <3>. QED BY <1>1, <2>3, <3>2, FiltersRealKeys
  <2>. QED BY <2>1, <2>2, <2>3
<1>. QED BY <1>1, <1>3, <1>4 DEF FiltersTyped, T!Idle

\* A job moves on and writes nothing; it may end, and leave things torn.
LEMMA FiltersMovesQuietly ==
  ASSUME T!FiltersAssumption, FiltersInv, NEW j \in Jobs, NEW o, FiltersJobTyped(o),
         job' = [job EXCEPT ![j] = o],
         o = T!Idle \/ \A i \in Jobs \ {j} : job[i].key # o.key,
         UNCHANGED <<backend, record, indexed, rows, facets, studyFacets, merged, crossed,
           refilled>>,
         torn' \in BOOLEAN, torn => torn',
         o.pc = "merge" /\ ~crossed => o.f = T!Merged(FiltersCurrent, o.body),
         o.pc = "facets" /\ ~refilled => indexed /\ o.f = rows,
         ~torn' => /\ FiltersMid(o) => FiltersMid(job[j])
                   /\ studyFacets # None /\ FiltersMid(job[j]) => FiltersMid(o)
                   /\ o.pc = "chunks" => studyFacets = o.f
  PROVE  FiltersInv'
<1>0. FiltersTyped /\ (~crossed => FiltersMergesTrue) /\ (~refilled => FiltersBackfillTrue)
        /\ (~torn => FiltersOneMidway)
  BY DEF FiltersInv
<1>1. FiltersTyped' /\ job'[j] = o /\ \A i \in Jobs \ {j} : job'[i] = job[i]
  <2>1. /\ record' \in T!Filter /\ indexed' \in BOOLEAN
        /\ rows' \in IF backend = "qdrant" /\ indexed' THEN T!Filter ELSE {None}
        /\ facets' \in IF indexed' THEN T!Filter \cup {None} ELSE {None}
        /\ studyFacets' \in IF backend = "opensearch" /\ indexed' THEN T!Filter \cup {None}
             ELSE {None}
        /\ crossed' \in BOOLEAN /\ refilled' \in BOOLEAN /\ backend' = backend
    BY <1>0 DEF FiltersTyped
  <2>. QED BY <1>0, <2>1, FiltersJobsTyped
<1>2. FiltersCurrent' = FiltersCurrent
  BY DEF FiltersCurrent, T!OrNothing, T!Nothing
<1>3. (~crossed => FiltersMergesTrue)'
  BY <1>0, <1>1, <1>2 DEF FiltersMergesTrue, T!Merged
<1>4. (~refilled => FiltersBackfillTrue)'
  BY <1>0, <1>1 DEF FiltersBackfillTrue
<1>5. (~torn => FiltersOneMidway)'
  <2>. SUFFICES ASSUME ~torn' PROVE FiltersOneMidway'
    OBVIOUS
  <2>0. FiltersOneMidway /\ \A i \in Jobs : /\ T!Midway(i) <=> FiltersMid(job[i])
                                            /\ T!Midway(i)' <=> FiltersMid(job'[i])
    BY <1>0, FiltersMidwayIs, FiltersMidwayIsNext
  <2>1. \A i \in Jobs : FiltersMid(job'[i]) => FiltersMid(job[i])
    BY <1>1
  <2>2. \A i, k \in Jobs : T!Midway(i)' /\ T!Midway(k)' => i = k
    BY <2>0, <2>1 DEF FiltersOneMidway
  <2>3. \A i \in Jobs : job'[i].pc = "chunks" => studyFacets' = job'[i].f
    BY <1>1, <2>0 DEF FiltersOneMidway
  <2>4. ASSUME studyFacets' # None, \A i \in Jobs : ~T!Midway(i)' PROVE facets' = studyFacets'
    <3>1. \A i \in Jobs : ~FiltersMid(job[i])
      BY <1>1, <2>0, <2>4
    <3>. QED BY <2>0, <2>4, <3>1 DEF FiltersOneMidway
  <2>. QED BY <2>2, <2>3, <2>4 DEF FiltersOneMidway
<1>. QED BY <1>1, <1>3, <1>4, <1>5 DEF FiltersInv

\* A job writes: whom it crosses is known to the histories.
LEMMA FiltersWrites ==
  ASSUME T!FiltersAssumption, FiltersInv, NEW j \in Jobs, NEW o, FiltersJobTyped(o),
         job[j] # T!Idle,
         job' = [job EXCEPT ![j] = o], o = T!Idle \/ o.key = job[j].key, T!Crosses(j),
         UNCHANGED <<backend, record>>, indexed' \in BOOLEAN,
         rows' \in IF backend = "qdrant" /\ indexed' THEN T!Filter ELSE {None},
         facets' \in IF indexed' THEN T!Filter \cup {None} ELSE {None},
         studyFacets' \in IF backend = "opensearch" /\ indexed' THEN T!Filter \cup {None}
           ELSE {None},
         o.pc \notin {"merge", "facets"},
         ~crossed' /\ backend = "qdrant" => (indexed' => merged' = FiltersCurrent'),
         ~refilled' /\ backend = "qdrant" => facets' \in {None, rows'},
         ~torn' => /\ o.pc = "chunks" => studyFacets' = o.f
                   /\ studyFacets' # None /\ ~FiltersMid(o) => facets' = studyFacets'
  PROVE  FiltersInv'
<1>0. FiltersTyped /\ (~crossed => FiltersMergesTrue) /\ (~refilled => FiltersBackfillTrue)
        /\ (~torn => FiltersOneMidway)
  BY DEF FiltersInv
<1>1. \A i \in Jobs \ {j} : job[i].key # job[j].key
  BY <1>0, FiltersRealKeys DEF FiltersTyped
<1>2. FiltersTyped' /\ job'[j] = o /\ \A i \in Jobs \ {j} : job'[i] = job[i]
  <2>1. record' \in T!Filter /\ backend' = backend
    BY <1>0 DEF FiltersTyped
  <2>2. crossed' \in BOOLEAN /\ refilled' \in BOOLEAN /\ torn' \in BOOLEAN
    BY <1>0 DEF FiltersTyped, T!Crosses
  <2>3. o = T!Idle \/ \A i \in Jobs \ {j} : job[i].key # o.key
    BY <1>1
  <2>. QED BY <1>0, <2>1, <2>2, <2>3, FiltersJobsTyped
<1>3. (~crossed => FiltersMergesTrue)'
  <2>1. ~crossed' => \A i \in Jobs \ {j} : job[i].pc # "merge"
    BY <1>1 DEF T!Crosses
  <2>. QED BY <1>2, <2>1 DEF FiltersMergesTrue
<1>4. (~refilled => FiltersBackfillTrue)'
  <2>1. ~refilled' => \A i \in Jobs \ {j} : job[i].pc # "facets"
    BY DEF T!Crosses
  <2>. QED BY <1>2, <2>1 DEF FiltersBackfillTrue
<1>5. (~torn => FiltersOneMidway)'
  <2>. SUFFICES ASSUME ~torn' PROVE FiltersOneMidway'
    OBVIOUS
  <2>1. \A i \in Jobs \ {j} : ~FiltersMid(job[i])
    BY FiltersMidwayIs DEF T!Crosses
  <2>2. \A i \in Jobs \ {j} : ~FiltersMid(job'[i]) /\ job'[i].pc # "chunks"
    BY <1>2, <2>1 DEF FiltersMid
  <2>3. \A i \in Jobs : T!Midway(i)' <=> FiltersMid(job'[i])
    BY FiltersMidwayIsNext
  <2>. QED BY <1>2, <2>2, <2>3 DEF FiltersOneMidway
<1>. QED BY <1>2, <1>3, <1>4, <1>5 DEF FiltersInv

LEMMA FiltersSubmitKeeps ==
  ASSUME T!FiltersAssumption, FiltersInv, NEW j \in Jobs, NEW key, NEW pc, NEW f, NEW body,
         T!Submit(j, key, pc, f, body),
         FiltersJobTyped([pc |-> pc, key |-> key, f |-> f, body |-> body]),
         pc \in {"sync", "read", "delete", "scan"} \/ (pc = "fetch" /\ key = "scheduler")
  PROVE  FiltersInv'
<1>. DEFINE o == [pc |-> pc, key |-> key, f |-> f, body |-> body]
<1>1. job' = [job EXCEPT ![j] = o] /\ job[j] = T!Idle /\ \A i \in Jobs : job[i].key # key
  BY DEF T!Submit, T!Free
<1>2. o.pc = pc /\ o.key = key
  OBVIOUS
<1>3. ~FiltersMid(o) /\ ~FiltersMid(job[j]) /\ o.pc \notin {"merge", "facets", "chunks"}
  BY <1>1, <1>2 DEF FiltersMid, T!Idle
<1>4. torn' = torn /\ torn \in BOOLEAN
      /\ UNCHANGED <<backend, record, indexed, rows, facets, studyFacets, merged, crossed,
           refilled>>
  BY DEF T!Submit, FiltersInv, FiltersTyped
<1>5. FiltersJobTyped(o)
  OBVIOUS
<1>. HIDE DEF o
<1>. QED BY <1>1, <1>2, <1>3, <1>4, <1>5, FiltersMovesQuietly

LEMMA FiltersRequestKeeps ==
  ASSUME T!FiltersAssumption, FiltersInv, NEW j \in Jobs, T!Request(j)
  PROVE  FiltersInv'
<1>1. T!Nothing \in T!Filter
  BY DEF T!Nothing, T!Filter
<1>2. CASE T!Put(j)
  <2>1. PICK f \in Bodies : T!Submit(j, "filters", "sync", f, None)
    BY <1>2 DEF T!Put
  <2>2. FiltersJobTyped([pc |-> "sync", key |-> "filters", f |-> f, body |-> None])
    BY DEF FiltersJobTyped, T!JobKeys, T!FiltersAssumption
  <2>. QED BY <2>1, <2>2, FiltersSubmitKeeps
<1>3. CASE T!Clear(j)
  <2>1. FiltersJobTyped([pc |-> "sync", key |-> "filters", f |-> T!Nothing, body |-> None])
    BY <1>1 DEF FiltersJobTyped, T!JobKeys
  <2>. QED BY <1>3, <2>1, FiltersSubmitKeeps DEF T!Clear
<1>4. CASE T!Patch(j)
  <2>1. PICK patch \in T!Patches : T!Submit(j, "filters", "read", None, patch)
    BY <1>4 DEF T!Patch
  <2>2. FiltersJobTyped([pc |-> "read", key |-> "filters", f |-> None, body |-> patch])
    BY DEF FiltersJobTyped, T!JobKeys
  <2>. QED BY <2>1, <2>2, FiltersSubmitKeeps
<1>5. CASE T!Batch(j)
  <2>1. PICK key \in Batches, f \in Bodies : T!Submit(j, key, "sync", f, None)
    BY <1>5 DEF T!Batch
  <2>2. FiltersJobTyped([pc |-> "sync", key |-> key, f |-> f, body |-> None])
    BY DEF FiltersJobTyped, T!JobKeys, T!FiltersAssumption
  <2>. QED BY <2>1, <2>2, FiltersSubmitKeeps
<1>6. CASE T!Upsert(j)
  <2>1. PICK body \in Bodies \cup {None} : T!Submit(j, "content", "delete", None, body)
    BY <1>6 DEF T!Upsert
  <2>2. FiltersJobTyped([pc |-> "delete", key |-> "content", f |-> None, body |-> body])
    BY DEF FiltersJobTyped, T!JobKeys, T!FiltersAssumption
  <2>. QED BY <2>1, <2>2, FiltersSubmitKeeps
<1>7. CASE T!Backfill(j)
  <2>1. FiltersJobTyped([pc |-> "scan", key |-> "backfill", f |-> None, body |-> None])
    BY <1>7 DEF FiltersJobTyped, T!JobKeys, T!Backfill
  <2>. QED BY <1>7, <2>1, FiltersSubmitKeeps DEF T!Backfill
<1>8. CASE T!Options(j)
  <2>1. FiltersJobTyped([pc |-> "fetch", key |-> "scheduler", f |-> None, body |-> None])
    BY <1>8 DEF FiltersJobTyped, T!JobKeys, T!Options
  <2>. QED BY <1>8, <2>1, FiltersSubmitKeeps DEF T!Options
<1>. QED BY <1>2, <1>3, <1>4, <1>5, <1>6, <1>7, <1>8 DEF T!Request

LEMMA FiltersAtWork ==
  ASSUME T!FiltersAssumption, FiltersInv, NEW j \in Jobs, job[j].pc # "idle"
  PROVE  /\ FiltersTyped /\ FiltersJobTyped(job[j]) /\ job[j] # T!Idle /\ torn \in BOOLEAN
         /\ \A i \in Jobs \ {j} : job[i].key # job[j].key
         /\ ~crossed => FiltersMergesTrue
         /\ ~refilled => FiltersBackfillTrue
         /\ ~torn => FiltersOneMidway
<1>1. FiltersTyped /\ FiltersJobTyped(job[j]) /\ job[j] # T!Idle /\ torn \in BOOLEAN
  BY DEF FiltersInv, FiltersTyped, T!Idle
<1>2. \A i \in Jobs \ {j} : job[i].key # job[j].key
  BY <1>1, FiltersRealKeys DEF FiltersTyped
<1>. QED BY <1>1, <1>2 DEF FiltersInv

LEMMA FiltersMergedTyped ==
  ASSUME NEW f \in T!Filter, NEW patch \in T!Patches
  PROVE  T!Merged(f, patch) \in T!Filter
<1>1. PICK U \in {{k} : k \in Fields} : patch \in [U -> Values \cup {None}]
  BY DEF T!Patches
<1>2. \A k \in Fields : (IF k \in DOMAIN patch THEN patch[k] ELSE f[k]) \in Values \cup {None}
  BY <1>1 DEF T!Filter
<1>. QED BY <1>2 DEF T!Merged, T!Filter

LEMMA FiltersCurrentTyped ==
  ASSUME T!FiltersAssumption, FiltersTyped
  PROVE  /\ FiltersCurrent \in T!Filter /\ \A f \in T!Filter : T!OrNothing(f) = f
         /\ FiltersCurrent = T!OrNothing(IF backend = "qdrant" THEN rows ELSE facets)
<1>1. T!Nothing \in T!Filter
  BY DEF T!Nothing, T!Filter
<1>. QED BY <1>1 DEF T!FiltersAssumption, FiltersTyped, FiltersCurrent, T!OrNothing

LEMMA FiltersReadKeeps ==
  ASSUME T!FiltersAssumption, FiltersInv, NEW j \in Jobs, T!Read(j)
  PROVE  FiltersInv'
<1>0. job[j].pc = "read"
  BY DEF T!Read
<1>1. FiltersTyped /\ FiltersJobTyped(job[j]) /\ job[j] # T!Idle /\ torn \in BOOLEAN
      /\ \A i \in Jobs \ {j} : job[i].key # job[j].key
  BY <1>0, FiltersAtWork
<1>2. T!Does(j, "merge", T!Merged(FiltersCurrent, job[j].body))
  BY DEF T!Read, FiltersCurrent
<1>3. PICK o : /\ job' = [job EXCEPT ![j] = o] /\ o.pc = "merge" /\ o.key = job[j].key
               /\ o.f = T!Merged(FiltersCurrent, job[j].body) /\ o.body = job[j].body
               /\ o = [pc |-> o.pc, key |-> o.key, f |-> o.f, body |-> o.body]
  BY <1>2, FiltersJobFields
<1>4. FiltersJobTyped(o)
  <2>1. o.f \in T!Filter /\ o.body \in T!Patches
    BY <1>0, <1>1, <1>3, FiltersCurrentTyped, FiltersMergedTyped DEF FiltersJobTyped
  <2>. QED BY <1>0, <1>1, <1>3, <2>1 DEF FiltersJobTyped
<1>5. ~FiltersMid(o) /\ ~FiltersMid(job[j])
  BY <1>0, <1>3 DEF FiltersMid
<1>. QED BY <1>1, <1>3, <1>4, <1>5, FiltersMovesQuietly DEF T!Read

LEMMA FiltersFetchKeeps ==
  ASSUME T!FiltersAssumption, FiltersInv, NEW j \in Jobs, T!Fetch(j)
  PROVE  FiltersInv'
<1>0. job[j].pc = "fetch"
  BY DEF T!Fetch
<1>1. FiltersTyped /\ FiltersJobTyped(job[j]) /\ job[j] # T!Idle /\ torn \in BOOLEAN
      /\ \A i \in Jobs \ {j} : job[i].key # job[j].key
  BY <1>0, FiltersAtWork
<1>2. PICK o : /\ job' = [job EXCEPT ![j] = o] /\ o.pc = "rewrite" /\ o.key = job[j].key
               /\ o.f = record /\ o.body = job[j].body
               /\ o = [pc |-> o.pc, key |-> o.key, f |-> o.f, body |-> o.body]
  BY FiltersJobFields DEF T!Fetch
<1>3. FiltersJobTyped(o)
  BY <1>0, <1>1, <1>2 DEF FiltersJobTyped, FiltersTyped
<1>4. FiltersMid(o) <=> FiltersMid(job[j])
  BY <1>0, <1>2 DEF FiltersMid
<1>. QED BY <1>1, <1>2, <1>3, <1>4, FiltersMovesQuietly DEF T!Fetch

LEMMA FiltersLoadKeeps ==
  ASSUME T!FiltersAssumption, FiltersInv, NEW j \in Jobs, T!Load(j)
  PROVE  FiltersInv'
<1>0. job[j].pc = "load"
  BY DEF T!Load
<1>1. FiltersTyped /\ FiltersJobTyped(job[j]) /\ job[j] # T!Idle /\ torn \in BOOLEAN
      /\ \A i \in Jobs \ {j} : job[i].key # job[j].key
  BY <1>0, FiltersAtWork
<1>2. PICK o : /\ job' = [job EXCEPT ![j] = o] /\ o.pc = "index" /\ o.key = job[j].key
               /\ o.f = record /\ o.body = job[j].body
               /\ o = [pc |-> o.pc, key |-> o.key, f |-> o.f, body |-> o.body]
  BY FiltersJobFields DEF T!Load
<1>3. FiltersJobTyped(o)
  BY <1>0, <1>1, <1>2 DEF FiltersJobTyped, FiltersTyped
<1>4. ~FiltersMid(o) /\ ~FiltersMid(job[j])
  BY <1>0, <1>2 DEF FiltersMid
<1>. QED BY <1>1, <1>2, <1>3, <1>4, FiltersMovesQuietly DEF T!Load

\* A job ends and writes nothing.
LEMMA FiltersEndsQuietly ==
  ASSUME T!FiltersAssumption, FiltersInv, NEW j \in Jobs, job[j].pc # "idle", T!Ends(j),
         UNCHANGED <<backend, record, indexed, rows, facets, studyFacets, merged, crossed,
           refilled>>,
         torn' \in BOOLEAN, torn => torn', ~torn' /\ studyFacets # None => ~FiltersMid(job[j])
  PROVE  FiltersInv'
<1>1. FiltersJobTyped(T!Idle) /\ ~FiltersMid(T!Idle) /\ T!Idle.pc = "idle"
  BY FiltersRealKeys DEF FiltersInv
<1>. QED BY <1>1, FiltersMovesQuietly DEF T!Ends

LEMMA FiltersScanKeeps ==
  ASSUME T!FiltersAssumption, FiltersInv, NEW j \in Jobs, T!Scan(j)
  PROVE  FiltersInv'
<1>0. job[j].pc = "scan"
  BY DEF T!Scan
<1>1. FiltersTyped /\ FiltersJobTyped(job[j]) /\ job[j] # T!Idle /\ torn \in BOOLEAN
      /\ \A i \in Jobs \ {j} : job[i].key # job[j].key
  BY <1>0, FiltersAtWork
<1>2. CASE T!Ends(j)
  BY <1>0, <1>1, <1>2, FiltersEndsQuietly DEF T!Scan, FiltersMid
<1>3. CASE indexed /\ T!Does(j, "facets", rows)
  <2>1. PICK o : /\ job' = [job EXCEPT ![j] = o] /\ o.pc = "facets" /\ o.key = job[j].key
                 /\ o.f = rows /\ o.body = job[j].body
                 /\ o = [pc |-> o.pc, key |-> o.key, f |-> o.f, body |-> o.body]
    BY <1>3, FiltersJobFields
  <2>2. FiltersJobTyped(o)
    BY <1>0, <1>1, <1>3, <2>1 DEF FiltersJobTyped, FiltersTyped
  <2>3. ~FiltersMid(o) /\ ~FiltersMid(job[j])
    BY <1>0, <2>1 DEF FiltersMid
  <2>. QED BY <1>1, <1>3, <2>1, <2>2, <2>3, FiltersMovesQuietly DEF T!Scan
<1>. QED BY <1>2, <1>3 DEF T!Scan

LEMMA FiltersFailsKeeps ==
  ASSUME T!FiltersAssumption, FiltersInv, NEW j \in Jobs, T!Fails(j)
  PROVE  FiltersInv'
<1>1. job[j].pc # "idle" /\ torn \in BOOLEAN
  BY FiltersRealKeys DEF T!Fails, FiltersInv, FiltersTyped
<1>2. T!Midway(j) <=> FiltersMid(job[j])
  BY FiltersMidwayIs
<1>. QED BY <1>1, <1>2, FiltersEndsQuietly DEF T!Fails

LEMMA FiltersRewriteKeeps ==
  ASSUME T!FiltersAssumption, FiltersInv, NEW j \in Jobs, T!Rewrite(j)
  PROVE  FiltersInv'
<1>0. job[j].pc = "rewrite"
  BY DEF T!Rewrite
<1>1. FiltersTyped /\ FiltersJobTyped(job[j]) /\ job[j] # T!Idle /\ torn \in BOOLEAN
      /\ (~crossed => FiltersMergesTrue) /\ (~refilled => FiltersBackfillTrue)
  BY <1>0, FiltersAtWork
<1>2. CASE studyFacets = None
  BY <1>0, <1>1, <1>2, FiltersEndsQuietly DEF T!Rewrite
<1>3. CASE studyFacets # None
  <2>1. PICK o : /\ job' = [job EXCEPT ![j] = o] /\ o.pc = "chunks" /\ o.key = job[j].key
                 /\ o.f = job[j].f /\ o.body = job[j].body
                 /\ o = [pc |-> o.pc, key |-> o.key, f |-> o.f, body |-> o.body]
    BY <1>3, FiltersJobFields DEF T!Rewrite, T!GoesTo
  <2>2. FiltersJobTyped(o) /\ job[j].f \in T!Filter
    BY <1>0, <1>1, <2>1 DEF FiltersJobTyped
  <2>3. studyFacets' = o.f /\ T!Crosses(j) /\ FiltersMid(o)
        /\ UNCHANGED <<backend, record, indexed, rows, facets, asks, merged>>
    BY <1>3, <2>1 DEF T!Rewrite, FiltersMid
  <2>4. /\ indexed' \in BOOLEAN
        /\ rows' \in IF backend = "qdrant" /\ indexed' THEN T!Filter ELSE {None}
        /\ facets' \in IF indexed' THEN T!Filter \cup {None} ELSE {None}
        /\ studyFacets' \in IF backend = "opensearch" /\ indexed' THEN T!Filter \cup {None}
             ELSE {None}
    BY <1>1, <1>3, <2>1, <2>2, <2>3 DEF FiltersTyped
  <2>5. backend # "qdrant"
    BY <1>0, <1>1 DEF FiltersJobTyped
  <2>6. ~refilled' /\ backend = "qdrant" => facets' \in {None, rows'}
    BY <1>1, <2>3 DEF T!Crosses, FiltersBackfillTrue
  <2>. QED BY <1>1, <2>1, <2>2, <2>3, <2>4, <2>5, <2>6, FiltersWrites
<1>. QED BY <1>2, <1>3

LEMMA FiltersRewriteChunksKeeps ==
  ASSUME T!FiltersAssumption, FiltersInv, NEW j \in Jobs, T!RewriteChunks(j)
  PROVE  FiltersInv'
<1>0. job[j].pc = "chunks"
  BY DEF T!RewriteChunks
<1>1. FiltersTyped /\ FiltersJobTyped(job[j]) /\ job[j] # T!Idle /\ torn \in BOOLEAN
      /\ (~crossed => FiltersMergesTrue) /\ (~refilled => FiltersBackfillTrue)
           /\ (~torn => FiltersOneMidway)
  BY <1>0, FiltersAtWork
<1>2. FiltersJobTyped(T!Idle) /\ ~FiltersMid(T!Idle) /\ T!Idle.pc = "idle"
      /\ job[j].f \in T!Filter
  BY <1>0, <1>1, FiltersRealKeys DEF FiltersJobTyped
<1>3. /\ job' = [job EXCEPT ![j] = T!Idle] /\ T!Crosses(j)
      /\ UNCHANGED <<backend, record, indexed, studyFacets>>
      /\ facets' = IF indexed THEN job[j].f ELSE facets
      /\ rows' = IF indexed /\ backend = "qdrant" THEN job[j].f ELSE rows
  BY DEF T!RewriteChunks, T!Stored, T!Ends
<1>4. /\ indexed' \in BOOLEAN
      /\ rows' \in IF backend = "qdrant" /\ indexed' THEN T!Filter ELSE {None}
      /\ facets' \in IF indexed' THEN T!Filter \cup {None} ELSE {None}
      /\ studyFacets' \in IF backend = "opensearch" /\ indexed' THEN T!Filter \cup {None}
           ELSE {None}
  BY <1>1, <1>2, <1>3 DEF FiltersTyped
<1>5. backend # "qdrant"
  BY <1>0, <1>1 DEF FiltersJobTyped
<1>6. ~refilled' /\ backend = "qdrant" => facets' \in {None, rows'}
  BY <1>5
<1>7. ~torn' /\ studyFacets' # None => facets' = studyFacets'
  <2>1. studyFacets # None => indexed
    BY <1>1 DEF FiltersTyped
  <2>. QED BY <1>0, <1>1, <1>3, <2>1 DEF T!Crosses, FiltersOneMidway
<1>. QED BY <1>1, <1>2, <1>3, <1>4, <1>5, <1>6, <1>7, FiltersWrites

LEMMA FiltersSyncKeeps ==
  ASSUME T!FiltersAssumption, FiltersInv, NEW j \in Jobs, T!Sync(j)
  PROVE  FiltersInv'
<1>0. job[j].pc \in {"sync", "merge"}
  BY DEF T!Sync
<1>1. FiltersTyped /\ FiltersJobTyped(job[j]) /\ job[j] # T!Idle /\ torn \in BOOLEAN
      /\ (~crossed => FiltersMergesTrue) /\ (~refilled => FiltersBackfillTrue)
           /\ (~torn => FiltersOneMidway)
  BY <1>0, FiltersAtWork
<1>2. job[j].f \in T!Filter /\ job[j].key # "scheduler"
  BY <1>0, <1>1 DEF FiltersJobTyped
<1>3. /\ T!Crosses(j) /\ UNCHANGED <<backend, record, indexed, studyFacets>>
      /\ facets' = IF indexed THEN job[j].f ELSE facets
      /\ rows' = IF indexed /\ backend = "qdrant" THEN job[j].f ELSE rows
      /\ merged' = IF ~indexed THEN merged
                   ELSE IF job[j].pc = "merge" THEN T!Merged(merged, job[j].body) ELSE job[j].f
  BY DEF T!Sync, T!Stored
<1>4. \E o : /\ job' = [job EXCEPT ![j] = o] /\ (o = T!Idle \/ o.key = job[j].key)
                  /\ FiltersJobTyped(o)
             /\ o.pc \notin {"merge", "facets", "chunks"} /\ (studyFacets # None => FiltersMid(o))
  <2>1. CASE studyFacets = None
    <3>1. job' = [job EXCEPT ![j] = T!Idle]
      BY <2>1 DEF T!Sync, T!Ends
    <3>. QED BY <1>1, <2>1, <3>1, FiltersRealKeys
  <2>2. CASE studyFacets # None
    <3>1. PICK o : /\ job' = [job EXCEPT ![j] = o] /\ o.pc = "fetch" /\ o.key = job[j].key
                   /\ o.f = job[j].f /\ o.body = job[j].body
                   /\ o = [pc |-> o.pc, key |-> o.key, f |-> o.f, body |-> o.body]
      BY <2>2, FiltersJobFields DEF T!Sync, T!GoesTo
    <3>2. FiltersJobTyped(o)
      BY <1>0, <1>1, <2>2, <3>1 DEF FiltersJobTyped, FiltersTyped
    <3>3. FiltersMid(o)
      BY <1>2, <3>1 DEF FiltersMid
    <3>. QED BY <3>1, <3>2, <3>3
  <2>. QED BY <2>1, <2>2
<1>5. PICK o : /\ job' = [job EXCEPT ![j] = o] /\ (o = T!Idle \/ o.key = job[j].key)
                    /\ FiltersJobTyped(o)
               /\ o.pc \notin {"merge", "facets", "chunks"} /\ (studyFacets # None => FiltersMid(o))
  BY <1>4
<1>6. /\ indexed' \in BOOLEAN
      /\ rows' \in IF backend = "qdrant" /\ indexed' THEN T!Filter ELSE {None}
      /\ facets' \in IF indexed' THEN T!Filter \cup {None} ELSE {None}
      /\ studyFacets' \in IF backend = "opensearch" /\ indexed' THEN T!Filter \cup {None}
           ELSE {None}
  BY <1>1, <1>2, <1>3 DEF FiltersTyped
<1>7. ASSUME ~crossed', backend = "qdrant", indexed' PROVE merged' = FiltersCurrent'
  <2>1. indexed /\ FiltersMergesTrue /\ merged = FiltersCurrent
    BY <1>1, <1>3, <1>7 DEF T!Crosses, FiltersMergesTrue
  <2>2. FiltersCurrent' = job[j].f
    BY <1>2, <1>3, <2>1, FiltersCurrentTyped, <1>1 DEF FiltersCurrent, T!OrNothing, T!Nothing
  <2>3. job[j].pc = "merge" => job[j].f = T!Merged(merged, job[j].body)
    BY <2>1 DEF FiltersMergesTrue
  <2>. QED BY <1>3, <2>1, <2>2, <2>3
<1>8. ~refilled' /\ backend = "qdrant" => facets' \in {None, rows'}
  BY <1>1, <1>3 DEF T!Crosses, FiltersBackfillTrue
<1>. QED BY <1>1, <1>3, <1>5, <1>6, <1>7, <1>8, FiltersWrites

LEMMA FiltersDeleteKeeps ==
  ASSUME T!FiltersAssumption, FiltersInv, NEW j \in Jobs, T!Delete(j)
  PROVE  FiltersInv'
<1>0. job[j].pc = "delete"
  BY DEF T!Delete
<1>1. FiltersTyped /\ FiltersJobTyped(job[j]) /\ job[j] # T!Idle
  BY <1>0, FiltersAtWork
<1>2. PICK o : /\ job' = [job EXCEPT ![j] = o] /\ o.pc = "load" /\ o.key = job[j].key
               /\ o.f = job[j].f /\ o.body = job[j].body
               /\ o = [pc |-> o.pc, key |-> o.key, f |-> o.f, body |-> o.body]
  BY FiltersJobFields DEF T!Delete, T!GoesTo
<1>3. FiltersJobTyped(o)
  BY <1>0, <1>1, <1>2 DEF FiltersJobTyped
<1>4. /\ indexed' = FALSE /\ rows' = None /\ facets' = None /\ studyFacets' = None /\ T!Crosses(j)
      /\ UNCHANGED <<backend, record>>
  BY DEF T!Delete
<1>. QED BY <1>1, <1>2, <1>3, <1>4, FiltersWrites

LEMMA FiltersIndexKeeps ==
  ASSUME T!FiltersAssumption, FiltersInv, NEW j \in Jobs, T!Index(j)
  PROVE  FiltersInv'
<1>0. job[j].pc = "index"
  BY DEF T!Index
<1>1. FiltersTyped /\ FiltersJobTyped(job[j]) /\ job[j] # T!Idle
  BY <1>0, FiltersAtWork
<1>2. job[j].f \in T!Filter /\ job[j].body \in T!Filter \cup {None}
  BY <1>0, <1>1 DEF FiltersJobTyped
<1>3. /\ indexed' = TRUE /\ facets' = job[j].f /\ merged' = job[j].f
      /\ rows' = IF backend = "qdrant" THEN job[j].f ELSE None
      /\ studyFacets' = IF backend = "opensearch" THEN job[j].f ELSE None
      /\ T!Crosses(j) /\ UNCHANGED <<backend, record>>
  BY DEF T!Index
<1>4. \E o : /\ job' = [job EXCEPT ![j] = o] /\ (o = T!Idle \/ o.key = job[j].key)
                  /\ FiltersJobTyped(o)
             /\ o.pc \notin {"merge", "facets", "chunks"}
  <2>1. CASE T!Ends(j)
    BY <1>1, <2>1, FiltersRealKeys DEF T!Ends
  <2>2. CASE job[j].body \notin {None, T!Nothing} /\ T!Does(j, "sync", job[j].body)
    <3>1. PICK o : /\ job' = [job EXCEPT ![j] = o] /\ o.pc = "sync" /\ o.key = job[j].key
                   /\ o.f = job[j].body /\ o.body = job[j].body
                   /\ o = [pc |-> o.pc, key |-> o.key, f |-> o.f, body |-> o.body]
      BY <2>2, FiltersJobFields
    <3>2. FiltersJobTyped(o)
      BY <1>0, <1>1, <1>2, <2>2, <3>1 DEF FiltersJobTyped
    <3>. QED BY <3>1, <3>2
  <2>. QED BY <2>1, <2>2 DEF T!Index
<1>5. PICK o : /\ job' = [job EXCEPT ![j] = o] /\ (o = T!Idle \/ o.key = job[j].key)
                    /\ FiltersJobTyped(o)
               /\ o.pc \notin {"merge", "facets", "chunks"}
  BY <1>4
<1>6. /\ indexed' \in BOOLEAN
      /\ rows' \in IF backend = "qdrant" /\ indexed' THEN T!Filter ELSE {None}
      /\ facets' \in IF indexed' THEN T!Filter \cup {None} ELSE {None}
      /\ studyFacets' \in IF backend = "opensearch" /\ indexed' THEN T!Filter \cup {None}
           ELSE {None}
  BY <1>1, <1>2, <1>3 DEF FiltersTyped
<1>7. merged' = FiltersCurrent'
  BY <1>1, <1>2, <1>3, FiltersCurrentTyped DEF FiltersCurrent, T!OrNothing, T!Nothing
<1>8. backend = "qdrant" => facets' \in {None, rows'}
  BY <1>3
<1>9. studyFacets' # None => facets' = studyFacets'
  BY <1>3
<1>. QED BY <1>1, <1>3, <1>5, <1>6, <1>7, <1>8, <1>9, FiltersWrites

LEMMA FiltersWriteFacetsKeeps ==
  ASSUME T!FiltersAssumption, FiltersInv, NEW j \in Jobs, T!WriteFacets(j)
  PROVE  FiltersInv'
<1>0. job[j].pc = "facets"
  BY DEF T!WriteFacets
<1>1. FiltersTyped /\ FiltersJobTyped(job[j]) /\ job[j] # T!Idle /\ torn \in BOOLEAN
      /\ (~crossed => FiltersMergesTrue) /\ (~refilled => FiltersBackfillTrue)
           /\ (~torn => FiltersOneMidway)
  BY <1>0, FiltersAtWork
<1>2. backend = "qdrant" /\ job[j].f \in T!Filter /\ studyFacets = None
  BY <1>0, <1>1 DEF FiltersJobTyped, FiltersTyped
<1>3. /\ job' = [job EXCEPT ![j] = T!Idle] /\ facets' = IF indexed THEN job[j].f ELSE facets
      /\ UNCHANGED <<backend, record, indexed, rows, studyFacets, asks, merged, crossed, refilled,
           torn>>
  BY DEF T!WriteFacets, T!Ends
<1>4. FiltersJobTyped(T!Idle) /\ ~FiltersMid(T!Idle) /\ T!Idle.pc = "idle"
  BY <1>1, FiltersRealKeys
<1>5. /\ record' \in T!Filter /\ indexed' \in BOOLEAN
      /\ rows' \in IF backend = "qdrant" /\ indexed' THEN T!Filter ELSE {None}
      /\ facets' \in IF indexed' THEN T!Filter \cup {None} ELSE {None}
      /\ studyFacets' \in IF backend = "opensearch" /\ indexed' THEN T!Filter \cup {None}
           ELSE {None}
      /\ crossed' \in BOOLEAN /\ refilled' \in BOOLEAN /\ torn' \in BOOLEAN /\ backend' = backend
  BY <1>1, <1>2, <1>3 DEF FiltersTyped
<1>6. FiltersTyped' /\ job'[j] = T!Idle /\ \A i \in Jobs \ {j} : job'[i] = job[i]
  BY <1>1, <1>3, <1>4, <1>5, FiltersJobsTyped
<1>7. FiltersCurrent' = FiltersCurrent
  BY <1>2, <1>3 DEF FiltersCurrent, T!OrNothing, T!Nothing
<1>8. (~crossed => FiltersMergesTrue)'
  BY <1>1, <1>3, <1>4, <1>6, <1>7 DEF FiltersMergesTrue, T!Merged
<1>9. (~refilled => FiltersBackfillTrue)'
  BY <1>0, <1>1, <1>2, <1>3, <1>4, <1>6 DEF FiltersBackfillTrue
<1>10. (~torn => FiltersOneMidway)'
  <2>1. \A i \in Jobs : (T!Midway(i) <=> FiltersMid(job[i]))
          /\ (T!Midway(i)' <=> FiltersMid(job'[i]))
    BY FiltersMidwayIs, FiltersMidwayIsNext
  <2>2. \A i \in Jobs : FiltersMid(job'[i]) => FiltersMid(job[i])
    BY <1>4, <1>6
  <2>. QED BY <1>1, <1>2, <1>3, <1>4, <1>6, <2>1, <2>2 DEF FiltersOneMidway
<1>. QED BY <1>6, <1>8, <1>9, <1>10 DEF FiltersInv

LEMMA FiltersCrashKeeps ==
  ASSUME T!FiltersAssumption, FiltersInv, T!Crash
  PROVE  FiltersInv'
<1>1. FiltersTyped /\ (~crossed => FiltersMergesTrue) /\ (~refilled => FiltersBackfillTrue)
        /\ (~torn => FiltersOneMidway)
  BY DEF FiltersInv
<1>2. /\ job' = [j \in Jobs |-> T!Idle] /\ torn' = (torn \/ \E j \in Jobs : T!Midway(j))
      /\ UNCHANGED <<backend, record, indexed, rows, facets, studyFacets, merged, crossed,
           refilled>>
  BY DEF T!Crash
<1>3. \A j \in Jobs : job'[j] = T!Idle
  BY <1>2
<1>4. FiltersJobTyped(T!Idle) /\ ~FiltersMid(T!Idle) /\ T!Idle.pc = "idle"
  BY DEF FiltersJobTyped, T!Idle, FiltersMid
<1>5. FiltersTyped'
  <2>1. \A j \in Jobs : FiltersJobTyped(job'[j])
    BY <1>3, <1>4
  <2>2. \A j \in Jobs : FiltersJobTyped(job[j])'
    BY <1>2, <2>1 DEF FiltersJobTyped, T!Idle
  <2>. QED BY <1>1, <1>2, <1>3, <2>2 DEF FiltersTyped, T!Idle
<1>6. FiltersCurrent' = FiltersCurrent
  BY <1>2 DEF FiltersCurrent, T!OrNothing, T!Nothing
<1>7. (~crossed => FiltersMergesTrue)'
  BY <1>1, <1>2, <1>3, <1>4, <1>6 DEF FiltersMergesTrue
<1>8. (~refilled => FiltersBackfillTrue)'
  BY <1>1, <1>2, <1>3, <1>4 DEF FiltersBackfillTrue
<1>9. (~torn => FiltersOneMidway)'
  BY <1>1, <1>2, <1>3, <1>4, FiltersMidwayIsNext DEF FiltersOneMidway
<1>. QED BY <1>5, <1>7, <1>8, <1>9 DEF FiltersInv

LEMMA FiltersChangeKeeps ==
  ASSUME T!FiltersAssumption, FiltersInv, T!Change
  PROVE  FiltersInv'
<1>1. FiltersTyped /\ (~crossed => FiltersMergesTrue) /\ (~refilled => FiltersBackfillTrue)
        /\ (~torn => FiltersOneMidway)
  BY DEF FiltersInv
<1>2. /\ record' \in T!Filter
      /\ UNCHANGED <<backend, indexed, rows, facets, studyFacets, job, merged, crossed, refilled,
           torn>>
  BY DEF T!Change, T!FiltersAssumption
<1>3. FiltersTyped'
  BY <1>1, <1>2 DEF FiltersTyped, FiltersJobTyped, T!Idle
<1>4. (~crossed => FiltersMergesTrue)'
  BY <1>1, <1>2 DEF FiltersMergesTrue, FiltersCurrent, T!OrNothing, T!Nothing, T!Merged
<1>5. (~refilled => FiltersBackfillTrue)'
  BY <1>1, <1>2 DEF FiltersBackfillTrue
<1>6. (~torn => FiltersOneMidway)'
  BY <1>1, <1>2 DEF FiltersOneMidway, T!Midway
<1>. QED BY <1>3, <1>4, <1>5, <1>6 DEF FiltersInv

LEMMA FiltersInitHolds ==
  ASSUME T!FiltersAssumption, T!Init
  PROVE  FiltersInv
<1>1. FiltersJobTyped(T!Idle) /\ ~FiltersMid(T!Idle) /\ T!Idle.pc = "idle"
        /\ \A j \in Jobs : job[j] = T!Idle
  BY DEF FiltersJobTyped, T!Idle, FiltersMid, T!Init
<1>2. FiltersTyped
  BY <1>1 DEF T!Init, FiltersTyped, T!FiltersAssumption
<1>3. FiltersMergesTrue
  BY <1>1 DEF T!Init, FiltersMergesTrue, FiltersCurrent
<1>4. FiltersBackfillTrue
  BY <1>1 DEF T!Init, FiltersBackfillTrue
<1>5. FiltersOneMidway
  BY <1>1, FiltersMidwayIs DEF T!Init, FiltersOneMidway
<1>. QED BY <1>2, <1>3, <1>4, <1>5 DEF FiltersInv

LEMMA FiltersStep ==
  ASSUME T!FiltersAssumption, FiltersInv, [T!Next]_filterVars
  PROVE  FiltersInv'
<1>1. ASSUME NEW j \in Jobs, T!Request(j) \/ T!Step(j) \/ T!Fails(j)
      PROVE  FiltersInv'
  BY <1>1, FiltersRequestKeeps, FiltersFailsKeeps, FiltersReadKeeps, FiltersSyncKeeps,
     FiltersFetchKeeps, FiltersRewriteKeeps, FiltersRewriteChunksKeeps, FiltersDeleteKeeps,
     FiltersLoadKeeps, FiltersIndexKeeps, FiltersScanKeeps, FiltersWriteFacetsKeeps DEF T!Step
<1>2. CASE UNCHANGED filterVars
  <2>1. FiltersTyped'
    BY <1>2 DEF filterVars, FiltersInv, FiltersTyped, FiltersJobTyped, T!Idle
  <2>2. (~crossed => FiltersMergesTrue)'
    BY <1>2 DEF filterVars, FiltersInv, FiltersMergesTrue, FiltersCurrent, T!OrNothing,
       T!Nothing, T!Merged
  <2>3. (~refilled => FiltersBackfillTrue)'
    BY <1>2 DEF filterVars, FiltersInv, FiltersBackfillTrue
  <2>4. (~torn => FiltersOneMidway)'
    BY <1>2 DEF filterVars, FiltersInv, FiltersOneMidway, T!Midway
  <2>. QED BY <2>1, <2>2, <2>3, <2>4 DEF FiltersInv
<1>. QED BY <1>1, <1>2, FiltersCrashKeeps, FiltersChangeKeeps DEF T!Next

LEMMA FiltersInvImplies ==
  ASSUME T!FiltersAssumption, FiltersInv
  PROVE  T!TypeOK /\ T!MergesLoseNothing /\ T!FacetsFollowRows /\ T!ChunksFollowStudy
<1>1. T!TypeOK
  BY DEF FiltersInv, FiltersTyped, T!TypeOK
<1>2. T!MergesLoseNothing
  BY DEF FiltersInv, FiltersMergesTrue, T!MergesLoseNothing, FiltersCurrent
<1>3. T!FacetsFollowRows
  BY DEF FiltersInv, FiltersBackfillTrue, T!FacetsFollowRows
<1>4. T!ChunksFollowStudy
  BY DEF FiltersInv, FiltersOneMidway, T!ChunksFollowStudy
<1>. QED BY <1>1, <1>2, <1>3, <1>4

-----------------------------------------------------------------------------
(* The parts as one specification.                                               *)

\* Of the parts one runs, the one that was chosen at the start.
LEMMA PartRuns ==
  /\ ServicesInit =>
       /\ part = "gate" => Init
       /\ part = "facets" => F!Init
       /\ part = "keys" => K!Init
       /\ part = "generation" => I!Init
       /\ part = "filters" => T!Init
  /\ [ServicesNext]_servicesVars =>
       /\ part' = part
       /\ part = "gate" => [Next]_vars
       /\ part = "facets" => [F!Next]_facetsVars
       /\ part = "keys" => [K!Next]_keysVars
       /\ part = "generation" => [I!Next]_genVars
       /\ part = "filters" => [T!Next]_filterVars
<1>1. ServicesInit =>
        /\ part = "gate" => Init
        /\ part = "facets" => F!Init
        /\ part = "keys" => K!Init
        /\ part = "generation" => I!Init
        /\ part = "filters" => T!Init
  BY DEF ServicesInit
<1>2. ASSUME UNCHANGED servicesVars
      PROVE  UNCHANGED <<part, vars, facetsVars, keysVars, genVars, filterVars>>
  BY <1>2 DEF servicesVars
<1>3. ServicesNext =>
        /\ part' = part
        /\ part = "gate" => Next
        /\ part = "facets" => F!Next
        /\ part = "keys" => K!Next
        /\ part = "generation" => I!Next
        /\ part = "filters" => T!Next
  BY DEF ServicesNext
<1>. QED BY <1>1, <1>2, <1>3

\* The invariants of the parts, each of the part that runs.
PartsInv ==
  /\ part = "gate" => IInv
  /\ part = "facets" => FacetsInv
  /\ part = "keys" => KeysInv
  /\ part = "generation" => GenInv
  /\ part = "filters" => FiltersInv

LEMMA PartsHold == ServicesSpec => []PartsInv
<1>1. ServicesInit => PartsInv
  BY PartRuns, InitHolds, FacetsInitHolds, KeysInitHolds, GenInitHolds, FiltersInitHolds,
     GateAssumption, ServicesAssumption DEF ServicesAssumption, PartsInv
<1>2. PartsInv /\ [ServicesNext]_servicesVars => PartsInv'
  BY PartRuns, NextKeeps, FacetsStep, KeysNextKeeps, GenNextKeeps, FiltersStep,
     GateAssumption, ServicesAssumption DEF ServicesAssumption, PartsInv
<1>. QED BY <1>1, <1>2, PTL DEF ServicesSpec

\* A busy NADA is left alone for as long as it asks, a call that met the firewall sends nothing
\* more, no failed call goes unseen, and every request keeps its distance from the last.
THEOREM GateIsPolite == ServicesSpec => GatePolite
<1>1. PartsInv => (part = "gate" => RetryAfterKept /\ FirewallEndsCall /\ FailureIsSeen)
  BY DEF PartsInv, IInv, AskedIsKept, RetryAfterKept
<1>2. PartsInv /\ [ServicesNext]_servicesVars => [part = "gate" => KeepsGap]_vars
  BY PartRuns, StepKeepsGap, GateAssumption DEF PartsInv
<1>. QED BY <1>1, <1>2, PartsHold, PTL DEF ServicesSpec, GatePolite

\* Without syncs and interruptions requests lose nothing of each other's, however their steps
\* interleave; and a key an admin removed stays out until a request adds it, unless a sync
\* overlapped a request, a write was interrupted, or the file could not be read, so that the
\* defaults with an empty deny list were taken for it.
THEOREM RegistryIsSerial == ServicesSpec => []RegistryHolds
<1>1. PartsInv => RegistryHolds
  BY FacetsInvImplies DEF PartsInv, RegistryHolds
<1>. QED BY <1>1, PartsHold, PTL

\* An answered creation or revocation lasts, whatever else writes, fails or breaks, and who is
\* let in has a key that was in force while its request ran.
THEOREM KeysAreKept == ServicesSpec => []KeysHold
<1>1. PartsInv => KeysHold
  BY DEF PartsInv, KeysInv, KeysAnswersOK, KeysRoutesOK, KeysHold, K!AnsweredStays
<1>. QED BY <1>1, PartsHold, PTL

\* After a route or an ingest is through with the index, no request carries the generation
\* the index had before, whatever readers were under way.
THEOREM GenerationIsSent == ServicesSpec => []GenerationIsNew
<1>1. PartsInv => GenerationIsNew
  BY DEF PartsInv, GenInv, GenFresh, GenNow, GenerationIsNew, I!NewOneSent
<1>. QED BY <1>1, PartsHold, PTL

\* On Qdrant a merge of a study's filters loses no other request's, and the facets a search
\* filters by are those of the rows; on OpenSearch the chunks carry what the study's document
\* has, which is what NADA has of it and not what the requests asked for.
THEOREM FiltersAgree == ServicesSpec => []FiltersHold
<1>1. PartsInv => FiltersHold
  BY FiltersInvImplies, ServicesAssumption DEF ServicesAssumption, PartsInv, FiltersHold
<1>. QED BY <1>1, PartsHold, PTL

\* Type correctness of these parts: with it, that no two threads are past the gate's lock, and
\* that each file has one writer at most.
THEOREM PartsTyped ==
  ServicesSpec =>
    [](part \in {"gate", "facets", "keys", "generation", "filters"} => ServicesTypeOK)
<1>1. PartsInv /\ part = "gate" => TypeOK
  BY DEF PartsInv, IInv, Typed, Caller, Inside, TypeOK
<1>2. PartsInv /\ part = "facets" => F!TypeOK
  BY DEF PartsInv, FacetsInv, FacetsTyped, FacetsOpTyped, FacetsLists, F!TypeOK
<1>3. PartsInv /\ part = "keys" => K!TypeOK
  BY DEF PartsInv, KeysInv, KeysStoreOK, KeysWritersOK, KeysRoutesOK, K!TypeOK, KeysSaving
<1>4. PartsInv /\ part = "generation" => I!TypeOK
  BY DEF PartsInv, GenInv, GenTyped, I!TypeOK, GenValues
<1>5. PartsInv /\ part = "filters" => T!TypeOK
  BY FiltersInvImplies, ServicesAssumption DEF ServicesAssumption, PartsInv
<1>6. PartsInv =>
        (part \in {"gate", "facets", "keys", "generation", "filters"} => ServicesTypeOK)
  BY <1>1, <1>2, <1>3, <1>4, <1>5 DEF ServicesTypeOK
<1>. QED BY <1>6, PartsHold, PTL

-----------------------------------------------------------------------------
(* The walks that write the citation and variable indexes, for any citations,     *)
(* studies, variables, page size and jobs at once. WalksInv follows a version of  *)
(* an object on its way from NADA's list to the index: whatever an operation has  *)
(* in its hands is what the catalog has, or a row of the queue stands for the     *)
(* object, or somebody began with an older reading and the histories know it. An  *)
(* import is through only with what it lost behind it, object by object in the    *)
(* order of the list. A study's variables that are replaced wait for their page,  *)
(* unless they are gone: those before the cursor are written.                     *)

WalksVersions == Nat \cup {None}
WalksTracked == Citations \cup Studies
WalksImporting == {"chunks", "studies", "citations", "report", "trigger"}

\* Variables are replaced; spoiled, with some of them not written.
WalksByPage == {"variables", "spoiled"}

\* What an operation is at, and what it holds there.
WalksOpTyped(a, o) ==
  /\ o = [key |-> o.key, pc |-> o.pc, at |-> o.at, hand |-> o.hand, stale |-> o.stale]
  /\ o.stale \subseteq DOMAIN o.hand /\ DOMAIN o.hand \subseteq W!Objects /\ o.at \in Nat
  /\ \A x \in DOMAIN o.hand : o.hand[x] \in WalksVersions
  /\ o.pc \notin {"write", "sync", "apply"} => o.stale = {}
  /\ a \in Workers =>
       /\ o.pc \in {"idle", "read", "write", "fetch", "sync"} \cup WalksImporting
       /\ o.pc \in WalksImporting <=> o.key = "search_index_import"
       /\ o.pc = "idle" => o = W!Idle
       /\ o.pc \in {"write", "sync"} => DOMAIN o.hand \cap Studies = {}
       /\ o.pc = "write" => DOMAIN o.hand # {}
  /\ a = Scheduler =>
       /\ o.pc \in {"idle", "fetch", "apply", "empty", "read", "write", "ack"}
       /\ o.pc # "idle" => o.key \in W!Acts \cup WalksByPage
       /\ o.pc # "idle" /\ o.key \notin WalksByPage =>
            o.pc \in {"fetch", "apply", "ack"} /\ o.at \in WalksTracked
       /\ o.pc # "idle" /\ o.key \in WalksByPage =>
            /\ o.pc # "apply" /\ DOMAIN o.hand \subseteq Variables
            /\ o.key = "spoiled" => o.pc \in {"read", "write"}
            /\ o.pc \in {"fetch", "empty"} => o.at = 0
            /\ o.pc = "write" => DOMAIN o.hand # {}
       /\ o.pc = "apply" => DOMAIN o.hand = {o.at}

WalksTyped ==
  /\ catalog \in [W!Objects -> WalksVersions] /\ held \in [W!Objects -> WalksVersions]
  /\ bare \subseteq {s \in Studies : held[s] # None}
  /\ belief \subseteq WalksTracked
  /\ queue \in [W!Objects -> [act : W!Acts, taken : BOOLEAN] \cup {None}]
  /\ DOMAIN walk = W!Actors /\ \A a \in W!Actors : WalksOpTyped(a, walk[a])
  /\ done \subseteq W!Objects /\ older \subseteq W!Objects
  /\ imported \in {"no", "under way", "yes"}

\* A row says what its object needs.
WalksRowsTrue ==
  \A o \in W!Objects : queue[o] # None =>
    /\ o \notin Variables => (queue[o].act = "delete" <=> catalog[o] = None)
    /\ o \in Variables <=> queue[o].act = "variables"
    /\ queue[o].act = "partial" => o \in Studies \ bare

\* The variables are queued together.
WalksOneRow == \A u, v \in Variables : queue[u] = queue[v]

\* The row the scheduler works for stands, and unless its object changed since, what the
\* scheduler holds or wrote is what the catalog has.
WalksItemTrue ==
  LET s == walk[Scheduler] IN s.pc # "idle" /\ s.key \notin WalksByPage =>
    /\ queue[s.at] # None
    /\ queue[s.at].taken => s.key = queue[s.at].act
    /\ s.key = "delete" => catalog[s.at] = None /\ s.pc # "fetch"
    /\ s.key = "partial" => s.at \in Studies \ bare
    /\ s.pc = "apply" =>
         /\ queue[s.at].taken => s.hand[s.at] = catalog[s.at]
         /\ s.key = "partial" => s.hand[s.at] # None
    /\ s.pc = "ack" =>
         /\ s.at \notin bare
         /\ queue[s.at].taken => held[s.at] = catalog[s.at] \/ s.at \in older

\* Of the variables that are replaced, with the catalog c and the rows q: those of the page
\* are what the catalog has, unless they changed since, and of those between the cursor and
\* the next page there is none; at the end there is none left.
WalksReplacing(key, pc, at, hand, q, c) ==
  pc # "idle" /\ key \in WalksByPage =>
    /\ \A v \in Variables : q[v] # None
    /\ pc \in {"empty", "write"} =>
         /\ \A v \in Variables \cap DOMAIN hand : q[v].taken => hand[v] = c[v]
         /\ \A v \in Variables \ DOMAIN hand : v > at =>
              c[v] = None \/ \A p \in DOMAIN hand : p < v
    /\ pc = "ack" => \A v \in Variables : v <= at \/ c[v] = None

WalksReplaceTrue ==
  WalksReplacing(walk[Scheduler].key, walk[Scheduler].pc, walk[Scheduler].at,
                 walk[Scheduler].hand, queue, catalog)

\* What is not there is not there any more; ids are not used again.
WalksGoneForGood ==
  \A a \in W!Actors : walk[a].pc \in {"empty", "write", "sync", "apply"} =>
    \A o \in DOMAIN walk[a].hand : walk[a].hand[o] = None => catalog[o] = None

\* The scheduler is through with o, but for the ack.
WalksThrough(o) ==
  \/ /\ walk[Scheduler].pc = "ack" /\ walk[Scheduler].key \notin WalksByPage
     /\ walk[Scheduler].at = o
  \/ /\ walk[Scheduler].pc \in {"read", "write", "ack"} /\ walk[Scheduler].key = "variables"
     /\ o \in Variables /\ (o <= walk[Scheduler].at \/ catalog[o] = None)

\* The scheduler has yet to bring o up to date.
WalksPending(o) == queue[o] # None /\ ~(queue[o].taken /\ WalksThrough(o))

WalksHandsTrue ==
  \A w \in Workers : walk[w].pc \in {"write", "sync"} =>
    \A o \in DOMAIN walk[w].hand \ walk[w].stale : walk[w].hand[o] = catalog[o] \/ WalksPending(o)

WalksDoneTrue == \A o \in done \ older : held[o] = catalog[o] \/ WalksPending(o)

\* What is indexed of an object that is gone, and nobody knows.
WalksLost(o) ==
  /\ catalog[o] = None /\ held[o] # None /\ queue[o] = None
  /\ o \notin older /\ o \notin bare /\ o \notin belief

WalksImportTrue ==
  /\ bare \cap belief = {}
  /\ \A v, w \in Workers : walk[v].key = "search_index_import"
       /\ walk[w].key = "search_index_import" => v = w
  /\ \A w \in Workers : walk[w].key = "search_index_import" =>
       /\ imported # "yes"
       /\ DOMAIN walk[w].hand \subseteq WalksTracked \ bare
       /\ imported = "under way" =>
            /\ walk[w].pc = "studies" => \A o \in Studies : WalksLost(o) =>
                 o \in DOMAIN walk[w].hand
            /\ walk[w].pc = "citations" => \A o \in Studies : WalksLost(o) =>
                 o \in DOMAIN walk[w].hand
            /\ walk[w].pc = "report" =>
                 \A o \in WalksTracked : WalksLost(o) => o \in DOMAIN walk[w].hand /\ walk[w].at < o
            /\ walk[w].pc = "trigger" => \A o \in WalksTracked : ~WalksLost(o)

WalksImported ==
  imported = "yes" =>
    /\ \A o \in bare : catalog[o] # None => queue[o] # None
    /\ \A o \in WalksTracked : queue[o] = None => (o \in belief <=> catalog[o] # None)
    /\ \A o \in WalksTracked \ (older \cup bare) : held[o] = catalog[o] \/ WalksPending(o)

WalksInv ==
  /\ WalksTyped /\ WalksRowsTrue /\ WalksOneRow /\ WalksItemTrue /\ WalksReplaceTrue
  /\ WalksGoneForGood /\ WalksHandsTrue
  /\ WalksDoneTrue
  /\ WalksImportTrue /\ WalksImported

LEMMA WalksHasLeast ==
  ASSUME NEW U \in SUBSET Nat, U # {}
  PROVE  \E m \in U : \A n \in U : m <= n
<1> DEFINE less == OpToRel(<, Nat)
<1>1. IsWellFoundedOn(less, Nat)  BY NatLessThanWellFounded
<1>2. \A x, y \in Nat : x < y => <<x, y>> \in less  BY DEF OpToRel
<1> HIDE DEF less
<1>3. PICK m \in U : \A n \in U : ~(<<n, m>> \in less)  BY <1>1, WFMin
<1>4. ASSUME NEW n \in U PROVE m <= n
  <2>1. m \in Nat /\ n \in Nat  OBVIOUS
  <2>2. ~(n < m)  BY <1>2, <1>3, <2>1
  <2> QED  BY <2>1, <2>2
<1> QED  BY <1>4

LEMMA WalksHasMost ==
  ASSUME NEW U \in SUBSET Nat, U # {}, NEW b \in Nat, \A n \in U : n < b
  PROVE  \E m \in U : \A n \in U : n <= m
<1> DEFINE over == {u \in Nat : \A n \in U : n < u}
<1>1. over \in SUBSET Nat /\ over # {}  OBVIOUS
<1>2. PICK u \in over : \A v \in over : u <= v  BY <1>1, WalksHasLeast
<1>3. u # 0
  <2>1. PICK n \in U : TRUE  OBVIOUS
  <2>2. n < u /\ n \in Nat  BY <2>1
  <2> QED  BY <2>2
<1>4. u - 1 \in Nat /\ u - 1 \notin over  BY <1>2, <1>3
<1>5. PICK m \in U : ~(m < u - 1)  BY <1>4
<1>6. m = u - 1  BY <1>2, <1>5
<1> QED  BY <1>2, <1>6

\* The operation an actor turns to.
LEMMA WalksDoingIs ==
  ASSUME NEW key, NEW pc, NEW at, NEW hand, NEW o, o = W!Doing(key, pc, at, hand)
  PROVE  /\ o.key = key /\ o.pc = pc /\ o.at = at /\ o.hand = hand /\ o.stale = {}
         /\ o = [key |-> o.key, pc |-> o.pc, at |-> o.at, hand |-> o.hand, stale |-> o.stale]
BY DEF W!Doing

LEMMA WalksIdleIs ==
  /\ W!Idle.key = None /\ W!Idle.pc = "idle" /\ W!Idle.at = 0 /\ DOMAIN W!Idle.hand = {}
  /\ W!Idle.stale = {}
  /\ W!WalksAssumption => \A a \in W!Actors : WalksOpTyped(a, W!Idle)
<1>1. W!Idle.key = None /\ W!Idle.pc = "idle" /\ W!Idle.at = 0 /\ DOMAIN W!Idle.hand = {}
      /\ W!Idle.stale = {}
  BY DEF W!Idle, W!NoHand, W!Doing
<1>2. W!Idle = [key |-> W!Idle.key, pc |-> W!Idle.pc, at |-> W!Idle.at, hand |-> W!Idle.hand,
        stale |-> W!Idle.stale]
  BY WalksDoingIs DEF W!Idle
<1>. QED BY <1>1, <1>2 DEF WalksOpTyped, WalksImporting, W!WalksAssumption

\* Walks counts as this module does.
LEMMA WalksCounts ==
  ASSUME NEW U
  PROVE  W!Cardinality(U) = Cardinality(U)
BY DEF W!Cardinality, Cardinality

LEMMA WalksFinite ==
  ASSUME NEW U
  PROVE  W!IsFiniteSet(U) <=> IsFiniteSet(U)
BY DEF W!IsFiniteSet, IsFiniteSet

LEMMA WalksObjectsAre ==
  ASSUME W!WalksAssumption
  PROVE  /\ W!Objects \subseteq Nat \ {0} /\ WalksTracked \subseteq W!Objects
         /\ IsFiniteSet(W!Objects)
         /\ WalksTracked \cap Variables = {} /\ WalksTracked \cup Variables = W!Objects
         /\ Scheduler \notin Workers /\ Scheduler \in W!Actors
         /\ \A a \in W!Actors : a \in Workers \/ a = Scheduler
<1>1. IsFiniteSet(W!Objects)
  BY FS_Union, WalksFinite DEF W!WalksAssumption, W!Objects
<1>. QED BY <1>1 DEF W!WalksAssumption, W!Objects, WalksTracked, W!Actors

\* A page of a list: what is not in it comes after it, and only the end has none.
LEMMA WalksPages ==
  ASSUME W!WalksAssumption, NEW U \in SUBSET W!Objects, NEW at \in Nat, NEW n \in Nat \ {0}
  PROVE  /\ W!After(U, at, n) \subseteq U
         /\ W!After(U, at, n) = {} => \A x \in U : x <= at
         /\ W!After(U, at, n) # {} =>
              /\ W!Last(W!After(U, at, n)) \in W!After(U, at, n)
              /\ \A x \in W!After(U, at, n) : x <= W!Last(W!After(U, at, n))
              /\ \A x \in U \ W!After(U, at, n) : x > at => x > W!Last(W!After(U, at, n))
         /\ \A x \in U \ W!After(U, at, n) : x > at => \A y \in W!After(U, at, n) : y < x
<1>. DEFINE rest == {x \in U : x > at}
            before(x) == {p \in rest : p < x}
            block == {x \in rest : Cardinality(before(x)) < n}
<1>0. W!After(U, at, n) = block
  BY WalksCounts DEF W!After
<1>1. U \subseteq Nat /\ IsFiniteSet(rest) /\ block \subseteq rest /\ rest \subseteq U
  BY WalksObjectsAre, FS_Subset
<1>2. \A x \in rest : IsFiniteSet(before(x)) /\ Cardinality(before(x)) \in Nat
  BY <1>1, FS_Subset, FS_CardinalityType
<1>3. ASSUME NEW x \in rest, NEW y \in block, x <= y PROVE x \in block
  <2>1. ASSUME NEW p \in before(x) PROVE p \in before(y)
    <3>1. p \in Nat /\ x \in Nat /\ y \in Nat /\ p < x
      BY <1>1
    <3>. QED BY <1>3, <3>1
  <2>2. Cardinality(before(x)) <= Cardinality(before(y))
    BY <1>1, <1>2, <2>1, FS_Subset
  <2>. QED BY <1>1, <1>2, <2>2
<1>4. ASSUME rest # {} PROVE block # {}
  <2>1. PICK m \in rest : \A y \in rest : m <= y
    BY <1>1, <1>4, WalksHasLeast
  <2>2. before(m) = {}
    <3>1. \A p \in rest : p \in Nat /\ m \in Nat /\ m <= p
      BY <1>1, <2>1
    <3>2. \A p \in rest : ~(p < m)
      BY <3>1
    <3>. QED BY <3>2
  <2>3. Cardinality(before(m)) = 0
    BY <2>2, FS_EmptySet
  <2>. QED BY <2>3
<1>5. ASSUME block # {} PROVE \E l \in block : \A y \in block : y <= l
  <2>. DEFINE counts == {Cardinality(before(x)) : x \in block}
  <2>1. counts \in SUBSET Nat /\ counts # {} /\ \A c \in counts : c < n
    BY <1>1, <1>2, <1>5
  <2>. HIDE DEF counts
  <2>2. PICK c \in counts : \A d \in counts : d <= c
    BY <2>1, WalksHasMost
  <2>3. PICK l \in block : c = Cardinality(before(l))
    BY DEF counts
  <2>4. ASSUME NEW y \in block, l < y PROVE FALSE
    <3>0. l \in Nat /\ y \in Nat /\ l \in rest /\ y \in rest
      BY <1>1
    <3>4. l \in before(y) /\ l \notin before(l)
      BY <2>4, <3>0
    <3>5. ASSUME NEW p \in before(l) PROVE p \in before(y)
      <4>1. p \in Nat /\ p < l
        BY <1>1
      <4>. QED BY <2>4, <3>0, <4>1
    <3>1. before(l) \subseteq before(y) /\ before(l) # before(y)
      BY <3>4, <3>5
    <3>2. Cardinality(before(l)) < Cardinality(before(y))
      BY <1>1, <1>2, <3>1, FS_Subset
    <3>3. Cardinality(before(y)) <= c
      BY <2>2 DEF counts
    <3>. QED BY <1>1, <1>2, <2>3, <3>2, <3>3
  <2>. QED BY <1>1, <2>4
<1>. HIDE DEF block
<1>6. block # {} => W!Last(block) \in block /\ \A y \in block : y <= W!Last(block)
  BY <1>5 DEF W!Last
<1>7. \A x \in U \ block : block # {} /\ x > at => x > W!Last(block)
  <2>. SUFFICES ASSUME NEW x \in U \ block, block # {}, x > at, ~(x > W!Last(block)) PROVE FALSE
    OBVIOUS
  <2>1. x \in rest /\ W!Last(block) \in block /\ x \in Nat /\ W!Last(block) \in Nat
    BY <1>1, <1>6
  <2>. QED BY <1>3, <2>1
<1>8. block = {} => \A x \in U : x <= at
  <2>1. block = {} => rest = {}
    BY <1>4
  <2>. QED BY <1>1, <2>1
<1>9. \A x \in U \ block : x > at => \A y \in block : y < x
  <2>. SUFFICES ASSUME NEW x \in U \ block, x > at, NEW y \in block PROVE y < x
    OBVIOUS
  <2>1. x > W!Last(block) /\ y <= W!Last(block) /\ W!Last(block) \in Nat /\ x \in Nat /\ y \in Nat
    BY <1>1, <1>6, <1>7
  <2>. QED BY <2>1
<1>. QED BY <1>0, <1>1, <1>6, <1>7, <1>8, <1>9

LEMMA WalksLastIs ==
  ASSUME W!WalksAssumption, NEW U \in SUBSET W!Objects, U # {}
  PROVE  W!Last(U) \in U /\ \A x \in U : x <= W!Last(U)
<1>. DEFINE n == Cardinality(U) + 1
<1>1. U \subseteq Nat \ {0} /\ IsFiniteSet(U) /\ Cardinality(U) \in Nat
  BY WalksObjectsAre, FS_Subset, FS_CardinalityType
<1>2. ASSUME NEW x \in U PROVE Cardinality({p \in {y \in U : y > 0} : p < x}) < n
  <2>. DEFINE V == {p \in {y \in U : y > 0} : p < x}
  <2>1. V \subseteq U
    OBVIOUS
  <2>. HIDE DEF V
  <2>2. IsFiniteSet(V) /\ Cardinality(V) <= Cardinality(U)
    BY <1>1, <2>1, FS_Subset
  <2>3. Cardinality(V) \in Nat
    BY <2>2, FS_CardinalityType
  <2>4. Cardinality(V) < n
    BY <1>1, <2>2, <2>3
  <2>. QED BY <2>4 DEF V
<1>. HIDE DEF n
<1>3. W!After(U, 0, n) = U
  <2>. DEFINE rest == {y \in U : y > 0}
              block == {x \in rest : Cardinality({p \in rest : p < x}) < n}
  <2>1. \A x \in U : x \in rest
    BY <1>1
  <2>2. \A x \in U : x \in block
    BY <1>2, <2>1
  <2>3. block \subseteq U
    OBVIOUS
  <2>4. W!After(U, 0, n) = block
    BY WalksCounts DEF W!After
  <2>. HIDE DEF block
  <2>. QED BY <2>2, <2>3, <2>4
<1>4. n \in Nat \ {0} /\ 0 \in Nat
  BY <1>1 DEF n
<1>. QED BY <1>3, <1>4, WalksPages

\* The types, whatever is done.
LEMMA WalksAllTyped ==
  ASSUME W!WalksAssumption,
         catalog' \in [W!Objects -> WalksVersions], held' \in [W!Objects -> WalksVersions],
         bare' \subseteq {s \in Studies : held'[s] # None}, belief' \subseteq WalksTracked,
         queue' \in [W!Objects -> [act : W!Acts, taken : BOOLEAN] \cup {None}],
         DOMAIN walk' = W!Actors, \A a \in W!Actors : WalksOpTyped(a, walk'[a]),
         done' \subseteq W!Objects, older' \subseteq W!Objects,
         imported' \in {"no", "under way", "yes"}
  PROVE  WalksTyped'
<1>1. \A a \in W!Actors : WalksOpTyped(a, walk[a])'
  BY DEF WalksOpTyped
<1>. QED BY <1>1 DEF WalksTyped

LEMMA WalksParts ==
  ASSUME W!WalksAssumption, WalksInv
  PROVE  /\ WalksTyped /\ WalksRowsTrue /\ WalksOneRow /\ WalksItemTrue /\ WalksReplaceTrue
         /\ WalksGoneForGood /\ WalksHandsTrue
         /\ WalksDoneTrue
         /\ WalksImportTrue /\ WalksImported
         /\ \A a \in W!Actors : WalksOpTyped(a, walk[a])
BY DEF WalksInv, WalksTyped

\* The variables that are replaced are as they were.
LEMMA WalksReplaceNext ==
  ASSUME NEW t, t = walk'[Scheduler],
         WalksReplacing(t.key, t.pc, t.at, t.hand, queue', catalog')
  PROVE  WalksReplaceTrue'
BY Zenon DEF WalksReplaceTrue

LEMMA WalksReplaceStays ==
  ASSUME WalksReplaceTrue, NEW s, NEW t, s = walk[Scheduler], t = walk'[Scheduler],
         t.key = s.key, t.pc = s.pc, t.at = s.at, t.hand = s.hand,
         catalog' = catalog, \A v \in Variables : queue'[v] = queue[v]
  PROVE  WalksReplaceTrue'
<1>1. WalksReplacing(s.key, s.pc, s.at, s.hand, queue, catalog)
  BY Zenon DEF WalksReplaceTrue
<1>2. WalksReplacing(t.key, t.pc, t.at, t.hand, queue', catalog')
  BY <1>1 DEF WalksReplacing
<1>. QED BY <1>2, WalksReplaceNext

\* A job reads, or moves on; an import may report.
LEMMA WalksWorkerMoves ==
  ASSUME W!WalksAssumption, WalksInv, NEW w \in Workers, NEW o, WalksOpTyped(w, o), o.stale = {},
         walk' = [walk EXCEPT ![w] = o], UNCHANGED <<catalog, held, bare, queue, done, older>>,
         belief \subseteq belief', belief' \subseteq WalksTracked \ bare,
         belief' = belief \/ walk[w].key = "search_index_import",
         imported' = imported \/ (imported' = "under way" /\ o.key = "search_index_import"),
         o.pc \in {"write", "sync"} => \A x \in DOMAIN o.hand : o.hand[x] = catalog[x],
         o.key = "search_index_import" =>
           /\ \A v \in Workers \ {w} : walk[v].key # "search_index_import"
           /\ imported' # "yes"
           /\ DOMAIN o.hand \subseteq WalksTracked \ bare
           /\ imported' = "under way" =>
                /\ o.pc = "studies" => \A x \in Studies : WalksLost(x) => x \in DOMAIN o.hand
                /\ o.pc = "citations" => \A x \in Studies : WalksLost(x) => x \in DOMAIN o.hand
                /\ o.pc = "report" =>
                     \A x \in WalksTracked :
                       WalksLost(x) /\ x \notin belief' => x \in DOMAIN o.hand /\ o.at < x
                /\ o.pc = "trigger" => \A x \in WalksTracked : ~WalksLost(x)
  PROVE  WalksInv'
<1>0. /\ WalksTyped /\ WalksRowsTrue /\ WalksOneRow /\ WalksItemTrue /\ WalksReplaceTrue
      /\ WalksGoneForGood /\ WalksHandsTrue
      /\ WalksDoneTrue
      /\ WalksImportTrue /\ WalksImported
      /\ \A a \in W!Actors : WalksOpTyped(a, walk[a])
  BY WalksParts
<1>1. DOMAIN walk' = W!Actors /\ walk'[w] = o /\ \A a \in W!Actors \ {w} : walk'[a] = walk[a]
  BY DEF WalksTyped, W!Actors, WalksInv
<1>2. Scheduler \in W!Actors /\ w \in W!Actors /\ walk'[Scheduler] = walk[Scheduler]
      /\ \A v \in Workers : v \in W!Actors
  BY <1>1, WalksObjectsAre DEF W!Actors
<1>3. WalksTyped'
  <2>1. \A a \in W!Actors : WalksOpTyped(a, walk'[a])
    BY <1>0, <1>1
  <2>2. imported' \in {"no", "under way", "yes"}
    BY <1>0 DEF WalksTyped
  <2>. QED BY <1>0, <1>1, <2>1, <2>2, WalksAllTyped DEF WalksTyped
<1>4. WalksRowsTrue'
  BY <1>0 DEF WalksRowsTrue
<1>5. WalksItemTrue'
  <2>1. WalksItemTrue
    BY <1>0
  <2>2. walk'[Scheduler] = walk[Scheduler]
    BY <1>2
  <2>3. catalog' = catalog /\ held' = held /\ bare' = bare /\ queue' = queue /\ older' = older
    OBVIOUS
  <2>. QED BY ONLY <2>1, <2>2, <2>3, Zenon DEF WalksItemTrue
<1>x. WalksOneRow' /\ WalksReplaceTrue'
  <2>1. WalksOneRow'
    BY <1>0 DEF WalksOneRow
  <2>. QED BY <1>0, <1>2, <2>1, WalksReplaceStays
<1>6. WalksGoneForGood'
  <2>1. o.pc \notin {"apply", "empty"}
    BY <1>2, WalksObjectsAre DEF WalksOpTyped, WalksImporting
  <2>2. \A x \in DOMAIN o.hand : o.pc \in {"write", "sync"} /\ o.hand[x] = None => catalog[x] = None
    OBVIOUS
  <2>3. WalksGoneForGood /\ catalog' = catalog
    BY <1>0
  <2>. QED BY ONLY <1>1, <2>1, <2>2, <2>3 DEF WalksGoneForGood
<1>7. \A x \in W!Objects : WalksPending(x)' <=> WalksPending(x)
  BY <1>2 DEF WalksPending, WalksThrough
<1>8. WalksHandsTrue'
  BY <1>0, <1>1, <1>2, <1>7 DEF WalksHandsTrue, WalksOpTyped
<1>9. WalksDoneTrue'
  BY <1>0, <1>7 DEF WalksDoneTrue, WalksTyped
<1>10. \A x : WalksLost(x)' => WalksLost(x) /\ x \notin belief'
  BY DEF WalksLost
<1>11. WalksImportTrue'
  <2>1. bare' \cap belief' = {}
    OBVIOUS
  <2>2. ASSUME NEW u \in Workers, NEW v \in Workers,
               walk'[u].key = "search_index_import", walk'[v].key = "search_index_import"
        PROVE  u = v
    BY <1>0, <1>1, <1>2, <2>2 DEF WalksImportTrue
  <2>3. ASSUME NEW v \in Workers, walk'[v].key = "search_index_import", v # w
        PROVE  walk'[v] = walk[v] /\ walk[v].key = "search_index_import" /\ imported' = imported
    BY <1>0, <1>1, <1>2, <2>3 DEF WalksImportTrue
  <2>4. ASSUME NEW v \in Workers, walk'[v].key = "search_index_import"
        PROVE  /\ imported' # "yes"
               /\ DOMAIN walk'[v].hand \subseteq WalksTracked \ bare'
               /\ imported' = "under way" =>
                    /\ walk'[v].pc = "studies" => \A x \in Studies : WalksLost(x)' =>
                         x \in DOMAIN walk'[v].hand
                    /\ walk'[v].pc = "citations" => \A x \in Studies : WalksLost(x)' =>
                         x \in DOMAIN walk'[v].hand
                    /\ walk'[v].pc = "report" =>
                         \A x \in WalksTracked : WalksLost(x)' =>
                           x \in DOMAIN walk'[v].hand /\ walk'[v].at < x
                    /\ walk'[v].pc = "trigger" => \A x \in WalksTracked : ~WalksLost(x)'
    <3>1. CASE v = w
      BY <1>1, <1>10, <2>4, <3>1
    <3>2. CASE v # w
      BY <1>0, <1>10, <2>3, <2>4, <3>2 DEF WalksImportTrue
    <3>. QED BY <3>1, <3>2
  <2>. QED BY <2>1, <2>2, <2>4 DEF WalksImportTrue
<1>12. WalksImported'
  <2>. SUFFICES ASSUME imported' = "yes" PROVE WalksImported'
    BY DEF WalksImported
  <2>1. imported = "yes" /\ belief' = belief
    BY <1>0, <1>2 DEF WalksImportTrue
  <2>2. \A x \in WalksTracked : x \in W!Objects
    BY WalksObjectsAre
  <2>. QED BY <1>0, <1>7, <2>1, <2>2 DEF WalksImported
<1>. QED BY <1>3, <1>4, <1>5, <1>x, <1>6, <1>8, <1>9, <1>11, <1>12 DEF WalksInv

\* Some operations end where they are.
LEMMA WalksStops ==
  ASSUME W!WalksAssumption, WalksInv, NEW U,
         walk' = [a \in W!Actors |-> IF a \in U THEN W!Idle ELSE walk[a]],
         UNCHANGED <<catalog, held, bare, belief, queue, done, older, imported>>
  PROVE  WalksInv'
<1>0. /\ WalksTyped /\ WalksRowsTrue /\ WalksOneRow /\ WalksItemTrue /\ WalksReplaceTrue
      /\ WalksGoneForGood /\ WalksHandsTrue
      /\ WalksDoneTrue
      /\ WalksImportTrue /\ WalksImported
      /\ \A a \in W!Actors : WalksOpTyped(a, walk[a])
  BY WalksParts
<1>1. DOMAIN walk' = W!Actors /\ \A a \in W!Actors : walk'[a] = W!Idle \/ walk'[a] = walk[a]
  OBVIOUS
<1>2. Scheduler \in W!Actors /\ \A v \in Workers : v \in W!Actors
  BY WalksObjectsAre DEF W!Actors
<1>3. /\ W!Idle.key = None /\ W!Idle.pc = "idle" /\ DOMAIN W!Idle.hand = {}
      /\ W!Idle.key # "search_index_import" /\ \A a \in W!Actors : WalksOpTyped(a, W!Idle)
  BY WalksIdleIs DEF W!WalksAssumption
<1>4. WalksTyped'
  <2>1. \A a \in W!Actors : WalksOpTyped(a, walk'[a])
    BY <1>0, <1>1, <1>3
  <2>. QED BY <1>0, <1>1, <2>1, WalksAllTyped DEF WalksTyped
<1>5. WalksRowsTrue'
  BY <1>0 DEF WalksRowsTrue
<1>6. WalksItemTrue'
  BY <1>0, <1>1, <1>2, <1>3 DEF WalksItemTrue
<1>x. WalksOneRow' /\ WalksReplaceTrue'
  <2>1. WalksOneRow'
    BY <1>0 DEF WalksOneRow
  <2>s. PICK s : s = walk[Scheduler]  OBVIOUS
  <2>t. PICK t : t = walk'[Scheduler]  OBVIOUS
  <2>2. CASE t = s
    <3>1. /\ WalksReplaceTrue /\ s = walk[Scheduler] /\ t = walk'[Scheduler]
          /\ t.key = s.key /\ t.pc = s.pc /\ t.at = s.at /\ t.hand = s.hand
          /\ catalog' = catalog /\ \A v \in Variables : queue'[v] = queue[v]
      BY <1>0, <2>2, <2>s, <2>t
    <3>. QED BY ONLY <2>1, <3>1, WalksReplaceStays
  <2>3. CASE t = W!Idle
    <3>1. t.pc = "idle"
      BY <1>3, <2>3
    <3>2. WalksReplacing(t.key, t.pc, t.at, t.hand, queue', catalog')
      BY <3>1 DEF WalksReplacing
    <3>. QED BY ONLY <2>1, <2>t, <3>2, WalksReplaceNext
  <2>. QED BY <1>1, <1>2, <2>1, <2>2, <2>3, <2>s, <2>t
<1>7. WalksGoneForGood'
  BY <1>0, <1>1, <1>3 DEF WalksGoneForGood
<1>8. \A x \in W!Objects : WalksPending(x) => WalksPending(x)'
  BY <1>1, <1>2, <1>3 DEF WalksPending, WalksThrough
<1>9. WalksHandsTrue'
  BY <1>0, <1>1, <1>2, <1>3, <1>8 DEF WalksHandsTrue, WalksOpTyped
<1>10. WalksDoneTrue'
  BY <1>0, <1>8 DEF WalksDoneTrue, WalksTyped
<1>11. \A x : WalksLost(x)' <=> WalksLost(x)
  BY DEF WalksLost
<1>12. WalksImportTrue'
  BY <1>0, <1>1, <1>2, <1>3, <1>11 DEF WalksImportTrue
<1>13. WalksImported'
  <2>1. \A x \in WalksTracked : x \in W!Objects
    BY WalksObjectsAre
  <2>. QED BY <1>0, <1>8, <2>1 DEF WalksImported
<1>. QED BY <1>4, <1>5, <1>6, <1>x, <1>7, <1>9, <1>10, <1>12, <1>13 DEF WalksInv

\* What a write leaves of the other operations.
LEMMA WalksGoesIs ==
  ASSUME W!WalksAssumption, WalksInv, NEW a \in W!Actors, NEW o, NEW U, W!Goes(a, o, U),
         WalksOpTyped(a, o)
  PROVE  /\ DOMAIN walk' = W!Actors /\ walk'[a] = o /\ \A b \in W!Actors : WalksOpTyped(b, walk'[b])
         /\ \A b \in W!Actors \ {a} :
              /\ walk'[b].key = walk[b].key /\ walk'[b].pc = walk[b].pc
              /\ walk'[b].at = walk[b].at
              /\ walk'[b].hand = walk[b].hand
              /\ walk[b].pc \in {"write", "sync", "apply"} =>
                   walk'[b].stale = walk[b].stale \cup (U \cap DOMAIN walk[b].hand)
<1>1. DOMAIN walk' = W!Actors /\ walk'[a] = o
  BY DEF W!Goes
<1>2. ASSUME NEW b \in W!Actors \ {a}
      PROVE  /\ walk'[b].key = walk[b].key /\ walk'[b].pc = walk[b].pc /\ walk'[b].at = walk[b].at
             /\ walk'[b].hand = walk[b].hand
             /\ walk[b].pc \in {"write", "sync", "apply"} =>
                  walk'[b].stale = walk[b].stale \cup (U \cap DOMAIN walk[b].hand)
             /\ WalksOpTyped(b, walk'[b])
  <2>. DEFINE r == walk[b]
              t == [r EXCEPT !.stale = @ \cup (U \cap DOMAIN r.hand)]
  <2>0. WalksOpTyped(b, r)
    BY WalksParts
  <2>1. CASE walk[b].pc \in {"write", "sync", "apply"}
    <3>1. walk'[b] = t
      BY <2>1 DEF W!Goes
    <3>2. r = [key |-> r.key, pc |-> r.pc, at |-> r.at, hand |-> r.hand, stale |-> r.stale]
      BY <2>0 DEF WalksOpTyped
    <3>. HIDE DEF r
    <3>3. t = [key |-> r.key, pc |-> r.pc, at |-> r.at, hand |-> r.hand,
               stale |-> r.stale \cup (U \cap DOMAIN r.hand)]
      BY <3>2
    <3>. HIDE DEF t
    <3>4. /\ t.key = r.key /\ t.pc = r.pc /\ t.at = r.at /\ t.hand = r.hand
          /\ t.stale = r.stale \cup (U \cap DOMAIN r.hand)
          /\ t = [key |-> t.key, pc |-> t.pc, at |-> t.at, hand |-> t.hand, stale |-> t.stale]
      BY <3>3
    <3>5. r.pc \in {"write", "sync", "apply"}
      BY <2>1 DEF r
    <3>6. WalksOpTyped(b, t)
      BY <2>0, <3>4, <3>5 DEF WalksOpTyped, W!Idle, W!Doing
    <3>. QED BY <3>1, <3>4, <3>6 DEF r
  <2>2. CASE ~(walk[b].pc \in {"write", "sync", "apply"})
    <3>1. walk'[b] = walk[b]
      BY <2>2 DEF W!Goes
    <3>. QED BY <2>0, <2>2, <3>1
  <2>. QED BY <2>1, <2>2
<1>. QED BY <1>1, <1>2

\* What an operation holds can be written.
LEMMA WalksWrittenTyped ==
  ASSUME W!WalksAssumption, WalksInv, NEW a \in W!Actors, NEW U \in SUBSET DOMAIN walk[a].hand,
         W!Written(a, U)
  PROVE  /\ held' \in [W!Objects -> WalksVersions] /\ done' = done \cup U
         /\ done' \subseteq W!Objects /\ older' \subseteq W!Objects
         /\ \A x \in W!Objects :
              /\ x \in U => held'[x] = walk[a].hand[x] /\ (x \in older' <=> x \in walk[a].stale)
              /\ x \notin U => held'[x] = held[x] /\ (x \in older' <=> x \in older)
<1>1. WalksOpTyped(a, walk[a]) /\ WalksTyped
  BY WalksParts
<1>2. U \subseteq W!Objects /\ \A x \in U : walk[a].hand[x] \in WalksVersions
  BY <1>1 DEF WalksOpTyped
<1>. QED BY <1>1, <1>2 DEF W!Written, WalksTyped

\* A walk or a job writes.
LEMMA WalksWorkerWrites ==
  ASSUME W!WalksAssumption, WalksInv, NEW w \in Workers, walk[w].pc \in {"write", "sync"},
         NEW U \in SUBSET DOMAIN walk[w].hand, W!Written(w, U), NEW o, W!Goes(w, o, U),
           WalksOpTyped(w, o),
         o.pc \in {"read", "fetch"},
         UNCHANGED <<catalog, bare, belief, queue, imported>>
  PROVE  WalksInv'
<1>0. /\ WalksTyped /\ WalksRowsTrue /\ WalksOneRow /\ WalksItemTrue /\ WalksReplaceTrue
      /\ WalksGoneForGood /\ WalksHandsTrue
      /\ WalksDoneTrue
      /\ WalksImportTrue /\ WalksImported
      /\ \A a \in W!Actors : WalksOpTyped(a, walk[a])
  BY WalksParts
<1>1. /\ Scheduler \in W!Actors /\ w \in W!Actors /\ w # Scheduler
      /\ \A v \in Workers : v \in W!Actors /\ v # Scheduler
      /\ \A x \in WalksTracked : x \in W!Objects
  BY WalksObjectsAre DEF W!Actors
<1>2. /\ DOMAIN walk' = W!Actors /\ walk'[w] = o /\ \A b \in W!Actors : WalksOpTyped(b, walk'[b])
      /\ \A b \in W!Actors \ {w} :
           /\ walk'[b].key = walk[b].key /\ walk'[b].pc = walk[b].pc /\ walk'[b].at = walk[b].at
           /\ walk'[b].hand = walk[b].hand
           /\ walk[b].pc \in {"write", "sync", "apply"} =>
                walk'[b].stale = walk[b].stale \cup (U \cap DOMAIN walk[b].hand)
  BY <1>1, WalksGoesIs
<1>3. /\ held' \in [W!Objects -> WalksVersions] /\ done' = done \cup U
      /\ done' \subseteq W!Objects /\ older' \subseteq W!Objects
      /\ \A x \in W!Objects :
           /\ x \in U => held'[x] = walk[w].hand[x] /\ (x \in older' <=> x \in walk[w].stale)
           /\ x \notin U => held'[x] = held[x] /\ (x \in older' <=> x \in older)
  BY <1>1, WalksWrittenTyped
<1>4. U \cap Studies = {} /\ U \subseteq W!Objects /\ Studies \subseteq W!Objects
  BY <1>0, <1>1 DEF WalksOpTyped, W!Objects
<1>5. o.key # "search_index_import" /\ walk[w].key # "search_index_import"
      /\ o.pc \notin {"empty", "write", "sync", "apply"}
  BY <1>0, <1>1, <1>2 DEF WalksOpTyped, WalksImporting
<1>6. \A x \in W!Objects : WalksPending(x)' <=> WalksPending(x)
  BY <1>1, <1>2 DEF WalksPending, WalksThrough
<1>7. \A x \in W!Objects : x \in U /\ x \notin older' => held'[x] = catalog[x] \/ WalksPending(x)
  BY <1>0, <1>3 DEF WalksHandsTrue
<1>8. WalksTyped'
  <2>1. bare' \subseteq {s \in Studies : held'[s] # None}
    BY <1>0, <1>3, <1>4 DEF WalksTyped
  <2>. QED BY <1>0, <1>2, <1>3, <2>1, WalksAllTyped DEF WalksTyped
<1>9. WalksRowsTrue'
  BY <1>0 DEF WalksRowsTrue
<1>10. WalksItemTrue'
  <2>. DEFINE s == walk[Scheduler]
              t == walk'[Scheduler]
  <2>1. t.key = s.key /\ t.pc = s.pc /\ t.at = s.at /\ t.hand = s.hand
    BY <1>1, <1>2
  <2>2. s.pc = "ack" /\ s.key \notin WalksByPage /\ queue[s.at].taken =>
          held'[s.at] = catalog[s.at] \/ s.at \in older'
    <3>. SUFFICES ASSUME s.pc = "ack", s.key \notin WalksByPage, queue[s.at].taken,
                         s.at \notin older'
                  PROVE  held'[s.at] = catalog[s.at]
      OBVIOUS
    <3>1. s.at \in W!Objects /\ ~WalksPending(s.at)
      BY <1>0, <1>1, WalksObjectsAre DEF WalksOpTyped, WalksPending, WalksThrough
    <3>2. CASE s.at \in U
      BY <1>7, <3>1, <3>2
    <3>3. CASE s.at \notin U
      <4>1. s.at \notin older /\ held'[s.at] = held[s.at]
        BY <1>3, <3>1, <3>3
      <4>. QED BY <1>0, <4>1 DEF WalksItemTrue
    <3>. QED BY <3>2, <3>3
  <2>3. s.pc # "idle" /\ s.key \notin WalksByPage =>
          /\ queue[s.at] # None
          /\ queue[s.at].taken => s.key = queue[s.at].act
          /\ s.key = "delete" => catalog[s.at] = None /\ s.pc # "fetch"
          /\ s.key = "partial" => s.at \in Studies \ bare
          /\ s.pc = "apply" =>
               /\ queue[s.at].taken => s.hand[s.at] = catalog[s.at]
               /\ s.key = "partial" => s.hand[s.at] # None
          /\ s.pc = "ack" => s.at \notin bare
    BY <1>0 DEF WalksItemTrue
  <2>. HIDE DEF s, t
  <2>4. t.pc # "idle" /\ t.key \notin WalksByPage =>
          /\ queue'[t.at] # None
          /\ queue'[t.at].taken => t.key = queue'[t.at].act
          /\ t.key = "delete" => catalog'[t.at] = None /\ t.pc # "fetch"
          /\ t.key = "partial" => t.at \in Studies \ bare'
          /\ t.pc = "apply" =>
               /\ queue'[t.at].taken => t.hand[t.at] = catalog'[t.at]
               /\ t.key = "partial" => t.hand[t.at] # None
          /\ t.pc = "ack" =>
               /\ t.at \notin bare'
               /\ queue'[t.at].taken => held'[t.at] = catalog'[t.at] \/ t.at \in older'
    BY <2>1, <2>2, <2>3
  <2>. QED BY ONLY <2>4, Zenon DEF WalksItemTrue, t
<1>x. WalksOneRow' /\ WalksReplaceTrue'
  <2>1. WalksOneRow'
    BY <1>0 DEF WalksOneRow
  <2>. QED BY <1>0, <1>1, <1>2, <2>1, WalksReplaceStays
<1>11. WalksGoneForGood'
  BY <1>0, <1>2, <1>5 DEF WalksGoneForGood
<1>12. WalksHandsTrue'
  BY <1>0, <1>1, <1>2, <1>5, <1>6 DEF WalksHandsTrue, WalksOpTyped
<1>13. WalksDoneTrue'
  BY <1>0, <1>3, <1>4, <1>6, <1>7 DEF WalksDoneTrue, WalksTyped
<1>14. \A x \in W!Objects : WalksLost(x)' => WalksLost(x)
  <2>. SUFFICES ASSUME NEW x \in W!Objects, WalksLost(x)' PROVE WalksLost(x)
    OBVIOUS
  <2>1. /\ catalog[x] = None /\ held'[x] # None /\ queue[x] = None
        /\ x \notin older' /\ x \notin bare /\ x \notin belief
    BY DEF WalksLost
  <2>2. ~WalksPending(x)
    BY <2>1 DEF WalksPending, WalksThrough
  <2>. QED BY <1>3, <1>7, <2>1, <2>2 DEF WalksLost
<1>15. WalksImportTrue'
  <2>1. \A v \in Workers : walk'[v].key = "search_index_import" =>
          /\ v # w /\ walk[v].key = "search_index_import"
          /\ walk'[v].pc = walk[v].pc /\ walk'[v].at = walk[v].at /\ walk'[v].hand = walk[v].hand
    BY <1>1, <1>2, <1>5
  <2>2. \A x \in WalksTracked : x \in W!Objects /\ \A y \in Studies : y \in W!Objects
    BY <1>1, <1>4
  <2>. QED BY <1>0, <1>14, <2>1, <2>2, <1>4 DEF WalksImportTrue
<1>16. WalksImported'
  <2>. SUFFICES ASSUME imported' = "yes" PROVE WalksImported'
    BY DEF WalksImported
  <2>1. \A x \in WalksTracked \ (older' \cup bare') : held'[x] = catalog'[x] \/ WalksPending(x)'
    BY <1>0, <1>1, <1>3, <1>6, <1>7 DEF WalksImported
  <2>. QED BY <1>0, <2>1 DEF WalksImported
<1>. QED BY <1>8, <1>9, <1>10, <1>x, <1>11, <1>12, <1>13, <1>15, <1>16 DEF WalksInv

LEMMA WalksItemNext ==
  ASSUME NEW t, t = walk'[Scheduler],
         t.pc # "idle" /\ t.key \notin WalksByPage =>
           /\ queue'[t.at] # None
           /\ queue'[t.at].taken => t.key = queue'[t.at].act
           /\ t.key = "delete" => catalog'[t.at] = None /\ t.pc # "fetch"
           /\ t.key = "partial" => t.at \in Studies \ bare'
           /\ t.pc = "apply" =>
                /\ queue'[t.at].taken => t.hand[t.at] = catalog'[t.at]
                /\ t.key = "partial" => t.hand[t.at] # None
           /\ t.pc = "ack" =>
                /\ t.at \notin bare'
                /\ queue'[t.at].taken => held'[t.at] = catalog'[t.at] \/ t.at \in older'
  PROVE  WalksItemTrue'
BY Zenon DEF WalksItemTrue

LEMMA WalksItemIs ==
  ASSUME W!WalksAssumption, WalksInv, NEW s, s = walk[Scheduler], s.pc # "idle",
         s.key \notin WalksByPage
  PROVE  /\ s.at \in WalksTracked /\ s.at \in W!Objects /\ s.key \in W!Acts
         /\ WalksOpTyped(Scheduler, s)
         /\ s.pc \in {"fetch", "apply", "ack"}
         /\ queue[s.at] \in [act : W!Acts, taken : BOOLEAN] /\ queue[s.at] # None
         /\ queue[s.at].taken => s.key = queue[s.at].act
         /\ s.key = "delete" => catalog[s.at] = None /\ s.pc # "fetch"
         /\ s.key = "partial" => s.at \in Studies \ bare
         /\ s.pc = "apply" =>
              /\ DOMAIN s.hand = {s.at} /\ s.hand[s.at] \in WalksVersions
              /\ queue[s.at].taken => s.hand[s.at] = catalog[s.at]
              /\ s.key = "partial" => s.hand[s.at] # None
         /\ s.pc = "ack" =>
              /\ s.at \notin bare
              /\ queue[s.at].taken => held[s.at] = catalog[s.at] \/ s.at \in older
<1>1. WalksOpTyped(Scheduler, s) /\ WalksItemTrue /\ WalksTyped
  BY WalksParts, WalksObjectsAre
<1>2. /\ s.at \in WalksTracked /\ s.at \in W!Objects /\ s.key \in W!Acts
      /\ s.pc \in {"fetch", "apply", "ack"}
  BY <1>1, WalksObjectsAre DEF WalksOpTyped
<1>3. /\ queue[s.at] # None
      /\ queue[s.at].taken => s.key = queue[s.at].act
      /\ s.key = "delete" => catalog[s.at] = None /\ s.pc # "fetch"
      /\ s.key = "partial" => s.at \in Studies \ bare
      /\ s.pc = "apply" =>
           /\ queue[s.at].taken => s.hand[s.at] = catalog[s.at]
           /\ s.key = "partial" => s.hand[s.at] # None
      /\ s.pc = "ack" =>
           /\ s.at \notin bare
           /\ queue[s.at].taken => held[s.at] = catalog[s.at] \/ s.at \in older
  BY <1>1, Zenon DEF WalksItemTrue
<1>4. queue[s.at] \in [act : W!Acts, taken : BOOLEAN]
  BY <1>1, <1>2, <1>3 DEF WalksTyped
<1>5. s.pc = "apply" => DOMAIN s.hand = {s.at} /\ s.hand[s.at] \in WalksVersions
  BY <1>1 DEF WalksOpTyped
<1>. QED BY <1>1, <1>2, <1>3, <1>4, <1>5

\* The scheduler moves on and writes nothing: a row taken, a record read.
LEMMA WalksSchedulerMoves ==
  ASSUME W!WalksAssumption, WalksInv, NEW o, WalksOpTyped(Scheduler, o), o.stale = {},
         walk' = [walk EXCEPT ![Scheduler] = o],
         UNCHANGED <<catalog, held, bare, belief, done, older, imported>>,
         queue' \in [W!Objects -> [act : W!Acts, taken : BOOLEAN] \cup {None}],
         \A x \in W!Objects : /\ queue[x] = None <=> queue'[x] = None
                              /\ queue[x] # None => queue'[x].act = queue[x].act
                              /\ WalksPending(x)' <=> WalksPending(x),
         \A x \in DOMAIN o.hand : o.hand[x] = None => catalog[x] = None,
         WalksItemTrue', WalksOneRow', WalksReplaceTrue'
  PROVE  WalksInv'
<1>0. /\ WalksTyped /\ WalksRowsTrue /\ WalksOneRow /\ WalksItemTrue /\ WalksReplaceTrue
      /\ WalksGoneForGood /\ WalksHandsTrue
      /\ WalksDoneTrue
      /\ WalksImportTrue /\ WalksImported
      /\ \A a \in W!Actors : WalksOpTyped(a, walk[a])
  BY WalksParts
<1>1. /\ Scheduler \in W!Actors /\ \A v \in Workers : v \in W!Actors /\ v # Scheduler
      /\ \A x \in WalksTracked : x \in W!Objects
      /\ Studies \subseteq WalksTracked
  BY WalksObjectsAre DEF W!Actors, WalksTracked
<1>2. DOMAIN walk' = W!Actors /\ walk'[Scheduler] = o /\ \A v \in Workers : walk'[v] = walk[v]
      /\ \A a \in W!Actors \ {Scheduler} : walk'[a] = walk[a]
  BY <1>0, <1>1 DEF WalksTyped
<1>3. WalksTyped'
  <2>1. \A a \in W!Actors : WalksOpTyped(a, walk'[a])
    BY <1>0, <1>2
  <2>. QED BY <1>0, <1>2, <2>1, WalksAllTyped DEF WalksTyped
<1>4. WalksRowsTrue'
  BY <1>0, <1>1 DEF WalksRowsTrue
<1>6. WalksGoneForGood'
  BY <1>0, <1>2 DEF WalksGoneForGood
<1>7. \A x \in W!Objects : WalksPending(x)' <=> WalksPending(x)
  OBVIOUS
<1>8. WalksHandsTrue'
  BY <1>0, <1>1, <1>2, <1>7 DEF WalksHandsTrue, WalksOpTyped
<1>9. WalksDoneTrue'
  BY <1>0, <1>7 DEF WalksDoneTrue, WalksTyped
<1>10. \A x \in W!Objects : WalksLost(x)' <=> WalksLost(x)
  BY DEF WalksLost
<1>11. WalksImportTrue'
  <2>1. \A x \in Studies : x \in W!Objects
    BY <1>1
  <2>. QED BY <1>0, <1>1, <1>2, <1>10, <2>1 DEF WalksImportTrue
<1>12. WalksImported'
  <2>1. bare \subseteq W!Objects
    BY <1>0, <1>1 DEF WalksTyped
  <2>. QED BY <1>0, <1>1, <1>7, <2>1 DEF WalksImported
<1>. QED BY <1>3, <1>4, <1>6, <1>8, <1>9, <1>11, <1>12 DEF WalksInv

\* Where the scheduler is through with nothing, before and after, nothing is less pending.
LEMMA WalksPendingStays ==
  ASSUME NEW o, o = walk'[Scheduler], walk[Scheduler].pc \in {"idle", "fetch"},
         o.pc \in {"fetch", "apply", "empty"},
         \A x \in W!Objects : queue[x] = None <=> queue'[x] = None
  PROVE  \A x \in W!Objects : WalksPending(x)' <=> WalksPending(x)
<1>1. \A x : ~WalksThrough(x)
  BY DEF WalksThrough
<1>2. \A x : ~WalksThrough(x)'
  BY DEF WalksThrough
<1>. QED BY <1>1, <1>2 DEF WalksPending

LEMMA WalksTakeRowKeeps ==
  ASSUME W!WalksAssumption, WalksInv, NEW x \in W!Objects, W!TakeRow(x)
  PROVE  WalksInv'
<1>r. PICK row : row = queue[x]
  OBVIOUS
<1>t. PICK t : t = [act |-> row.act, taken |-> TRUE]
  OBVIOUS
<1>0. WalksTyped /\ WalksRowsTrue /\ WalksOneRow /\ x \in Nat /\ Scheduler \in W!Actors
      /\ (x \notin Variables => x \in WalksTracked)
  BY WalksParts, WalksObjectsAre
<1>1. row \in [act : W!Acts, taken : BOOLEAN] /\ row # None
  BY <1>0, <1>r DEF W!TakeRow, WalksTyped
<1>2. PICK o : /\ walk' = [walk EXCEPT ![Scheduler] = o]
               /\ o = IF row.act = "delete" THEN W!Doing("delete", "apply", x, W!Listing({x}))
                      ELSE W!Doing(row.act, "fetch", IF x \in Variables THEN 0 ELSE x, W!NoHand)
  BY <1>r DEF W!TakeRow
<1>3. t \in [act : W!Acts, taken : BOOLEAN] /\ t # None /\ t.act = row.act /\ t.taken
  <2>1. None \notin [act : W!Acts, taken : BOOLEAN]
    BY DEF W!WalksAssumption
  <2>2. t \in [act : W!Acts, taken : BOOLEAN] /\ t.act = row.act /\ t.taken
    BY <1>1, <1>t
  <2>. QED BY <2>1, <2>2
<1>4. /\ queue' = [p \in W!Objects |-> IF p \in W!RowOf(x) THEN t ELSE queue[p]]
      /\ UNCHANGED <<catalog, held, bare, belief, done, older, imported>>
      /\ walk[Scheduler].pc = "idle"
  BY <1>r, <1>t, WalksIdleIs DEF W!TakeRow
<1>5. /\ x \notin Variables => (row.act = "delete" <=> catalog[x] = None)
      /\ x \in Variables <=> row.act = "variables"
      /\ row.act = "partial" => x \in Studies \ bare
  BY <1>0, <1>r, <1>1 DEF WalksRowsTrue
<1>6. /\ \A p \in W!RowOf(x) : p \in W!Objects /\ queue[p] = row
      /\ x \in W!RowOf(x) /\ (x \in Variables => W!RowOf(x) = Variables)
      /\ (x \notin Variables => W!RowOf(x) \cap Variables = {})
  BY <1>0, <1>r DEF W!RowOf, WalksOneRow, W!Objects
<1>7. /\ queue' \in [W!Objects -> [act : W!Acts, taken : BOOLEAN] \cup {None}]
      /\ \A y \in W!Objects : /\ queue[y] = None <=> queue'[y] = None
                              /\ queue[y] # None => queue'[y].act = queue[y].act
      /\ queue'[x] = t
  BY <1>0, <1>1, <1>3, <1>4, <1>6 DEF WalksTyped
<1>8. WalksOneRow'
  BY <1>0, <1>4, <1>6 DEF WalksOneRow, W!Objects
<1>9. walk'[Scheduler] = o
  BY <1>0, <1>2 DEF WalksTyped
<1>10. CASE row.act = "delete"
  <2>1. /\ o.key = "delete" /\ o.pc = "apply" /\ o.at = x /\ o.hand = W!Listing({x})
        /\ o.stale = {}
        /\ o = [key |-> o.key, pc |-> o.pc, at |-> o.at, hand |-> o.hand, stale |-> o.stale]
    BY <1>2, <1>10, WalksDoingIs
  <2>2. DOMAIN o.hand = {x} /\ o.hand[x] = None
    BY <2>1 DEF W!Listing
  <2>3. catalog[x] = None /\ x \in WalksTracked
    BY <1>0, <1>5, <1>10
  <2>4. WalksOpTyped(Scheduler, o)
    BY <1>0, <2>1, <2>2, <2>3, WalksObjectsAre
    DEF WalksOpTyped, W!Acts, WalksVersions, WalksByPage
  <2>5. WalksItemTrue'
    BY <1>3, <1>4, <1>7, <1>9, <1>10, <2>1, <2>2, <2>3, WalksItemNext
  <2>6. WalksReplaceTrue'
    BY <1>9, <2>1, WalksReplaceNext DEF WalksReplacing, WalksByPage
  <2>7. \A y \in W!Objects : WalksPending(y)' <=> WalksPending(y)
    BY <1>4, <1>7, <1>9, <2>1, WalksPendingStays
  <2>. QED BY <1>2, <1>4, <1>7, <1>8, <2>1, <2>2, <2>3, <2>4, <2>5, <2>6, <2>7,
              WalksSchedulerMoves
<1>11. CASE row.act # "delete"
  <2>1. /\ o.key = row.act /\ o.pc = "fetch" /\ o.at = (IF x \in Variables THEN 0 ELSE x)
        /\ o.hand = W!NoHand /\ o.stale = {}
        /\ o = [key |-> o.key, pc |-> o.pc, at |-> o.at, hand |-> o.hand, stale |-> o.stale]
    BY <1>2, <1>11, WalksDoingIs
  <2>2. DOMAIN o.hand = {}
    BY <2>1 DEF W!NoHand
  <2>3. /\ x \in Variables <=> o.key = "variables"
        /\ o.key \in W!Acts /\ o.key # "spoiled"
    BY <1>1, <1>5, <2>1 DEF W!Acts
  <2>4. WalksOpTyped(Scheduler, o)
    BY <1>0, <2>1, <2>2, <2>3, WalksObjectsAre DEF WalksOpTyped, WalksByPage
  <2>5. WalksItemTrue'
    BY <1>3, <1>4, <1>5, <1>7, <1>9, <1>11, <2>1, <2>3, WalksItemNext DEF WalksByPage
  <2>6. WalksReplaceTrue'
    <3>1. o.key \in WalksByPage => \A v \in Variables : queue'[v] # None
      BY <1>3, <1>4, <1>6, <2>3 DEF WalksByPage, W!Objects
    <3>2. WalksReplacing(o.key, o.pc, o.at, o.hand, queue', catalog')
      BY <2>1, <3>1 DEF WalksReplacing
    <3>. QED BY <1>9, <3>2, WalksReplaceNext
  <2>7. \A y \in W!Objects : WalksPending(y)' <=> WalksPending(y)
    BY <1>4, <1>7, <1>9, <2>1, WalksPendingStays
  <2>. QED BY <1>2, <1>4, <1>7, <1>8, <2>1, <2>2, <2>4, <2>5, <2>6, <2>7, WalksSchedulerMoves
<1>. QED BY <1>10, <1>11

LEMMA WalksFetchItemKeeps ==
  ASSUME W!WalksAssumption, WalksInv, W!FetchItem
  PROVE  WalksInv'
<1>s. PICK s : s = walk[Scheduler]
  OBVIOUS
<1>x. PICK x : x = s.at
  OBVIOUS
<1>0. /\ WalksTyped /\ WalksOneRow /\ s.pc = "fetch" /\ s.key # "variables"
      /\ Scheduler \in W!Actors
  BY <1>s, WalksParts, WalksObjectsAre DEF W!FetchItem
<1>1. s.key \notin WalksByPage
  BY <1>s, <1>0, WalksParts DEF WalksOpTyped, WalksByPage
<1>2. /\ x \in W!Objects /\ x \in WalksTracked /\ s.key \in W!Acts
      /\ queue[x] # None
      /\ queue[x].taken => s.key = queue[x].act
      /\ s.key # "delete"
      /\ s.key = "partial" => x \in Studies \ bare
  BY <1>s, <1>x, <1>0, <1>1, WalksItemIs
<1>3. PICK o : o = W!Doing(s.key, "apply", x, W!Fetched({x}))
  OBVIOUS
<1>4. /\ o.key = s.key /\ o.pc = "apply" /\ o.at = x /\ o.hand = W!Fetched({x}) /\ o.stale = {}
      /\ o = [key |-> o.key, pc |-> o.pc, at |-> o.at, hand |-> o.hand, stale |-> o.stale]
  BY <1>3, WalksDoingIs
<1>5. walk' = [walk EXCEPT ![Scheduler] = o] /\ (x \in Studies => catalog[x] # None)
      /\ UNCHANGED <<catalog, held, bare, belief, queue, done, older, imported>>
  BY <1>s, <1>x, <1>3 DEF W!FetchItem, W!Steps
<1>6. DOMAIN o.hand = {x} /\ o.hand[x] = catalog[x] /\ catalog[x] \in WalksVersions
  BY <1>0, <1>2, <1>4 DEF W!Fetched, WalksTyped
<1>7. WalksOpTyped(Scheduler, o)
  BY <1>1, <1>2, <1>4, <1>6, WalksObjectsAre DEF WalksOpTyped
<1>8. /\ queue' \in [W!Objects -> [act : W!Acts, taken : BOOLEAN] \cup {None}]
      /\ walk'[Scheduler] = o
  BY <1>0, <1>5 DEF WalksTyped
<1>9. WalksItemTrue'
  BY <1>2, <1>4, <1>5, <1>6, <1>8, WalksItemNext
<1>10. WalksOneRow' /\ WalksReplaceTrue'
  <2>1. WalksReplaceTrue'
    BY <1>1, <1>4, <1>8, WalksReplaceNext DEF WalksReplacing
  <2>. QED BY <1>0, <1>5, <2>1 DEF WalksOneRow
<1>11. \A y \in W!Objects : WalksPending(y)' <=> WalksPending(y)
  BY <1>s, <1>0, <1>4, <1>5, <1>8, WalksPendingStays
<1>. QED BY <1>4, <1>5, <1>6, <1>7, <1>8, <1>9, <1>10, <1>11, WalksSchedulerMoves

\* The next page of a study's variables: what is in it, and that there is none before it.
LEMMA WalksVariablesPage ==
  ASSUME W!WalksAssumption, WalksInv, walk[Scheduler].at \in Nat
  PROVE  /\ W!VariablesPage \subseteq Variables /\ W!VariablesPage \subseteq W!Objects
         /\ W!VariablesPage \cap Studies = {}
         /\ \A v \in W!VariablesPage : catalog[v] # None
         /\ W!VariablesPage = {} =>
              \A v \in Variables : v <= walk[Scheduler].at \/ catalog[v] = None
         /\ \A v \in Variables \ W!VariablesPage : v > walk[Scheduler].at =>
              catalog[v] = None \/ \A p \in W!VariablesPage : p < v
         /\ DOMAIN W!Fetched(W!VariablesPage) = W!VariablesPage
         /\ \A v \in W!VariablesPage : /\ W!Fetched(W!VariablesPage)[v] = catalog[v]
                                       /\ catalog[v] \in WalksVersions
<1>. DEFINE U == {v \in Variables : catalog[v] # None}
<1>a. PICK at : at = walk[Scheduler].at
  OBVIOUS
<1>b. PICK block : block = W!After(U, at, PageSize)
  OBVIOUS
<1>0. WalksTyped /\ Variables \subseteq W!Objects /\ U \subseteq W!Objects /\ U \subseteq Nat
      /\ PageSize \in Nat \ {0} /\ Variables \cap Studies = {} /\ Variables \subseteq Nat
  BY WalksParts DEF W!Objects, W!WalksAssumption
<1>1. W!VariablesPage = block
  BY <1>a, <1>b DEF W!VariablesPage
<1>2. /\ block \subseteq U
      /\ block = {} => \A v \in U : v <= at
      /\ \A v \in U \ block : v > at => \A p \in block : p < v
  BY <1>a, <1>b, <1>0, WalksPages
<1>3. ASSUME NEW v \in Variables PROVE v \in Nat /\ (v \in U \/ catalog[v] = None)
  BY <1>0
<1>4. DOMAIN W!Fetched(block) = block /\ \A v \in block : W!Fetched(block)[v] = catalog[v]
  BY DEF W!Fetched
<1>5. \A v \in block : catalog[v] \in WalksVersions
  BY <1>0, <1>2 DEF WalksTyped
<1>6. block = {} => \A v \in Variables : v <= at \/ catalog[v] = None
  BY <1>2, <1>3
<1>7. \A v \in Variables \ block : v > at => catalog[v] = None \/ \A p \in block : p < v
  BY <1>2, <1>3
<1>. QED BY <1>a, <1>0, <1>1, <1>2, <1>4, <1>5, <1>6, <1>7

LEMMA WalksFirstPageKeeps ==
  ASSUME W!WalksAssumption, WalksInv, W!FirstPage
  PROVE  WalksInv'
<1>s. PICK s : s = walk[Scheduler]
  OBVIOUS
<1>u. PICK block : block = W!VariablesPage
  OBVIOUS
<1>0. /\ WalksTyped /\ WalksOneRow /\ WalksReplaceTrue /\ WalksOpTyped(Scheduler, s)
      /\ s.pc = "fetch" /\ s.key = "variables" /\ Scheduler \in W!Actors
      /\ s.at = 0
  BY <1>s, WalksParts, WalksObjectsAre DEF W!FirstPage, WalksOpTyped, WalksByPage
<1>3. PICK o : o = W!Doing(s.key, "empty", 0, W!Fetched(block))
  OBVIOUS
<1>4. /\ o.key = "variables" /\ o.pc = "empty" /\ o.at = 0 /\ o.hand = W!Fetched(block)
      /\ o.stale = {}
      /\ o = [key |-> o.key, pc |-> o.pc, at |-> o.at, hand |-> o.hand, stale |-> o.stale]
  BY <1>0, <1>3, WalksDoingIs
<1>5. walk' = [walk EXCEPT ![Scheduler] = o]
      /\ UNCHANGED <<catalog, held, bare, belief, queue, done, older, imported>>
  BY <1>s, <1>u, <1>3 DEF W!FirstPage, W!Steps
<1>6. /\ block \subseteq Variables /\ block \subseteq W!Objects /\ DOMAIN o.hand = block
      /\ \A v \in block : /\ catalog[v] # None /\ o.hand[v] = catalog[v]
                          /\ catalog[v] \in WalksVersions
      /\ \A v \in Variables \ block : v > 0 =>
           catalog[v] = None \/ \A p \in block : p < v
  <2>1. walk[Scheduler].at = 0 /\ walk[Scheduler].at \in Nat
    BY <1>s, <1>0
  <2>. QED BY <1>u, <1>4, <2>1, WalksVariablesPage
<1>7. WalksOpTyped(Scheduler, o)
  BY <1>4, <1>6, WalksObjectsAre DEF WalksOpTyped, WalksByPage
<1>8. /\ queue' \in [W!Objects -> [act : W!Acts, taken : BOOLEAN] \cup {None}]
      /\ walk'[Scheduler] = o
  BY <1>0, <1>5 DEF WalksTyped
<1>9. WalksItemTrue'
  BY <1>4, <1>8, WalksItemNext DEF WalksByPage
<1>10. WalksOneRow' /\ WalksReplaceTrue'
  <2>1. \A v \in Variables : queue[v] # None
    BY <1>s, <1>0, Zenon DEF WalksReplaceTrue, WalksReplacing, WalksByPage
  <2>2. WalksReplacing(o.key, o.pc, o.at, o.hand, queue', catalog')
    BY <1>4, <1>5, <1>6, <2>1 DEF WalksReplacing
  <2>3. WalksReplaceTrue'
    BY <1>8, <2>2, WalksReplaceNext
  <2>. QED BY <1>0, <1>5, <2>3 DEF WalksOneRow
<1>11. \A y \in W!Objects : WalksPending(y)' <=> WalksPending(y)
  BY <1>s, <1>0, <1>4, <1>5, <1>8, WalksPendingStays
<1>. QED BY <1>4, <1>5, <1>6, <1>7, <1>8, <1>9, <1>10, <1>11, WalksSchedulerMoves

LEMMA WalksNextPageKeeps ==
  ASSUME W!WalksAssumption, WalksInv, W!NextPage
  PROVE  WalksInv'
<1>s. PICK s : s = walk[Scheduler]
  OBVIOUS
<1>u. PICK block : block = W!VariablesPage
  OBVIOUS
<1>0. /\ WalksTyped /\ WalksOneRow /\ WalksReplaceTrue /\ WalksOpTyped(Scheduler, s)
      /\ s.pc = "read" /\ s.key \in WalksByPage /\ s.key \in {"variables", "spoiled"}
      /\ Scheduler \in W!Actors /\ s.at \in Nat
  BY <1>s, WalksParts, WalksObjectsAre DEF W!NextPage, WalksOpTyped, WalksByPage
<1>1. /\ \A v \in Variables : queue[v] # None
      /\ UNCHANGED <<catalog, held, bare, belief, queue, done, older, imported>>
      /\ WalksOneRow'
  BY <1>s, <1>0, Zenon DEF WalksReplaceTrue, WalksReplacing, W!NextPage, WalksOneRow
<1>2. /\ block \subseteq Variables /\ block \subseteq W!Objects /\ block \cap Studies = {}
      /\ block = {} => \A v \in Variables : v <= s.at \/ catalog[v] = None
      /\ \A v \in block : /\ catalog[v] # None /\ W!Fetched(block)[v] = catalog[v]
                          /\ catalog[v] \in WalksVersions
      /\ DOMAIN W!Fetched(block) = block
      /\ \A v \in Variables \ block : v > s.at =>
           catalog[v] = None \/ \A p \in block : p < v
  BY <1>s, <1>u, <1>0, WalksVariablesPage
<1>3. ASSUME NEW pc \in {"write", "ack"}, NEW hand, W!Steps(Scheduler, pc, s.at, hand),
             pc = "write" => block # {} /\ hand = W!Fetched(block),
             pc = "ack" => block = {} /\ hand = W!NoHand /\ s.key = "variables"
      PROVE  WalksInv'
  <2>1. PICK o : o = W!Doing(s.key, pc, s.at, hand)
    OBVIOUS
  <2>2. /\ o.key = s.key /\ o.pc = pc /\ o.at = s.at /\ o.hand = hand /\ o.stale = {}
        /\ o = [key |-> o.key, pc |-> o.pc, at |-> o.at, hand |-> o.hand, stale |-> o.stale]
    BY <2>1, WalksDoingIs
  <2>3. walk' = [walk EXCEPT ![Scheduler] = o]
    BY <1>s, <1>3, <2>1 DEF W!Steps
  <2>4. /\ pc = "write" => DOMAIN o.hand = block
        /\ pc = "ack" => DOMAIN o.hand = {}
        /\ DOMAIN o.hand \subseteq block
        /\ \A v \in DOMAIN o.hand : o.hand[v] = catalog[v]
    BY <1>2, <1>3, <2>2 DEF W!NoHand
  <2>5. WalksOpTyped(Scheduler, o)
    BY <1>0, <1>2, <1>3, <2>2, <2>4, WalksObjectsAre DEF WalksOpTyped, WalksByPage, W!Acts
  <2>6. /\ queue' \in [W!Objects -> [act : W!Acts, taken : BOOLEAN] \cup {None}]
        /\ walk'[Scheduler] = o
    BY <1>0, <1>1, <2>3 DEF WalksTyped
  <2>7. WalksItemTrue'
    BY <1>0, <2>2, <2>6, WalksItemNext
  <2>8. WalksReplaceTrue'
    <3>1. WalksReplacing(o.key, o.pc, o.at, o.hand, queue', catalog')
      BY <1>1, <1>2, <1>3, <2>2, <2>4 DEF WalksReplacing
    <3>. QED BY <2>6, <3>1, WalksReplaceNext
  <2>9. ASSUME NEW y \in W!Objects PROVE WalksPending(y)' <=> WalksPending(y)
    <3>1. WalksThrough(y) <=>
            s.key = "variables" /\ y \in Variables /\ (y <= s.at \/ catalog[y] = None)
      BY <1>s, <1>0, Zenon DEF WalksThrough
    <3>2. WalksThrough(y)' <=>
            s.key = "variables" /\ y \in Variables /\ (y <= s.at \/ catalog[y] = None)
      BY <1>0, <1>1, <2>2, <2>6 DEF WalksThrough
    <3>. QED BY <1>1, <3>1, <3>2 DEF WalksPending
  <2>. QED BY <1>1, <1>2, <2>2, <2>3, <2>4, <2>5, <2>6, <2>7, <2>8, <2>9, WalksSchedulerMoves
<1>4. CASE block # {}
  <2>1. W!Steps(Scheduler, "write", s.at, W!Fetched(block))
    BY <1>s, <1>u, <1>4 DEF W!NextPage
  <2>. QED BY <1>3, <1>4, <2>1
<1>5. CASE block = {} /\ s.key = "variables"
  <2>1. W!Steps(Scheduler, "ack", s.at, W!NoHand)
    BY <1>s, <1>u, <1>5 DEF W!NextPage
  <2>. QED BY <1>3, <1>5, <2>1
<1>6. CASE block = {} /\ s.key # "variables"
  <2>1. walk' = [walk EXCEPT ![Scheduler] = W!Idle]
    BY <1>s, <1>u, <1>6 DEF W!NextPage
  <2>2. walk' = [a \in W!Actors |-> IF a \in {Scheduler} THEN W!Idle ELSE walk[a]]
    BY <1>0, <2>1 DEF WalksTyped
  <2>. QED BY <1>1, <2>2, WalksStops
<1>. QED BY <1>4, <1>5, <1>6

LEMMA WalksApplyKeeps ==
  ASSUME W!WalksAssumption, WalksInv, W!Apply
  PROVE  WalksInv'
<1>s. PICK s : s = walk[Scheduler]
  OBVIOUS
<1>y. PICK y : y = s.at
  OBVIOUS
<1>. DEFINE o == W!Doing(s.key, "ack", y, W!NoHand)
<1>0. /\ WalksTyped /\ WalksRowsTrue /\ WalksOneRow /\ WalksItemTrue /\ WalksReplaceTrue
      /\ WalksGoneForGood /\ WalksHandsTrue
      /\ WalksDoneTrue
      /\ WalksImportTrue /\ WalksImported
      /\ \A a \in W!Actors : WalksOpTyped(a, walk[a])
  BY WalksParts
<1>1. /\ Scheduler \in W!Actors /\ \A v \in Workers : v \in W!Actors /\ v # Scheduler
      /\ \A x \in WalksTracked : x \in W!Objects /\ x \notin Variables
      /\ \A x \in Studies : x \in W!Objects
  BY WalksObjectsAre DEF W!Actors, WalksTracked
<1>2. s.pc = "apply"
  BY <1>s DEF W!Apply
<1>z. s.key \notin WalksByPage
  BY <1>s, <1>0, <1>1, <1>2 DEF WalksOpTyped
<1>3. /\ y \in W!Objects /\ y \in WalksTracked /\ y \notin Variables /\ s.key \in W!Acts
      /\ WalksOpTyped(Scheduler, s)
      /\ queue[y] \in [act : W!Acts, taken : BOOLEAN] /\ queue[y] # None
      /\ queue[y].taken => s.key = queue[y].act
      /\ s.key = "delete" => catalog[y] = None
      /\ s.key = "partial" => y \in Studies \ bare
      /\ DOMAIN s.hand = {y} /\ s.hand[y] \in WalksVersions
      /\ queue[y].taken => s.hand[y] = catalog[y]
  BY <1>s, <1>y, <1>1, <1>2, <1>z, WalksItemIs, WalksObjectsAre
<1>4. /\ W!Written(Scheduler, {y}) /\ W!Goes(Scheduler, o, {y})
      /\ bare' = IF s.key = "partial" /\ held[y] # None THEN bare ELSE bare \ {y}
      /\ UNCHANGED <<catalog, belief, queue, imported>>
  BY <1>s, <1>y DEF W!Apply
<1>5. /\ o.key = s.key /\ o.pc = "ack" /\ o.at = y /\ o.hand = W!NoHand /\ o.stale = {}
      /\ o = [key |-> o.key, pc |-> o.pc, at |-> o.at, hand |-> o.hand, stale |-> o.stale]
  BY WalksDoingIs
<1>6. WalksOpTyped(Scheduler, o)
  <2>1. DOMAIN o.hand = {}
    BY <1>5 DEF W!NoHand
  <2>. HIDE DEF o
  <2>. QED BY <1>3, <1>5, <1>z, <2>1, WalksObjectsAre DEF WalksOpTyped
<1>7. /\ DOMAIN walk' = W!Actors /\ walk'[Scheduler] = o
           /\ \A b \in W!Actors : WalksOpTyped(b, walk'[b])
      /\ \A b \in W!Actors \ {Scheduler} :
           /\ walk'[b].key = walk[b].key /\ walk'[b].pc = walk[b].pc /\ walk'[b].at = walk[b].at
           /\ walk'[b].hand = walk[b].hand
           /\ walk[b].pc \in {"write", "sync", "apply"} =>
                walk'[b].stale = walk[b].stale \cup ({y} \cap DOMAIN walk[b].hand)
  BY <1>1, <1>4, <1>6, WalksGoesIs
<1>8. /\ held' \in [W!Objects -> WalksVersions] /\ done' = done \cup {y}
      /\ done' \subseteq W!Objects /\ older' \subseteq W!Objects
      /\ held'[y] = s.hand[y]
      /\ \A x \in W!Objects \ {y} : held'[x] = held[x] /\ (x \in older' <=> x \in older)
  BY <1>s, <1>1, <1>3, <1>4, WalksWrittenTyped
<1>. HIDE DEF o
<1>9. bare' = bare \ {y}
  BY <1>3, <1>4
<1>10. /\ queue[y].taken => held'[y] = catalog[y]
       /\ ~queue[y].taken => WalksPending(y)'
  BY <1>3, <1>4, <1>5, <1>7, <1>8 DEF WalksPending, WalksThrough
<1>11. \A x \in W!Objects \ {y} : WalksPending(x)' <=> WalksPending(x)
  BY <1>s, <1>2, <1>4, <1>5, <1>7, <1>z DEF WalksPending, WalksThrough, WalksByPage
<1>12. WalksTyped'
  <2>1. bare' \subseteq {z \in Studies : held'[z] # None}
    BY <1>0, <1>1, <1>8, <1>9 DEF WalksTyped
  <2>. QED BY <1>0, <1>4, <1>7, <1>8, <2>1, WalksAllTyped DEF WalksTyped
<1>13. WalksRowsTrue'
  BY <1>0, <1>4, <1>9 DEF WalksRowsTrue
<1>14. WalksItemTrue'
  <2>1. /\ queue'[y] # None
        /\ queue'[y].taken => s.key = queue'[y].act
        /\ s.key = "delete" => catalog'[y] = None
        /\ s.key = "partial" => y \in Studies \ bare'
        /\ y \notin bare'
        /\ queue'[y].taken => held'[y] = catalog'[y]
    BY <1>3, <1>4, <1>9, <1>10
  <2>. QED BY <1>5, <1>7, <2>1, WalksItemNext
<1>x. WalksOneRow' /\ WalksReplaceTrue'
  <2>1. WalksOneRow'
    BY <1>0, <1>4 DEF WalksOneRow
  <2>2. WalksReplacing(o.key, o.pc, o.at, o.hand, queue', catalog')
    BY <1>5, <1>z DEF WalksReplacing
  <2>. QED BY <1>7, <2>1, <2>2, WalksReplaceNext
<1>15. WalksGoneForGood'
  BY <1>0, <1>4, <1>5, <1>7 DEF WalksGoneForGood
<1>16. WalksHandsTrue'
  <2>. SUFFICES ASSUME NEW w \in Workers, walk'[w].pc \in {"write", "sync"},
                       NEW x \in DOMAIN walk'[w].hand \ walk'[w].stale
                PROVE  walk'[w].hand[x] = catalog'[x] \/ WalksPending(x)'
    BY DEF WalksHandsTrue
  <2>1. /\ walk[w].pc \in {"write", "sync"} /\ walk'[w].hand = walk[w].hand
        /\ walk'[w].stale = walk[w].stale \cup ({y} \cap DOMAIN walk[w].hand)
        /\ DOMAIN walk[w].hand \subseteq W!Objects
    BY <1>0, <1>1, <1>7 DEF WalksOpTyped
  <2>2. x # y /\ x \in W!Objects /\ x \in DOMAIN walk[w].hand \ walk[w].stale
    BY <2>1
  <2>. QED BY <1>0, <1>4, <1>11, <2>1, <2>2 DEF WalksHandsTrue
<1>17. WalksDoneTrue'
  <2>1. done \subseteq W!Objects
    BY <1>0 DEF WalksTyped
  <2>. QED BY <1>0, <1>4, <1>8, <1>10, <1>11, <2>1 DEF WalksDoneTrue
<1>18. \A x \in W!Objects : WalksLost(x)' => WalksLost(x)
  <2>. SUFFICES ASSUME NEW x \in W!Objects, WalksLost(x)' PROVE WalksLost(x)
    OBVIOUS
  <2>1. x # y
    BY <1>3, <1>4 DEF WalksLost
  <2>. QED BY <1>4, <1>8, <1>9, <2>1 DEF WalksLost
<1>19. WalksImportTrue'
  <2>1. \A v \in Workers : walk'[v].key = walk[v].key /\ walk'[v].pc = walk[v].pc
                           /\ walk'[v].at = walk[v].at /\ walk'[v].hand = walk[v].hand
    BY <1>1, <1>7
  <2>. QED BY <1>0, <1>1, <1>4, <1>9, <1>18, <2>1 DEF WalksImportTrue
<1>20. WalksImported'
  <2>. SUFFICES ASSUME imported' = "yes" PROVE WalksImported'
    BY DEF WalksImported
  <2>1. ASSUME NEW x \in WalksTracked \ (older' \cup bare')
        PROVE held'[x] = catalog'[x] \/ WalksPending(x)'
    <3>1. x = y => held'[x] = catalog'[x] \/ WalksPending(x)'
      BY <1>4, <1>10
    <3>2. x # y => held'[x] = catalog'[x] \/ WalksPending(x)'
      BY <1>0, <1>1, <1>4, <1>8, <1>9, <1>11 DEF WalksImported
    <3>. QED BY <3>1, <3>2
  <2>. QED BY <1>0, <1>4, <1>9, <2>1 DEF WalksImported
<1>. QED BY <1>12, <1>13, <1>14, <1>x, <1>15, <1>16, <1>17, <1>19, <1>20 DEF WalksInv

\* The scheduler removes or writes variables, and goes on to the next page.
LEMMA WalksVariablesWritten ==
  ASSUME W!WalksAssumption, WalksInv, NEW o, WalksOpTyped(Scheduler, o), o.stale = {},
         o.pc \in {"read", "write"}, NEW U \in SUBSET Variables, W!Goes(Scheduler, o, U),
         held' \in [W!Objects -> WalksVersions], done' = done \cup U,
         older' \subseteq W!Objects,
         \A x \in W!Objects \ U : held'[x] = held[x] /\ (x \in older' <=> x \in older),
         \A x \in U : x \in older' \/ held'[x] = catalog[x] \/ WalksPending(x)',
         \A x \in W!Objects \ U : WalksPending(x) => WalksPending(x)',
         \A x \in DOMAIN o.hand : o.hand[x] = None => catalog[x] = None,
         UNCHANGED <<catalog, bare, belief, queue, imported>>,
         o.key \in WalksByPage, WalksReplaceTrue'
  PROVE  WalksInv'
<1>0. /\ WalksTyped /\ WalksRowsTrue /\ WalksOneRow /\ WalksItemTrue /\ WalksReplaceTrue
      /\ WalksGoneForGood /\ WalksHandsTrue
      /\ WalksDoneTrue
      /\ WalksImportTrue /\ WalksImported
      /\ \A a \in W!Actors : WalksOpTyped(a, walk[a])
  BY WalksParts
<1>1. /\ Scheduler \in W!Actors /\ \A v \in Workers : v \in W!Actors /\ v # Scheduler
      /\ U \subseteq W!Objects
      /\ \A x \in WalksTracked : x \in W!Objects /\ x \notin U
      /\ \A x \in Studies : x \in WalksTracked
  BY WalksObjectsAre DEF W!Actors, WalksTracked, W!Objects
<1>2. /\ DOMAIN walk' = W!Actors /\ walk'[Scheduler] = o
      /\ \A b \in W!Actors : WalksOpTyped(b, walk'[b])
      /\ \A b \in W!Actors \ {Scheduler} :
           /\ walk'[b].key = walk[b].key /\ walk'[b].pc = walk[b].pc /\ walk'[b].at = walk[b].at
           /\ walk'[b].hand = walk[b].hand
           /\ walk[b].pc \in {"write", "sync", "apply"} =>
                walk'[b].stale = walk[b].stale \cup (U \cap DOMAIN walk[b].hand)
  BY <1>1, WalksGoesIs
<1>3. WalksTyped'
  <2>1. bare' \subseteq {s \in Studies : held'[s] # None}
    BY <1>0, <1>1 DEF WalksTyped
  <2>2. done' \subseteq W!Objects
    BY <1>0, <1>1 DEF WalksTyped
  <2>. QED BY <1>0, <1>2, <2>1, <2>2, WalksAllTyped DEF WalksTyped
<1>4. WalksRowsTrue' /\ WalksOneRow'
  BY <1>0 DEF WalksRowsTrue, WalksOneRow
<1>5. WalksItemTrue'
  BY <1>2, WalksItemNext
<1>6. WalksGoneForGood'
  BY <1>0, <1>2 DEF WalksGoneForGood
<1>7. WalksHandsTrue'
  <2>. SUFFICES ASSUME NEW w \in Workers, walk'[w].pc \in {"write", "sync"},
                       NEW x \in DOMAIN walk'[w].hand \ walk'[w].stale
                PROVE  walk'[w].hand[x] = catalog'[x] \/ WalksPending(x)'
    BY DEF WalksHandsTrue
  <2>1. /\ walk[w].pc \in {"write", "sync"} /\ walk'[w].hand = walk[w].hand
        /\ walk'[w].stale = walk[w].stale \cup (U \cap DOMAIN walk[w].hand)
        /\ DOMAIN walk[w].hand \subseteq W!Objects
    BY <1>0, <1>1, <1>2 DEF WalksOpTyped
  <2>2. x \notin U /\ x \in W!Objects /\ x \in DOMAIN walk[w].hand \ walk[w].stale
    BY <2>1
  <2>. QED BY <1>0, <2>1, <2>2 DEF WalksHandsTrue
<1>8. WalksDoneTrue'
  <2>. SUFFICES ASSUME NEW x \in done' \ older' PROVE held'[x] = catalog'[x] \/ WalksPending(x)'
    BY DEF WalksDoneTrue
  <2>1. CASE x \in U
    BY <2>1
  <2>2. CASE x \notin U
    <3>1. x \in W!Objects /\ x \in done \ older
      BY <1>0, <2>2 DEF WalksTyped
    <3>. QED BY <1>0, <2>2, <3>1 DEF WalksDoneTrue
  <2>. QED BY <2>1, <2>2
<1>9. \A x \in WalksTracked : WalksLost(x)' => WalksLost(x)
  BY <1>1 DEF WalksLost
<1>10. WalksImportTrue'
  <2>1. \A v \in Workers : walk'[v].key = walk[v].key /\ walk'[v].pc = walk[v].pc
                           /\ walk'[v].at = walk[v].at /\ walk'[v].hand = walk[v].hand
    BY <1>1, <1>2
  <2>2. /\ \A x \in Studies : WalksLost(x)' => WalksLost(x)
        /\ bare' = bare /\ belief' = belief /\ imported' = imported
    BY <1>1, <1>9
  <2>3. ASSUME NEW v \in Workers, walk'[v].key = "search_index_import"
        PROVE  /\ imported' # "yes"
               /\ DOMAIN walk'[v].hand \subseteq WalksTracked \ bare'
               /\ imported' = "under way" =>
                    /\ walk'[v].pc = "studies" => \A x \in Studies : WalksLost(x)' =>
                         x \in DOMAIN walk'[v].hand
                    /\ walk'[v].pc = "citations" => \A x \in Studies : WalksLost(x)' =>
                         x \in DOMAIN walk'[v].hand
                    /\ walk'[v].pc = "report" => \A x \in WalksTracked : WalksLost(x)' =>
                         x \in DOMAIN walk'[v].hand /\ walk'[v].at < x
                    /\ walk'[v].pc = "trigger" => \A x \in WalksTracked : ~WalksLost(x)'
    BY <1>0, <1>9, <2>1, <2>2, <2>3 DEF WalksImportTrue
  <2>4. bare' \cap belief' = {}
    BY <1>0, <2>2 DEF WalksImportTrue
  <2>5. \A v, w \in Workers : walk[v].key = "search_index_import"
          /\ walk[w].key = "search_index_import" => v = w
    BY <1>0 DEF WalksImportTrue
  <2>6. \A v, w \in Workers : walk'[v].key = "search_index_import"
          /\ walk'[w].key = "search_index_import" => v = w
    BY ONLY <2>1, <2>5
  <2>. QED BY <2>3, <2>4, <2>6 DEF WalksImportTrue
<1>11. WalksImported'
  <2>. SUFFICES ASSUME imported' = "yes" PROVE WalksImported'
    BY DEF WalksImported
  <2>1. ASSUME NEW x \in WalksTracked \ (older' \cup bare')
        PROVE held'[x] = catalog'[x] \/ WalksPending(x)'
    BY <1>0, <1>1 DEF WalksImported
  <2>. QED BY <1>0, <2>1 DEF WalksImported
<1>. QED BY <1>3, <1>4, <1>5, <1>6, <1>7, <1>8, <1>10, <1>11 DEF WalksInv

LEMMA WalksRemoveAllKeeps ==
  ASSUME W!WalksAssumption, WalksInv, W!RemoveAll
  PROVE  WalksInv'
<1>s. PICK s : s = walk[Scheduler]
  OBVIOUS
<1>0. /\ WalksTyped /\ WalksGoneForGood /\ WalksReplaceTrue /\ WalksOpTyped(Scheduler, s)
      /\ s.pc = "empty" /\ s.key \in WalksByPage /\ s.key = "variables"
      /\ Scheduler \in W!Actors /\ s.at = 0 /\ Variables \subseteq W!Objects
      /\ W!Objects \subseteq Nat \ {0}
  BY <1>s, WalksParts, WalksObjectsAre DEF W!RemoveAll, WalksOpTyped, WalksByPage, W!Objects
<1>1. /\ \A v \in Variables : queue[v] # None
      /\ \A v \in Variables \cap DOMAIN s.hand : queue[v].taken => s.hand[v] = catalog[v]
      /\ \A v \in Variables \ DOMAIN s.hand : v > s.at =>
           catalog[v] = None \/ \A p \in DOMAIN s.hand : p < v
      /\ \A v \in DOMAIN s.hand : s.hand[v] = None => catalog[v] = None
      /\ DOMAIN s.hand \subseteq Variables /\ \A v \in DOMAIN s.hand : s.hand[v] \in WalksVersions
  BY <1>s, <1>0, Zenon
  DEF WalksReplaceTrue, WalksReplacing, WalksGoneForGood, WalksOpTyped
<1>2. PICK pc : pc = IF DOMAIN s.hand = {} THEN "read" ELSE "write"
  OBVIOUS
<1>3. PICK o : o = W!Doing("variables", pc, 0, s.hand)
  OBVIOUS
<1>4. /\ o.key = "variables" /\ o.pc = pc /\ o.at = 0 /\ o.hand = s.hand /\ o.stale = {}
      /\ o = [key |-> o.key, pc |-> o.pc, at |-> o.at, hand |-> o.hand, stale |-> o.stale]
  BY <1>3, WalksDoingIs
<1>5. /\ W!Goes(Scheduler, o, Variables)
      /\ held' = [x \in W!Objects |-> IF x \in Variables THEN None ELSE held[x]]
      /\ done' = done \cup Variables /\ older' = older \ Variables
      /\ UNCHANGED <<catalog, bare, belief, queue, imported>>
  BY <1>s, <1>2, <1>3 DEF W!RemoveAll
<1>6. WalksOpTyped(Scheduler, o)
  BY <1>0, <1>1, <1>2, <1>4, WalksObjectsAre DEF WalksOpTyped, WalksByPage
<1>7. walk'[Scheduler] = o
  BY <1>0, <1>5 DEF W!Goes
<1>8. /\ held' \in [W!Objects -> WalksVersions] /\ older' \subseteq W!Objects
      /\ \A x \in W!Objects \ Variables : held'[x] = held[x] /\ (x \in older' <=> x \in older)
      /\ \A x \in Variables : held'[x] = None
  BY <1>0, <1>5 DEF WalksTyped, WalksVersions
<1>9. ASSUME NEW x \in Variables, catalog[x] # None PROVE WalksPending(x)'
  <2>1. x \in Nat \ {0} /\ ~(x <= 0)
    BY <1>0
  <2>2. pc # "ack"
    BY <1>2
  <2>3. ~WalksThrough(x)'
    BY <1>4, <1>5, <1>7, <1>9, <2>1, <2>2 DEF WalksThrough, WalksByPage
  <2>. QED BY <1>1, <1>5, <2>3 DEF WalksPending
<1>10. \A x \in W!Objects \ Variables : WalksPending(x) => WalksPending(x)'
  <2>1. \A x \in W!Objects \ Variables : ~WalksThrough(x)'
    BY <1>4, <1>7 DEF WalksThrough, WalksByPage
  <2>. QED BY <1>5, <2>1 DEF WalksPending
<1>11. WalksReplaceTrue'
  <2>1. WalksReplacing(o.key, o.pc, o.at, o.hand, queue', catalog')
    BY <1>0, <1>1, <1>2, <1>4, <1>5 DEF WalksReplacing
  <2>. QED BY <1>7, <2>1, WalksReplaceNext
<1>12. o.pc \in {"read", "write"} /\ o.key \in WalksByPage
  BY <1>2, <1>4 DEF WalksByPage
<1>13. \A x \in Variables : x \in older' \/ held'[x] = catalog[x] \/ WalksPending(x)'
  BY <1>8, <1>9
<1>14. \A x \in DOMAIN o.hand : o.hand[x] = None => catalog[x] = None
  BY <1>1, <1>4
<1>. QED BY <1>4, <1>5, <1>6, <1>8, <1>10, <1>11, <1>12, <1>13, <1>14, WalksVariablesWritten

LEMMA WalksWriteVariablesKeeps ==
  ASSUME W!WalksAssumption, WalksInv, W!WriteVariables
  PROVE  WalksInv'
<1>s. PICK s : s = walk[Scheduler]
  OBVIOUS
<1>p. PICK block : block = DOMAIN s.hand
  OBVIOUS
<1>0. /\ WalksTyped /\ WalksReplaceTrue /\ WalksOpTyped(Scheduler, s)
      /\ s.pc = "write" /\ s.key \in WalksByPage /\ s.key \in {"variables", "spoiled"}
      /\ Scheduler \in W!Actors /\ s.at \in Nat /\ Variables \subseteq W!Objects
      /\ block # {} /\ block \subseteq Variables
      /\ W!Objects \subseteq Nat \ {0}
  BY <1>s, <1>p, WalksParts, WalksObjectsAre
  DEF W!WriteVariables, WalksOpTyped, WalksByPage, W!Objects
<1>1. /\ \A v \in Variables : queue[v] # None
      /\ \A v \in Variables \cap block : queue[v].taken => s.hand[v] = catalog[v]
      /\ \A v \in Variables \ block : v > s.at =>
           catalog[v] = None \/ \A p \in block : p < v
  BY <1>s, <1>p, <1>0, Zenon DEF WalksReplaceTrue, WalksReplacing
<1>2. PICK ok \in SUBSET block :
        /\ W!Written(Scheduler, ok)
        /\ W!Goes(Scheduler, W!Doing(IF ok = block THEN s.key ELSE "spoiled", "read",
                                     W!Last(block), W!NoHand), ok)
        /\ UNCHANGED <<catalog, bare, belief, queue, imported>>
  BY <1>s, <1>p DEF W!WriteVariables
<1>k. PICK key : key = IF ok = block THEN s.key ELSE "spoiled"
  OBVIOUS
<1>3. PICK o : o = W!Doing(key, "read", W!Last(block), W!NoHand)
  OBVIOUS
<1>4. /\ o.key = key /\ o.pc = "read" /\ o.at = W!Last(block) /\ o.hand = W!NoHand
      /\ o.stale = {}
      /\ o = [key |-> o.key, pc |-> o.pc, at |-> o.at, hand |-> o.hand, stale |-> o.stale]
  BY <1>3, WalksDoingIs
<1>5. W!Goes(Scheduler, o, ok)
  BY <1>2, <1>k, <1>3
<1>6. /\ o.at \in Nat /\ o.at \in block /\ \A v \in block : v <= o.at
      /\ DOMAIN o.hand = {} /\ o.key \in WalksByPage /\ o.key \in {"variables", "spoiled"}
  <2>1. DOMAIN o.hand = {}
    BY <1>4 DEF W!NoHand
  <2>2. block \subseteq W!Objects
    BY <1>0
  <2>3. W!Last(block) \in block /\ \A v \in block : v <= W!Last(block)
    BY <1>0, <2>2, WalksLastIs
  <2>4. key \in {"variables", "spoiled"}
    BY <1>0, <1>k
  <2>. QED BY <1>0, <1>4, <2>1, <2>2, <2>3, <2>4 DEF WalksByPage
<1>7. WalksOpTyped(Scheduler, o)
  BY <1>4, <1>6, WalksObjectsAre DEF WalksOpTyped, WalksByPage
<1>8. walk'[Scheduler] = o
  BY <1>0, <1>5 DEF W!Goes
<1>9. /\ held' \in [W!Objects -> WalksVersions] /\ done' = done \cup ok
      /\ older' \subseteq W!Objects
      /\ \A x \in W!Objects :
           /\ x \in ok => held'[x] = s.hand[x]
           /\ x \notin ok => held'[x] = held[x] /\ (x \in older' <=> x \in older)
  BY <1>s, <1>p, <1>0, <1>2, WalksWrittenTyped
<1>10. ASSUME NEW x \in Variables
       PROVE  WalksThrough(x)' => key = "variables" /\ (x \in block \/ WalksThrough(x))
  <2>. SUFFICES ASSUME WalksThrough(x)', x \notin block PROVE key = "variables" /\ WalksThrough(x)
    BY <1>4, <1>8 DEF WalksThrough, WalksByPage
  <2>1. key = "variables" /\ (x <= o.at \/ catalog[x] = None)
    BY <1>2, <1>4, <1>8 DEF WalksThrough, WalksByPage
  <2>2. s.key = "variables"
    BY <1>k, <2>1
  <2>3. x \in Nat /\ \A v \in block : v \in Nat
    BY <1>0
  <2>4. x <= s.at \/ catalog[x] = None
    <3>. SUFFICES ASSUME ~(x <= s.at), catalog[x] # None PROVE FALSE
      OBVIOUS
    <3>1. x > s.at
      BY <1>0, <2>3
    <3>2. \A p \in block : p < x
      BY <1>1, <3>1
    <3>3. o.at < x /\ x <= o.at
      BY <1>6, <2>1, <3>2
    <3>. QED BY <1>6, <2>3, <3>3
  <2>. QED BY <1>s, <1>0, <2>1, <2>2, <2>4 DEF WalksThrough
<1>11. \A x \in W!Objects \ Variables : ~WalksThrough(x)'
  BY <1>4, <1>6, <1>8 DEF WalksThrough
<1>12. ASSUME NEW x \in W!Objects \ ok, WalksPending(x) PROVE WalksPending(x)'
  <2>1. CASE x \notin Variables
    BY <1>2, <1>11, <1>12, <2>1 DEF WalksPending
  <2>2. CASE x \in Variables
    <3>1. CASE ~WalksThrough(x)'
      BY <1>1, <1>2, <2>2, <3>1 DEF WalksPending
    <3>2. CASE WalksThrough(x)'
      <4>1. key = "variables" /\ (x \in block \/ WalksThrough(x))
        BY <1>10, <2>2, <3>2
      <4>2. ok = block
        BY <1>k, <4>1
      <4>3. WalksThrough(x)
        BY <4>1, <4>2
      <4>4. ~queue[x].taken
        BY <1>12, <4>3 DEF WalksPending
      <4>. QED BY <1>1, <1>2, <2>2, <4>4 DEF WalksPending
    <3>. QED BY <3>1, <3>2
  <2>. QED BY <2>1, <2>2
<1>13. ASSUME NEW x \in ok
       PROVE  x \in older' \/ held'[x] = catalog[x] \/ WalksPending(x)'
  <2>1. x \in Variables /\ x \in block /\ x \in W!Objects
    BY <1>0
  <2>2. CASE queue[x].taken
    BY <1>1, <1>9, <2>1, <2>2
  <2>3. CASE ~queue[x].taken
    BY <1>1, <1>2, <2>1, <2>3 DEF WalksPending
  <2>. QED BY <2>2, <2>3
<1>14. WalksReplaceTrue'
  <2>1. WalksReplacing(o.key, o.pc, o.at, o.hand, queue', catalog')
    BY <1>1, <1>2, <1>4 DEF WalksReplacing
  <2>. QED BY <1>8, <2>1, WalksReplaceNext
<1>15. \A x \in DOMAIN o.hand : o.hand[x] = None => catalog[x] = None
  BY <1>6
<1>16. o.pc \in {"read", "write"} /\ ok \in SUBSET Variables
  BY <1>0, <1>4
<1>17. \A x \in W!Objects \ ok : held'[x] = held[x] /\ (x \in older' <=> x \in older)
  BY <1>9
<1>. QED BY <1>2, <1>4, <1>5, <1>6, <1>7, <1>9, <1>12, <1>13, <1>14, <1>15, <1>16, <1>17,
            WalksVariablesWritten

LEMMA WalksAckKeeps ==
  ASSUME W!WalksAssumption, WalksInv, W!Ack
  PROVE  WalksInv'
<1>s. PICK s : s = walk[Scheduler]
  OBVIOUS
<1>y. PICK y : y = s.at
  OBVIOUS
<1>0. /\ WalksTyped /\ WalksRowsTrue /\ WalksOneRow /\ WalksItemTrue /\ WalksReplaceTrue
      /\ WalksGoneForGood /\ WalksHandsTrue
      /\ WalksDoneTrue
      /\ WalksImportTrue /\ WalksImported
      /\ \A a \in W!Actors : WalksOpTyped(a, walk[a])
  BY WalksParts
<1>1. /\ Scheduler \in W!Actors /\ \A v \in Workers : v \in W!Actors /\ v # Scheduler
      /\ \A x \in WalksTracked : x \in W!Objects
      /\ \A x \in Studies : x \in W!Objects /\ x \in WalksTracked
      /\ \A x \in W!Objects \ Variables : x \in WalksTracked
      /\ \A x \in WalksTracked : x \notin Variables
  BY WalksObjectsAre DEF W!Actors, WalksTracked
<1>2. s.pc = "ack" /\ walk' = [walk EXCEPT ![Scheduler] = W!Idle]
      /\ UNCHANGED <<catalog, held, bare, done, older, imported>>
  BY <1>s DEF W!Ack
<1>3. CASE UNCHANGED <<queue, belief>>
  <2>1. walk' = [a \in W!Actors |-> IF a \in {Scheduler} THEN W!Idle ELSE walk[a]]
    BY <1>0, <1>2 DEF WalksTyped
  <2>. QED BY <1>2, <1>3, <2>1, WalksStops
<1>4. CASE /\ s.key \notin WalksByPage
           /\ queue[y] # None /\ queue[y].taken
           /\ queue' = [p \in W!Objects |-> IF p = y THEN None ELSE queue[p]]
           /\ belief' = IF s.key = "delete" THEN belief \ {y} ELSE belief \cup {y}
  <2>1. /\ y \in W!Objects /\ y \in WalksTracked /\ y \notin Variables /\ s.key \in W!Acts
        /\ s.key = queue[y].act
        /\ y \notin bare
        /\ held[y] = catalog[y] \/ y \in older
    BY <1>s, <1>y, <1>1, <1>2, <1>4, WalksItemIs
  <2>2. y \notin Variables => (s.key = "delete" <=> catalog[y] = None)
    BY <1>0, <1>4, <2>1 DEF WalksRowsTrue
  <2>3. DOMAIN walk' = W!Actors /\ walk'[Scheduler] = W!Idle
          /\ (\A v \in Workers : walk'[v] = walk[v])
        /\ \A a \in W!Actors : walk'[a] = walk[a] \/ walk'[a] = W!Idle
    BY <1>0, <1>1, <1>2 DEF WalksTyped
  <2>4. queue'[y] = None /\ \A x \in W!Objects \ {y} : queue'[x] = queue[x]
    BY <1>0, <1>4, <2>1 DEF WalksTyped
  <2>5. /\ W!Idle.pc = "idle" /\ \A a \in W!Actors : WalksOpTyped(a, W!Idle)
    BY WalksIdleIs
  <2>6. ~WalksPending(y) /\ ~WalksPending(y)'
    BY <1>s, <1>y, <1>2, <1>4, <2>4 DEF WalksPending, WalksThrough
  <2>7. \A x \in W!Objects \ {y} : WalksPending(x)' <=> WalksPending(x)
    BY <1>s, <1>y, <1>4, <2>3, <2>4, <2>5 DEF WalksPending, WalksThrough, WalksByPage
  <2>8. \A x \in W!Objects : WalksPending(x)' <=> WalksPending(x)
    BY <2>6, <2>7
  <2>9. belief' \subseteq WalksTracked
    BY <1>0, <1>1, <1>4, <2>1 DEF WalksTyped
  <2>10. WalksTyped'
    <3>1. \A a \in W!Actors : WalksOpTyped(a, walk'[a])
      BY <1>0, <2>3, <2>5
    <3>2. queue' \in [W!Objects -> [act : W!Acts, taken : BOOLEAN] \cup {None}]
      BY <1>0, <1>4 DEF WalksTyped
    <3>. QED BY <1>0, <1>2, <2>3, <2>9, <3>1, <3>2, WalksAllTyped DEF WalksTyped
  <2>11. WalksRowsTrue'
    BY <1>0, <1>2, <2>4 DEF WalksRowsTrue
  <2>12. WalksItemTrue'
    BY <2>3, <2>5, WalksItemNext
  <2>x. WalksOneRow' /\ WalksReplaceTrue'
    <3>1. WalksOneRow'
      BY <1>0, <2>1, <2>4 DEF WalksOneRow, W!Objects
    <3>. QED BY <2>3, <2>5, <3>1, WalksReplaceNext DEF WalksReplacing
  <2>13. WalksGoneForGood'
    BY <1>0, <1>2, <2>3, <2>5 DEF WalksGoneForGood
  <2>14. WalksHandsTrue'
    BY <1>0, <1>1, <1>2, <2>3, <2>8 DEF WalksHandsTrue, WalksOpTyped
  <2>15. WalksDoneTrue'
    BY <1>0, <1>2, <2>8 DEF WalksDoneTrue, WalksTyped
  <2>16. \A x \in W!Objects : WalksLost(x)' => WalksLost(x)
    <3>. SUFFICES ASSUME NEW x \in W!Objects, WalksLost(x)' PROVE WalksLost(x)
      OBVIOUS
    <3>1. x # y
      <4>. SUFFICES ASSUME x = y PROVE FALSE
        OBVIOUS
      <4>1. catalog[y] = None /\ held[y] # None /\ y \notin older
        BY <1>2 DEF WalksLost
      <4>. QED BY <2>1, <4>1
    <3>2. x \in belief' <=> x \in belief
      BY <1>4, <3>1
    <3>. QED BY <1>2, <2>4, <3>1, <3>2 DEF WalksLost
  <2>17. WalksImportTrue'
    <3>1. bare' \cap belief' = {}
      BY <1>0, <1>2, <1>4, <2>1 DEF WalksImportTrue
    <3>. QED BY <1>0, <1>1, <1>2, <2>3, <2>16, <3>1 DEF WalksImportTrue
  <2>18. WalksImported'
    <3>. SUFFICES ASSUME imported' = "yes" PROVE WalksImported'
      BY DEF WalksImported
    <3>1. ASSUME NEW x \in WalksTracked, queue'[x] = None PROVE x \in belief' <=> catalog[x] # None
      <4>1. x = y => (x \in belief' <=> catalog[x] # None)
        BY <1>1, <1>4, <2>2
      <4>2. x # y => (x \in belief' <=> catalog[x] # None)
        <5>1. x # y => queue[x] = None /\ (x \in belief' <=> x \in belief)
          BY <1>1, <1>4, <2>4, <3>1
        <5>. QED BY <1>0, <1>2, <5>1 DEF WalksImported
      <4>. QED BY <4>1, <4>2
    <3>2. \A x \in WalksTracked \ (older' \cup bare') : held'[x] = catalog'[x] \/ WalksPending(x)'
      BY <1>0, <1>1, <1>2, <2>8 DEF WalksImported
    <3>3. \A x \in bare' : catalog'[x] # None => queue'[x] # None
      <4>1. bare \subseteq W!Objects
        BY <1>0, <1>1 DEF WalksTyped
      <4>. QED BY <1>0, <1>2, <2>1, <2>4, <4>1 DEF WalksImported
    <3>. QED BY <1>2, <3>1, <3>2, <3>3 DEF WalksImported
  <2>. QED BY <2>10, <2>11, <2>12, <2>x, <2>13, <2>14, <2>15, <2>17, <2>18 DEF WalksInv
<1>5. CASE /\ s.key \in WalksByPage
           /\ \A v \in Variables : queue[v] # None /\ queue[v].taken
           /\ queue' = [p \in W!Objects |-> IF p \in Variables THEN None ELSE queue[p]]
           /\ belief' = belief
  <2>1. s.key = "variables" /\ \A v \in Variables : v <= y \/ catalog[v] = None
    <3>1. s.key = "variables"
      BY <1>s, <1>0, <1>1, <1>2, <1>5 DEF WalksOpTyped, WalksByPage
    <3>2. \A v \in Variables : v <= y \/ catalog[v] = None
      BY <1>s, <1>y, <1>0, <1>2, <1>5, Zenon DEF WalksReplaceTrue, WalksReplacing
    <3>. QED BY <3>1, <3>2
  <2>2. DOMAIN walk' = W!Actors /\ walk'[Scheduler] = W!Idle
          /\ (\A v \in Workers : walk'[v] = walk[v])
        /\ \A a \in W!Actors : walk'[a] = walk[a] \/ walk'[a] = W!Idle
    BY <1>0, <1>1, <1>2 DEF WalksTyped
  <2>3. /\ W!Idle.pc = "idle" /\ \A a \in W!Actors : WalksOpTyped(a, W!Idle)
    BY WalksIdleIs
  <2>4. /\ Variables \subseteq W!Objects /\ \A v \in Variables : queue'[v] = None
        /\ \A x \in W!Objects \ Variables : queue'[x] = queue[x]
        /\ queue' \in [W!Objects -> [act : W!Acts, taken : BOOLEAN] \cup {None}]
    BY <1>0, <1>5 DEF W!Objects, WalksTyped
  <2>5. ASSUME NEW x \in W!Objects PROVE WalksPending(x)' <=> WalksPending(x)
    <3>1. CASE x \in Variables
      <4>1. WalksThrough(x)
        BY <1>s, <1>y, <1>2, <2>1, <3>1 DEF WalksThrough
      <4>. QED BY <1>5, <2>4, <3>1, <4>1 DEF WalksPending
    <3>2. CASE x \notin Variables
      <4>1. ~WalksThrough(x)
        BY <1>s, <1>5, <3>2 DEF WalksThrough
      <4>2. ~WalksThrough(x)'
        BY <2>2, <2>3 DEF WalksThrough
      <4>. QED BY <2>4, <3>2, <4>1, <4>2 DEF WalksPending
    <3>. QED BY <3>1, <3>2
  <2>6. WalksTyped'
    <3>1. \A a \in W!Actors : WalksOpTyped(a, walk'[a])
      BY <1>0, <2>2, <2>3
    <3>. QED BY <1>0, <1>2, <1>5, <2>2, <2>4, <3>1, WalksAllTyped DEF WalksTyped
  <2>7. WalksRowsTrue' /\ WalksOneRow'
    BY <1>0, <1>2, <2>4 DEF WalksRowsTrue, WalksOneRow
  <2>8. WalksItemTrue' /\ WalksReplaceTrue'
    <3>1. WalksItemTrue'
      BY <2>2, <2>3, WalksItemNext
    <3>. QED BY <2>2, <2>3, <3>1, WalksReplaceNext DEF WalksReplacing
  <2>9. WalksGoneForGood'
    BY <1>0, <1>2, <2>2, <2>3 DEF WalksGoneForGood
  <2>10. WalksHandsTrue'
    BY <1>0, <1>1, <1>2, <2>2, <2>5 DEF WalksHandsTrue, WalksOpTyped
  <2>11. WalksDoneTrue'
    BY <1>0, <1>2, <2>5 DEF WalksDoneTrue, WalksTyped
  <2>12. \A x \in WalksTracked : queue'[x] = queue[x] /\ (WalksLost(x)' <=> WalksLost(x))
    BY <1>1, <1>2, <1>5, <2>4 DEF WalksLost
  <2>13. WalksImportTrue'
    BY <1>0, <1>1, <1>2, <1>5, <2>2, <2>12 DEF WalksImportTrue
  <2>14. WalksImported'
    <3>. SUFFICES ASSUME imported' = "yes" PROVE WalksImported'
      BY DEF WalksImported
    <3>1. bare \subseteq WalksTracked
      BY <1>0, <1>1 DEF WalksTyped
    <3>2. \A x \in WalksTracked \ (older' \cup bare') : held'[x] = catalog'[x] \/ WalksPending(x)'
      BY <1>0, <1>1, <1>2, <2>5 DEF WalksImported
    <3>. QED BY <1>0, <1>2, <1>5, <2>12, <3>1, <3>2 DEF WalksImported
  <2>. QED BY <2>6, <2>7, <2>8, <2>9, <2>10, <2>11, <2>13, <2>14 DEF WalksInv
<1>6. CASE /\ \A p \in (IF s.key = "variables" THEN Variables ELSE {y}) :
                queue[p] # None /\ queue[p].taken
           /\ queue' = [p \in W!Objects |->
                          IF p \in (IF s.key = "variables" THEN Variables ELSE {y}) THEN None
                          ELSE queue[p]]
           /\ belief' = CASE s.key = "variables" -> belief
                          [] s.key = "delete" -> belief \ {y}
                          [] OTHER -> belief \cup {y}
  <2>1. s.key \in WalksByPage <=> s.key = "variables"
    BY <1>s, <1>0, <1>1, <1>2 DEF WalksOpTyped, WalksByPage
  <2>2. CASE s.key = "variables"
    BY <1>5, <1>6, <2>1, <2>2
  <2>3. CASE s.key # "variables"
    <3>1. queue' = [p \in W!Objects |-> IF p = y THEN None ELSE queue[p]]
      BY <1>6, <2>3
    <3>2. belief' = IF s.key = "delete" THEN belief \ {y} ELSE belief \cup {y}
      BY <1>6, <2>3
    <3>. QED BY <1>4, <1>6, <2>1, <2>3, <3>1, <3>2
  <2>. QED BY <2>2, <2>3
<1>. QED BY <1>s, <1>y, <1>3, <1>6 DEF W!Ack

\* What a job turns to by itself.
LEMMA WalksStepsIs ==
  ASSUME NEW w \in Workers, NEW pc, NEW at, NEW hand, W!Steps(w, pc, at, hand)
  PROVE  \E o : /\ walk' = [walk EXCEPT ![w] = o] /\ o.key = walk[w].key /\ o.pc = pc /\ o.at = at
                /\ o.hand = hand /\ o.stale = {}
                /\ o = [key |-> o.key, pc |-> o.pc, at |-> o.at, hand |-> o.hand, stale |-> o.stale]
<1>. DEFINE o == W!Doing(walk[w].key, pc, at, hand)
<1>1. walk' = [walk EXCEPT ![w] = o]
  BY DEF W!Steps
<1>2. /\ o.key = walk[w].key /\ o.pc = pc /\ o.at = at /\ o.hand = hand /\ o.stale = {}
      /\ o = [key |-> o.key, pc |-> o.pc, at |-> o.at, hand |-> o.hand, stale |-> o.stale]
  BY WalksDoingIs
<1>. QED BY <1>1, <1>2

LEMMA WalksWorkerIs ==
  ASSUME W!WalksAssumption, WalksInv, NEW w \in Workers
  PROVE  /\ w \in W!Actors /\ w # Scheduler /\ WalksOpTyped(w, walk[w])
         /\ walk[w].pc \in {"idle", "read", "write", "fetch", "sync"} \cup WalksImporting
         /\ walk[w].pc \in WalksImporting <=> walk[w].key = "search_index_import"
         /\ walk[w].at \in Nat /\ DOMAIN walk[w].hand \subseteq W!Objects
         /\ walk[w].key = "search_index_import" =>
              /\ \A v \in Workers \ {w} : walk[v].key # "search_index_import"
              /\ imported # "yes"
              /\ DOMAIN walk[w].hand \subseteq WalksTracked \ bare
<1>1. w \in W!Actors /\ w # Scheduler /\ WalksOpTyped(w, walk[w])
  BY WalksParts, WalksObjectsAre DEF W!Actors
<1>2. /\ walk[w].pc \in {"idle", "read", "write", "fetch", "sync"} \cup WalksImporting
      /\ walk[w].pc \in WalksImporting <=> walk[w].key = "search_index_import"
      /\ walk[w].at \in Nat /\ DOMAIN walk[w].hand \subseteq W!Objects
  BY <1>1 DEF WalksOpTyped
<1>3. WalksImportTrue
  BY WalksParts
<1>. QED BY <1>1, <1>2, <1>3 DEF WalksImportTrue

LEMMA WalksStoppedIs ==
  ASSUME W!WalksAssumption, WalksInv, NEW a \in W!Actors, walk' = [walk EXCEPT ![a] = W!Idle],
         UNCHANGED <<catalog, held, bare, belief, queue, done, older, imported>>
  PROVE  WalksInv'
<1>1. walk' = [b \in W!Actors |-> IF b \in {a} THEN W!Idle ELSE walk[b]]
  BY WalksParts DEF WalksTyped
<1>. QED BY <1>1, WalksStops

\* A job begins.
LEMMA WalksBegins ==
  ASSUME W!WalksAssumption, WalksInv, NEW w \in Workers, NEW key, NEW pc, W!Starts(w, key, pc),
         key = "search_index_import" => W!Unique(key),
         \/ pc \in {"read", "fetch"} /\ key # "search_index_import" /\ imported' = imported
         \/ pc = "chunks" /\ key = "search_index_import" /\ imported' = "under way",
         UNCHANGED <<catalog, held, bare, belief, queue, done, older>>
  PROVE  WalksInv'
<1>. DEFINE o == W!Doing(key, pc, 0, W!NoHand)
<1>0. /\ walk' = [walk EXCEPT ![w] = o]
      /\ key = "search_index_import" => \A v \in Workers : walk[v].key # key
  BY DEF W!Starts, W!Unique
<1>1. /\ o.key = key /\ o.pc = pc /\ o.at = 0 /\ o.hand = W!NoHand /\ o.stale = {}
      /\ o = [key |-> o.key, pc |-> o.pc, at |-> o.at, hand |-> o.hand, stale |-> o.stale]
  BY ONLY DEF W!Doing
<1>. HIDE DEF o
<1>2. DOMAIN o.hand = {}
  BY <1>1 DEF W!NoHand
<1>3. WalksOpTyped(w, o)
  <2>1. /\ pc \in WalksImporting <=> key = "search_index_import"
        /\ pc \in {"read", "fetch"} \cup WalksImporting /\ pc \notin {"idle", "write", "sync"}
    BY DEF WalksImporting
  <2>2. w # Scheduler
    BY WalksWorkerIs
  <2>. QED BY ONLY <1>1, <1>2, <2>1, <2>2 DEF WalksOpTyped
<1>4. belief \subseteq WalksTracked \ bare
  BY WalksParts DEF WalksTyped, WalksImportTrue
<1>. QED BY <1>0, <1>1, <1>2, <1>3, <1>4, WalksWorkerMoves

\* An index is dropped and created anew.
LEMMA WalksDropKeeps ==
  ASSUME W!WalksAssumption, WalksInv, NEW w \in Workers, NEW key, NEW covered,
         \/ key = "index_citations:all" /\ covered = Citations
         \/ key = "index_variables:all" /\ covered = Variables,
         W!Starts(w, key, "read"),
         held' = [o \in W!Objects |-> IF o \in covered THEN None ELSE held[o]],
         done' = done \ covered,
         older' = (older \ covered)
           \cup {c \in covered \cap Citations :
                   walk[Scheduler].pc = "ack" /\ walk[Scheduler].at = c},
         imported' = IF covered = Citations THEN "no" ELSE imported,
         UNCHANGED <<catalog, bare, belief, queue>>
  PROVE  WalksInv'
<1>. DEFINE o == W!Doing(key, "read", 0, W!NoHand)
<1>0. /\ WalksTyped /\ WalksRowsTrue /\ WalksOneRow /\ WalksItemTrue /\ WalksReplaceTrue
      /\ WalksGoneForGood /\ WalksHandsTrue
      /\ WalksDoneTrue
      /\ WalksImportTrue /\ WalksImported
      /\ \A a \in W!Actors : WalksOpTyped(a, walk[a])
  BY WalksParts
<1>1. /\ Scheduler \in W!Actors /\ w \in W!Actors /\ w # Scheduler
      /\ \A v \in Workers : v \in W!Actors /\ v # Scheduler
      /\ \A x \in WalksTracked : x \in W!Objects
      /\ \A x \in Studies : x \in W!Objects /\ x \notin covered
      /\ covered \subseteq W!Objects
  BY WalksObjectsAre DEF W!Actors, W!WalksAssumption, W!Objects
<1>2. walk' = [walk EXCEPT ![w] = o]
  BY DEF W!Starts
<1>3. /\ o.key = key /\ o.pc = "read" /\ o.at = 0 /\ o.hand = W!NoHand /\ o.stale = {}
      /\ o = [key |-> o.key, pc |-> o.pc, at |-> o.at, hand |-> o.hand, stale |-> o.stale]
  BY WalksDoingIs
<1>4. DOMAIN o.hand = {}
  BY <1>3 DEF W!NoHand
<1>. HIDE DEF o
<1>5. DOMAIN walk' = W!Actors /\ walk'[w] = o /\ \A a \in W!Actors \ {w} : walk'[a] = walk[a]
  BY <1>0, <1>1, <1>2 DEF WalksTyped
<1>6. walk'[Scheduler] = walk[Scheduler] /\ WalksOpTyped(w, o) /\ o.key # "search_index_import"
  BY <1>1, <1>3, <1>4, <1>5 DEF WalksOpTyped, WalksImporting
<1>7. \A x \in W!Objects : /\ x \in covered => held'[x] = None /\ x \notin done'
                           /\ x \notin covered =>
                                /\ held'[x] = held[x] /\ (x \in done' <=> x \in done)
                                /\ (x \in older' <=> x \in older)
  OBVIOUS
<1>8. WalksTyped'
  <2>1. \A a \in W!Actors : WalksOpTyped(a, walk'[a])
    BY <1>0, <1>5, <1>6
  <2>2. held' \in [W!Objects -> WalksVersions]
    BY <1>0 DEF WalksTyped, WalksVersions
  <2>3. bare' \subseteq {z \in Studies : held'[z] # None}
    BY <1>0, <1>1, <1>7 DEF WalksTyped
  <2>4. done' \subseteq W!Objects /\ older' \subseteq W!Objects
        /\ imported' \in {"no", "under way", "yes"}
    BY <1>0, <1>1 DEF WalksTyped
  <2>. QED BY <1>0, <1>5, <2>1, <2>2, <2>3, <2>4, WalksAllTyped DEF WalksTyped
<1>9. WalksRowsTrue'
  BY <1>0 DEF WalksRowsTrue
<1>10. WalksItemTrue'
  <2>s. PICK s : s = walk[Scheduler]
    OBVIOUS
  <2>1. s.pc = "ack" /\ s.at \in WalksTracked /\ s.at \in covered => s.at \in older'
    BY <2>s, WalksObjectsAre
  <2>2. s.pc # "idle" /\ s.key \notin WalksByPage =>
           /\ s.at \in WalksTracked
           /\ s.at \in W!Objects
           /\ queue[s.at] # None
           /\ queue[s.at].taken => s.key = queue[s.at].act
           /\ s.key = "delete" => catalog[s.at] = None /\ s.pc # "fetch"
           /\ s.key = "partial" => s.at \in Studies \ bare
           /\ s.pc = "apply" =>
                /\ queue[s.at].taken => s.hand[s.at] = catalog[s.at]
                /\ s.key = "partial" => s.hand[s.at] # None
           /\ s.pc = "ack" =>
                /\ s.at \notin bare
                /\ queue[s.at].taken => held[s.at] = catalog[s.at] \/ s.at \in older
    BY <2>s, WalksItemIs
  <2>3. s.pc = "ack" /\ s.key \notin WalksByPage /\ queue[s.at].taken =>
          held'[s.at] = catalog[s.at] \/ s.at \in older'
    BY <1>7, <2>1, <2>2
  <2>4. s = walk'[Scheduler] /\ catalog' = catalog /\ bare' = bare /\ queue' = queue
    BY <1>6, <2>s
  <2>. QED BY <2>2, <2>3, <2>4, WalksItemNext
<1>x. WalksOneRow' /\ WalksReplaceTrue'
  <2>1. WalksOneRow'
    BY <1>0 DEF WalksOneRow
  <2>. QED BY <1>0, <1>6, <2>1, WalksReplaceStays
<1>11. WalksGoneForGood'
  BY <1>0, <1>4, <1>5 DEF WalksGoneForGood
<1>12. \A x \in W!Objects : WalksPending(x)' <=> WalksPending(x)
  BY <1>6 DEF WalksPending, WalksThrough
<1>13. WalksHandsTrue'
  <2>. SUFFICES ASSUME NEW v \in Workers, walk'[v].pc \in {"write", "sync"},
                       NEW x \in DOMAIN walk'[v].hand \ walk'[v].stale
                PROVE  walk'[v].hand[x] = catalog'[x] \/ WalksPending(x)'
    BY DEF WalksHandsTrue
  <2>1. v # w /\ walk'[v] = walk[v] /\ DOMAIN walk[v].hand \subseteq W!Objects
    BY ONLY <1>0, <1>1, <1>3, <1>5, v \in Workers, walk'[v].pc \in {"write", "sync"}
       DEF WalksOpTyped
  <2>2. x \in W!Objects /\ (walk[v].hand[x] = catalog[x] \/ WalksPending(x))
    BY <1>0, <2>1 DEF WalksHandsTrue
  <2>. QED BY <1>12, <2>1, <2>2
<1>14. WalksDoneTrue'
  BY <1>0, <1>7, <1>12 DEF WalksDoneTrue, WalksTyped
<1>15. \A x \in W!Objects : WalksLost(x)' => WalksLost(x)
  BY <1>7 DEF WalksLost
<1>16. WalksImportTrue'
  <2>1. \A v \in Workers : walk'[v].key = "search_index_import" => walk'[v] = walk[v]
    BY <1>1, <1>5, <1>6
  <2>2. imported' = imported \/ imported' = "no"
    OBVIOUS
  <2>. QED BY <1>0, <1>1, <1>15, <2>1, <2>2 DEF WalksImportTrue
<1>17. WalksImported'
  <2>. SUFFICES ASSUME imported' = "yes" PROVE WalksImported'
    BY DEF WalksImported
  <2>1. imported = "yes" /\ covered = Variables
    OBVIOUS
  <2>2. \A x \in WalksTracked : x \notin covered
    BY <2>1, WalksObjectsAre
  <2>3. \A x \in WalksTracked \ (older' \cup bare') : held'[x] = catalog'[x] \/ WalksPending(x)'
    BY <1>0, <1>1, <1>7, <1>12, <2>1, <2>2 DEF WalksImported
  <2>. QED BY <1>0, <2>1, <2>3 DEF WalksImported
<1>. QED BY <1>8, <1>9, <1>10, <1>x, <1>11, <1>13, <1>14, <1>16, <1>17 DEF WalksInv

LEMMA WalksStartKeeps ==
  ASSUME W!WalksAssumption, WalksInv, NEW w \in Workers,
         W!StartCitations(w) \/ W!StartVariables(w) \/ W!StartIds(w) \/ W!StartImport(w)
  PROVE  WalksInv'
<1>1. ASSUME NEW key, NEW covered, W!StartWalk(w, key, covered),
             \/ key = "index_citations:all" /\ covered = Citations
             \/ key = "index_variables:all" /\ covered = Variables
      PROVE  WalksInv'
  <2>1. W!Starts(w, key, "read") /\ UNCHANGED <<catalog, bare, belief, queue>>
    BY <1>1 DEF W!StartWalk
  <2>2. CASE UNCHANGED <<held, done, older, imported>>
    BY <1>1, <2>1, <2>2, WalksBegins
  <2>3. CASE /\ held' = [o \in W!Objects |-> IF o \in covered THEN None ELSE held[o]]
             /\ done' = done \ covered
             /\ older' = (older \ covered)
                  \cup {c \in covered \cap Citations :
                          walk[Scheduler].pc = "ack" /\ walk[Scheduler].at = c}
             /\ imported' = IF covered = Citations THEN "no" ELSE imported
    BY <1>1, <2>1, <2>3, WalksDropKeeps
  <2>. QED BY <1>1, <2>2, <2>3 DEF W!StartWalk
<1>2. CASE W!StartIds(w)
  BY <1>2, WalksBegins DEF W!StartIds
<1>3. CASE W!StartImport(w)
  BY <1>3, WalksBegins DEF W!StartImport
<1>. QED BY <1>1, <1>2, <1>3 DEF W!StartCitations, W!StartVariables

LEMMA WalksReadPageKeeps ==
  ASSUME W!WalksAssumption, WalksInv, NEW w \in Workers, W!ReadPage(w)
  PROVE  WalksInv'
<1>. DEFINE block == W!After({x \in W!Covered(w) : catalog[x] # None}, walk[w].at, PageSize)
<1>0. /\ WalksOpTyped(w, walk[w]) /\ walk[w].pc = "read" /\ w # Scheduler /\ w \in W!Actors
      /\ walk[w].key # "search_index_import" /\ walk[w].at \in Nat
      /\ UNCHANGED <<catalog, held, bare, belief, queue, done, older, imported>>
  BY WalksWorkerIs DEF W!ReadPage, WalksImporting
<1>1. CASE block = {}
  <2>1. walk' = [walk EXCEPT ![w] = W!Idle]
    BY <1>1 DEF W!ReadPage
  <2>. QED BY <1>0, <2>1, WalksStoppedIs
<1>2. CASE block # {}
  <2>1. W!Steps(w, "write", walk[w].at, W!Fetched(block))
    BY <1>2 DEF W!ReadPage
  <2>3. W!Covered(w) \subseteq W!Objects /\ W!Covered(w) \cap Studies = {}
        /\ PageSize \in Nat \ {0}
    BY DEF W!Covered, W!Objects, W!WalksAssumption
  <2>4. block \subseteq W!Objects /\ block \cap Studies = {}
    BY <1>0, <2>3, WalksPages
  <2>. HIDE DEF block
  <2>2. PICK o : /\ walk' = [walk EXCEPT ![w] = o] /\ o.key = walk[w].key /\ o.pc = "write"
                 /\ o.at = walk[w].at /\ o.hand = W!Fetched(block) /\ o.stale = {}
                 /\ o = [key |-> o.key, pc |-> o.pc, at |-> o.at, hand |-> o.hand,
                      stale |-> o.stale]
    BY <2>1, WalksStepsIs
  <2>5. DOMAIN o.hand = block /\ \A x \in block : o.hand[x] = catalog[x]
    BY <2>2 DEF W!Fetched
  <2>6. \A x \in block : catalog[x] \in WalksVersions
    BY <2>4, WalksParts DEF WalksTyped
  <2>7. WalksOpTyped(w, o)
    BY <1>0, <1>2, <2>2, <2>4, <2>5, <2>6 DEF WalksOpTyped, WalksImporting
  <2>8. belief \subseteq WalksTracked \ bare
    BY WalksParts DEF WalksTyped, WalksImportTrue
  <2>. QED BY <1>0, <2>2, <2>5, <2>7, <2>8, WalksWorkerMoves
<1>. QED BY <1>1, <1>2

LEMMA WalksWritePageKeeps ==
  ASSUME W!WalksAssumption, WalksInv, NEW w \in Workers, W!WritePage(w)
  PROVE  WalksInv'
<1>0. /\ WalksOpTyped(w, walk[w]) /\ walk[w].pc = "write" /\ w # Scheduler /\ w \in W!Actors
      /\ walk[w].key # "search_index_import"
      /\ UNCHANGED <<catalog, bare, belief, queue, imported>>
  BY WalksWorkerIs DEF W!WritePage, WalksImporting
<1>1. PICK ok \in SUBSET DOMAIN walk[w].hand :
        /\ W!Written(w, ok)
        /\ W!Goes(w, W!Doing(walk[w].key, "read", W!Last(DOMAIN walk[w].hand), W!NoHand), ok)
  BY DEF W!WritePage
<1>. DEFINE o == W!Doing(walk[w].key, "read", W!Last(DOMAIN walk[w].hand), W!NoHand)
<1>2. /\ o.key = walk[w].key /\ o.pc = "read" /\ o.at = W!Last(DOMAIN walk[w].hand)
      /\ o.hand = W!NoHand /\ o.stale = {}
      /\ o = [key |-> o.key, pc |-> o.pc, at |-> o.at, hand |-> o.hand, stale |-> o.stale]
  BY WalksDoingIs
<1>3. DOMAIN o.hand = {}
  BY <1>2 DEF W!NoHand
<1>4. W!Goes(w, o, ok)
  BY <1>1
<1>. HIDE DEF o
<1>5. o.at \in Nat
  BY <1>0, <1>2, WalksLastIs, WalksObjectsAre DEF WalksOpTyped
<1>6. WalksOpTyped(w, o)
  BY <1>0, <1>2, <1>3, <1>5 DEF WalksOpTyped, WalksImporting
<1>. QED BY <1>0, <1>1, <1>2, <1>4, <1>6, WalksWorkerWrites

LEMMA WalksFetchIdKeeps ==
  ASSUME W!WalksAssumption, WalksInv, NEW w \in Workers, W!FetchId(w)
  PROVE  WalksInv'
<1>. DEFINE chosen == W!After(Citations, walk[w].at, 1)
<1>0. /\ WalksOpTyped(w, walk[w]) /\ walk[w].pc = "fetch" /\ w # Scheduler /\ w \in W!Actors
      /\ walk[w].key # "search_index_import" /\ walk[w].at \in Nat
      /\ UNCHANGED <<catalog, held, bare, belief, queue, done, older, imported>>
  BY WalksWorkerIs DEF W!FetchId, WalksImporting
<1>1. chosen \subseteq Citations /\ Citations \subseteq W!Objects /\ Citations \cap Studies = {}
  <2>1. Citations \subseteq W!Objects /\ Citations \cap Studies = {} /\ 1 \in Nat \ {0}
    BY DEF W!Objects, W!WalksAssumption
  <2>. QED BY <1>0, <2>1, WalksPages
<1>2. belief \subseteq WalksTracked \ bare
  BY WalksParts DEF WalksTyped, WalksImportTrue
<1>3. CASE walk' = [walk EXCEPT ![w] = W!Idle]
  BY <1>0, <1>3, WalksStoppedIs
<1>4. ASSUME NEW x \in chosen, W!Steps(w, "fetch", x, W!NoHand)
      PROVE  WalksInv'
  <2>1. PICK o : /\ walk' = [walk EXCEPT ![w] = o] /\ o.key = walk[w].key /\ o.pc = "fetch"
                 /\ o.at = x /\ o.hand = W!NoHand /\ o.stale = {}
                 /\ o = [key |-> o.key, pc |-> o.pc, at |-> o.at, hand |-> o.hand,
                      stale |-> o.stale]
    BY <1>4, WalksStepsIs
  <2>2. DOMAIN o.hand = {} /\ o.at \in Nat
    BY <1>1, <2>1, WalksObjectsAre DEF W!NoHand
  <2>3. WalksOpTyped(w, o)
    BY <1>0, <2>1, <2>2 DEF WalksOpTyped, WalksImporting
  <2>. QED BY <1>0, <1>2, <2>1, <2>2, <2>3, WalksWorkerMoves
<1>5. ASSUME NEW x \in chosen, W!Steps(w, "sync", x, W!Fetched(chosen))
      PROVE  WalksInv'
  <2>1. PICK o : /\ walk' = [walk EXCEPT ![w] = o] /\ o.key = walk[w].key /\ o.pc = "sync"
                 /\ o.at = x /\ o.hand = W!Fetched(chosen) /\ o.stale = {}
                 /\ o = [key |-> o.key, pc |-> o.pc, at |-> o.at, hand |-> o.hand,
                      stale |-> o.stale]
    BY <1>5, WalksStepsIs
  <2>. HIDE DEF chosen
  <2>2. o.at \in Nat /\ DOMAIN o.hand = chosen /\ \A y \in chosen : o.hand[y] = catalog[y]
    BY <1>1, <2>1, WalksObjectsAre DEF W!Fetched
  <2>3. \A y \in chosen : catalog[y] \in WalksVersions
    BY <1>1, WalksParts DEF WalksTyped
  <2>4. WalksOpTyped(w, o)
    BY <1>0, <1>1, <2>1, <2>2, <2>3 DEF WalksOpTyped, WalksImporting
  <2>. QED BY <1>0, <1>2, <2>1, <2>2, <2>4, WalksWorkerMoves
<1>. QED BY <1>3, <1>4, <1>5 DEF W!FetchId

LEMMA WalksSyncIdKeeps ==
  ASSUME W!WalksAssumption, WalksInv, NEW w \in Workers, W!SyncId(w)
  PROVE  WalksInv'
<1>0. /\ WalksOpTyped(w, walk[w]) /\ walk[w].pc = "sync" /\ w # Scheduler /\ w \in W!Actors
      /\ walk[w].key # "search_index_import" /\ walk[w].at \in Nat
      /\ UNCHANGED <<catalog, bare, belief, queue, imported>>
  BY WalksWorkerIs DEF W!SyncId, WalksImporting
<1>. DEFINE o == W!Doing(walk[w].key, "fetch", walk[w].at, W!NoHand)
<1>1. PICK ok \in SUBSET DOMAIN walk[w].hand : W!Written(w, ok) /\ W!Goes(w, o, ok)
  BY DEF W!SyncId
<1>2. /\ o.key = walk[w].key /\ o.pc = "fetch" /\ o.at = walk[w].at /\ o.hand = W!NoHand
      /\ o.stale = {}
      /\ o = [key |-> o.key, pc |-> o.pc, at |-> o.at, hand |-> o.hand, stale |-> o.stale]
  BY WalksDoingIs
<1>3. DOMAIN o.hand = {}
  BY <1>2 DEF W!NoHand
<1>. HIDE DEF o
<1>4. WalksOpTyped(w, o)
  BY <1>0, <1>2, <1>3 DEF WalksOpTyped, WalksImporting
<1>. QED BY <1>0, <1>1, <1>2, <1>4, WalksWorkerWrites

\* An import reads what there is.
LEMMA WalksImportReads ==
  ASSUME W!WalksAssumption, WalksInv, NEW w \in Workers, walk[w].key = "search_index_import",
         NEW pc \in {"studies", "citations", "report"}, NEW U \in SUBSET (WalksTracked \ bare),
         W!Steps(w, pc, 0, W!Listing(U)),
         imported = "under way" /\ pc \in {"studies", "citations"} =>
           \A x \in Studies : WalksLost(x) => x \in U,
         imported = "under way" /\ pc = "report" => \A x \in WalksTracked : WalksLost(x) => x \in U,
         UNCHANGED <<catalog, held, bare, belief, queue, done, older, imported>>
  PROVE  WalksInv'
<1>0. /\ walk[w].pc # "idle" /\ w # Scheduler /\ pc \in WalksImporting
      /\ \A v \in Workers \ {w} : walk[v].key # "search_index_import"
      /\ imported # "yes"
  BY WalksWorkerIs DEF WalksImporting
<1>5. W!Steps(w, pc, 0, W!Listing(U))
  OBVIOUS
<1>1. PICK o : /\ walk' = [walk EXCEPT ![w] = o] /\ o.key = walk[w].key /\ o.pc = pc
               /\ o.at = 0 /\ o.hand = W!Listing(U) /\ o.stale = {}
               /\ o = [key |-> o.key, pc |-> o.pc, at |-> o.at, hand |-> o.hand, stale |-> o.stale]
  BY ONLY <1>5, WalksStepsIs, w \in Workers
<1>2. DOMAIN o.hand = U /\ (\A x \in U : o.hand[x] \in WalksVersions)
      /\ U \subseteq W!Objects /\ \A x \in WalksTracked : 0 < x
  <2>1. U \subseteq WalksTracked /\ WalksTracked \subseteq W!Objects
          /\ \A x \in W!Objects : x \in Nat \ {0}
    BY WalksObjectsAre
  <2>2. DOMAIN o.hand = U /\ \A x \in U : o.hand[x] = None
    BY <1>1 DEF W!Listing
  <2>. QED BY ONLY <2>1, <2>2, U \in SUBSET (WalksTracked \ bare) DEF WalksVersions
<1>3. WalksOpTyped(w, o)
  BY ONLY <1>0, <1>1, <1>2, walk[w].key = "search_index_import", pc \in {"studies", "citations",
     "report"} DEF WalksOpTyped
<1>4. belief \subseteq WalksTracked \ bare
  BY WalksParts DEF WalksTyped, WalksImportTrue
<1>. QED BY <1>0, <1>1, <1>2, <1>3, <1>4, WalksWorkerMoves

LEMMA WalksChunksKeeps ==
  ASSUME W!WalksAssumption, WalksInv, NEW w \in Workers, W!Chunks(w)
  PROVE  WalksInv'
<1>. DEFINE U == {s \in Studies \ bare : held[s] # None}
<1>1. walk[w].key = "search_index_import"
  BY WalksWorkerIs DEF W!Chunks, WalksImporting
<1>2. U \subseteq WalksTracked \ bare /\ \A x \in Studies : WalksLost(x) => x \in U
  BY DEF WalksTracked, WalksLost
<1>3. W!Steps(w, "studies", 0, W!Listing(U))
      /\ UNCHANGED <<catalog, held, bare, belief, queue, done, older, imported>>
  BY DEF W!Chunks
<1>. HIDE DEF U
<1>. QED BY <1>1, <1>2, <1>3, WalksImportReads

LEMMA WalksScanKeeps ==
  ASSUME W!WalksAssumption, WalksInv, NEW w \in Workers, W!Scan(w)
  PROVE  WalksInv'
<1>. DEFINE seen == DOMAIN walk[w].hand
            U == {s \in seen : held[s] # None}
            V == seen \cup {c \in Citations : held[c] # None}
<1>1. /\ walk[w].key = "search_index_import" /\ seen \subseteq WalksTracked \ bare
      /\ imported = "under way" /\ walk[w].pc \in {"studies", "citations"} =>
           \A x \in Studies : WalksLost(x) => x \in seen
  BY WalksWorkerIs, WalksParts DEF W!Scan, WalksImporting, WalksImportTrue
<1>2. UNCHANGED <<catalog, held, bare, belief, queue, done, older, imported>>
  BY DEF W!Scan
<1>3. CASE walk[w].pc = "studies" /\ W!Steps(w, "citations", 0, W!Listing(U))
  <2>1. /\ U \subseteq WalksTracked \ bare
        /\ imported = "under way" => \A x \in Studies : WalksLost(x) => x \in U
    BY <1>1, <1>3 DEF WalksLost
  <2>. HIDE DEF U
  <2>. QED BY <1>1, <1>2, <1>3, <2>1, WalksImportReads
<1>4. CASE walk[w].pc = "citations" /\ W!Steps(w, "report", 0, W!Listing(V))
  <2>1. V \subseteq WalksTracked \ bare
    BY <1>1, WalksParts DEF WalksTyped, WalksTracked, W!WalksAssumption
  <2>2. imported = "under way" => \A x \in WalksTracked : WalksLost(x) => x \in V
    BY <1>1, <1>4 DEF WalksLost, WalksTracked
  <2>. HIDE DEF V
  <2>. QED BY <1>1, <1>2, <1>4, <2>1, <2>2, WalksImportReads
<1>. QED BY <1>3, <1>4 DEF W!Scan

LEMMA WalksReportKeeps ==
  ASSUME W!WalksAssumption, WalksInv, NEW w \in Workers, W!ReportState(w)
  PROVE  WalksInv'
<1>h. PICK hand : hand = DOMAIN walk[w].hand
  OBVIOUS
<1>c. PICK chunk : chunk = W!After(hand, walk[w].at, PageSize)
  OBVIOUS
<1>0. walk[w].pc = "report" /\ walk[w].key = "search_index_import"
      /\ UNCHANGED <<catalog, held, bare, queue, done, older, imported>>
  BY WalksWorkerIs DEF W!ReportState, WalksImporting
<1>1. /\ WalksOpTyped(w, walk[w]) /\ w # Scheduler /\ walk[w].pc # "idle"
      /\ walk[w].at \in Nat /\ hand \subseteq W!Objects /\ hand \subseteq WalksTracked \ bare
      /\ \A v \in Workers \ {w} : walk[v].key # "search_index_import"
      /\ imported # "yes"
      /\ \A x \in hand : walk[w].hand[x] \in WalksVersions
  BY <1>h, <1>0, WalksWorkerIs DEF WalksOpTyped
<1>2. /\ belief \subseteq WalksTracked \ bare
      /\ imported = "under way" => \A x \in WalksTracked : WalksLost(x) =>
           x \in hand /\ walk[w].at < x
  BY <1>h, <1>0, WalksParts DEF WalksTyped, WalksImportTrue
<1>3. /\ chunk \subseteq hand
      /\ chunk = {} => \A x \in hand : x <= walk[w].at
      /\ chunk # {} => /\ W!Last(chunk) \in chunk
                       /\ \A x \in hand \ chunk : x > walk[w].at => x > W!Last(chunk)
  BY <1>c, <1>1, WalksPages DEF W!WalksAssumption
<1>4. \A x \in hand : x \in Nat
  BY <1>1, WalksObjectsAre
<1>5. CASE chunk = {}
  <2>1. W!Steps(w, "trigger", 0, W!NoHand) /\ belief' = belief
    BY <1>h, <1>c, <1>5 DEF W!ReportState
  <2>2. PICK o : /\ walk' = [walk EXCEPT ![w] = o] /\ o.key = walk[w].key /\ o.pc = "trigger"
                 /\ o.at = 0 /\ o.hand = W!NoHand /\ o.stale = {}
                 /\ o = [key |-> o.key, pc |-> o.pc, at |-> o.at, hand |-> o.hand,
                      stale |-> o.stale]
    BY <2>1, WalksStepsIs
  <2>3. DOMAIN o.hand = {}
    BY <2>2 DEF W!NoHand
  <2>4. WalksOpTyped(w, o)
    BY <1>0, <1>1, <2>2, <2>3 DEF WalksOpTyped, WalksImporting
  <2>5. imported = "under way" => \A x \in WalksTracked : ~WalksLost(x)
    <3>. SUFFICES ASSUME imported = "under way", NEW x \in WalksTracked, WalksLost(x) PROVE FALSE
      OBVIOUS
    <3>1. x \in hand /\ walk[w].at < x /\ x <= walk[w].at /\ x \in Nat
      BY ONLY <1>2, <1>3, <1>4, <1>5, imported = "under way", x \in WalksTracked, WalksLost(x)
    <3>2. walk[w].at \in Nat
      BY <1>1
    <3>. QED BY ONLY <3>1, <3>2
  <2>. QED BY <1>0, <1>1, <1>2, <2>1, <2>2, <2>3, <2>4, <2>5, WalksWorkerMoves
<1>6. CASE chunk # {}
  <2>1. W!Steps(w, "report", W!Last(chunk), walk[w].hand) /\ belief' = belief \cup chunk
    BY <1>h, <1>c, <1>6 DEF W!ReportState
  <2>2. PICK o : /\ walk' = [walk EXCEPT ![w] = o] /\ o.key = walk[w].key /\ o.pc = "report"
                 /\ o.at = W!Last(chunk) /\ o.hand = walk[w].hand /\ o.stale = {}
                 /\ o = [key |-> o.key, pc |-> o.pc, at |-> o.at, hand |-> o.hand,
                      stale |-> o.stale]
    BY <2>1, WalksStepsIs
  <2>3. WalksOpTyped(w, o)
    BY <1>h, <1>0, <1>1, <1>3, <1>4, <1>6, <2>2 DEF WalksOpTyped, WalksImporting
  <2>4. belief' \subseteq WalksTracked \ bare /\ belief \subseteq belief'
    BY ONLY <1>1, <1>2, <1>3, <2>1
  <2>5. ASSUME imported = "under way", NEW x \in WalksTracked, WalksLost(x), x \notin belief'
        PROVE  x \in DOMAIN o.hand /\ o.at < x
    BY ONLY <1>h, <1>2, <1>3, <1>4, <1>6, <2>1, <2>2, <2>5, x \in WalksTracked
  <2>6. DOMAIN o.hand \subseteq WalksTracked \ bare
    BY <1>h, <1>1, <2>2
  <2>. QED BY <1>0, <1>1, <2>2, <2>3, <2>4, <2>5, <2>6, WalksWorkerMoves
<1>. QED BY <1>5, <1>6

LEMMA WalksTriggerKeeps ==
  ASSUME W!WalksAssumption, WalksInv, NEW w \in Workers, W!Trigger(w)
  PROVE  WalksInv'
<1>0. /\ WalksTyped /\ WalksRowsTrue /\ WalksOneRow /\ WalksItemTrue /\ WalksReplaceTrue
      /\ WalksGoneForGood /\ WalksHandsTrue
      /\ WalksDoneTrue
      /\ WalksImportTrue /\ WalksImported
      /\ \A a \in W!Actors : WalksOpTyped(a, walk[a])
  BY WalksParts
<1>1. /\ Scheduler \in W!Actors /\ w \in W!Actors /\ w # Scheduler
      /\ \A v \in Workers : v \in W!Actors /\ v # Scheduler
      /\ \A x \in WalksTracked : x \in W!Objects /\ x \notin Variables
      /\ \A x \in Studies : x \in W!Objects /\ x \in WalksTracked
      /\ bare \subseteq Studies
  BY <1>0, WalksObjectsAre DEF W!Actors, WalksTracked, WalksTyped
<1>2. /\ walk[w].pc = "trigger" /\ walk[w].key = "search_index_import"
      /\ walk' = [walk EXCEPT ![w] = W!Idle]
      /\ queue' = [x \in W!Objects |-> W!Queued(x)]
      /\ imported' = IF imported = "under way" THEN "yes" ELSE imported
      /\ UNCHANGED <<catalog, held, bare, belief, done, older>>
  BY WalksWorkerIs DEF W!Trigger, WalksImporting
<1>3. /\ imported # "yes"
      /\ \A v \in Workers \ {w} : walk[v].key # "search_index_import"
      /\ imported = "under way" => \A x \in WalksTracked : ~WalksLost(x)
      /\ bare \cap belief = {}
  BY <1>0, <1>2 DEF WalksImportTrue
<1>4. /\ DOMAIN walk' = W!Actors /\ walk'[w] = W!Idle /\ walk'[Scheduler] = walk[Scheduler]
      /\ \A a \in W!Actors \ {w} : walk'[a] = walk[a]
  BY <1>0, <1>1, <1>2 DEF WalksTyped
<1>5. /\ W!Idle.pc = "idle" /\ W!Idle.key # "search_index_import"
      /\ \A a \in W!Actors : WalksOpTyped(a, W!Idle)
  BY WalksIdleIs DEF W!WalksAssumption
<1>6. ASSUME NEW x \in W!Objects
      PROVE  /\ queue[x] # None => queue'[x] = queue[x]
             /\ x \in Variables => queue'[x] = queue[x]
             /\ queue[x] = None /\ x \notin Variables =>
                  \/ queue'[x] = None /\ catalog[x] = None /\ x \notin belief
                  \/ /\ queue'[x] # None /\ queue'[x] \in [act : W!Acts, taken : BOOLEAN]
                     /\ ~queue'[x].taken
                     /\ queue'[x].act = "delete" <=> catalog[x] = None
                     /\ queue'[x].act # "variables"
                     /\ queue'[x].act = "partial" => x \in belief \cap Studies
  <2>. DEFINE act == IF catalog[x] = None THEN "delete"
                     ELSE IF x \in belief \cap Studies THEN "partial" ELSE "upsert"
              row == [act |-> act, taken |-> FALSE]
  <2>1. act \in W!Acts /\ act # "variables" /\ (act = "delete" <=> catalog[x] = None)
        /\ (act = "partial" => x \in belief \cap Studies)
    BY DEF W!Acts
  <2>2. queue'[x] = IF x \in Variables \/ queue[x] # None \/ (catalog[x] = None /\ x \notin belief)
                    THEN queue[x] ELSE row
    BY <1>2 DEF W!Queued
  <2>. HIDE DEF act
  <2>3. row \in [act : W!Acts, taken : BOOLEAN] /\ row.act = act /\ ~row.taken
    BY <2>1
  <2>. HIDE DEF row
  <2>4. row # None
    BY <2>3 DEF W!WalksAssumption
  <2>. QED BY <2>1, <2>2, <2>3, <2>4
<1>7. \A x \in W!Objects : WalksPending(x) => WalksPending(x)'
  BY <1>2, <1>4, <1>6 DEF WalksPending, WalksThrough
<1>8. WalksTyped'
  <2>1. \A a \in W!Actors : WalksOpTyped(a, walk'[a])
    BY <1>0, <1>4, <1>5
  <2>2. \A x \in W!Objects : queue'[x] \in [act : W!Acts, taken : BOOLEAN] \cup {None}
    BY <1>0, <1>6 DEF WalksTyped
  <2>3. queue' \in [W!Objects -> [act : W!Acts, taken : BOOLEAN] \cup {None}]
    BY <1>2, <2>2
  <2>4. imported' \in {"no", "under way", "yes"}
    BY <1>0, <1>2 DEF WalksTyped
  <2>. QED BY <1>0, <1>2, <1>4, <2>1, <2>3, <2>4, WalksAllTyped DEF WalksTyped
<1>9. WalksRowsTrue'
  <2>. SUFFICES ASSUME NEW x \in W!Objects, queue'[x] # None
                PROVE  /\ x \notin Variables => (queue'[x].act = "delete" <=> catalog[x] = None)
                       /\ x \in Variables <=> queue'[x].act = "variables"
                       /\ queue'[x].act = "partial" => x \in Studies \ bare
    BY <1>2 DEF WalksRowsTrue
  <2>1. CASE queue[x] # None \/ x \in Variables
    BY <1>0, <1>6, <2>1 DEF WalksRowsTrue
  <2>2. CASE queue[x] = None /\ x \notin Variables
    BY <1>3, <1>6, <2>2
  <2>. QED BY <2>1, <2>2
<1>10. WalksItemTrue'
  <2>s. PICK s : s = walk[Scheduler]
    OBVIOUS
  <2>1. s.pc # "idle" /\ s.key \notin WalksByPage =>
           /\ s.at \in W!Objects
           /\ queue[s.at] # None
           /\ queue[s.at].taken => s.key = queue[s.at].act
           /\ s.key = "delete" => catalog[s.at] = None /\ s.pc # "fetch"
           /\ s.key = "partial" => s.at \in Studies \ bare
           /\ s.pc = "apply" =>
                /\ queue[s.at].taken => s.hand[s.at] = catalog[s.at]
                /\ s.key = "partial" => s.hand[s.at] # None
           /\ s.pc = "ack" =>
                /\ s.at \notin bare
                /\ queue[s.at].taken => held[s.at] = catalog[s.at] \/ s.at \in older
    BY <2>s, WalksItemIs
  <2>2. s.pc # "idle" /\ s.key \notin WalksByPage => queue'[s.at] = queue[s.at]
    BY <1>6, <2>1
  <2>3. /\ s = walk'[Scheduler] /\ catalog' = catalog /\ bare' = bare /\ held' = held
        /\ older' = older
    BY <1>2, <1>4, <2>s
  <2>. QED BY <2>1, <2>2, <2>3, WalksItemNext
<1>x. WalksOneRow' /\ WalksReplaceTrue'
  <2>1. \A v \in Variables : queue'[v] = queue[v]
    BY <1>6 DEF W!Objects
  <2>2. WalksOneRow'
    BY <1>0, <2>1 DEF WalksOneRow
  <2>. QED BY <1>0, <1>2, <1>4, <2>1, <2>2, WalksReplaceStays
<1>11. WalksGoneForGood'
  BY <1>0, <1>2, <1>4, <1>5 DEF WalksGoneForGood
<1>12. WalksHandsTrue'
  <2>. SUFFICES ASSUME NEW v \in Workers, walk'[v].pc \in {"write", "sync"},
                       NEW x \in DOMAIN walk'[v].hand \ walk'[v].stale
                PROVE  walk'[v].hand[x] = catalog'[x] \/ WalksPending(x)'
    BY DEF WalksHandsTrue
  <2>1. v # w /\ walk'[v] = walk[v] /\ DOMAIN walk[v].hand \subseteq W!Objects
    BY <1>0, <1>1, <1>4, <1>5 DEF WalksOpTyped
  <2>2. x \in W!Objects /\ (walk[v].hand[x] = catalog[x] \/ WalksPending(x))
    BY <1>0, <2>1 DEF WalksHandsTrue
  <2>. QED BY <1>2, <1>7, <2>1, <2>2
<1>13. WalksDoneTrue'
  BY <1>0, <1>2, <1>7 DEF WalksDoneTrue, WalksTyped
<1>14. WalksImportTrue'
  <2>1. \A v \in Workers : walk'[v].key # "search_index_import"
    BY <1>1, <1>3, <1>4, <1>5
  <2>. QED BY <1>2, <1>3, <2>1 DEF WalksImportTrue
<1>15. WalksImported'
  <2>. SUFFICES ASSUME imported' = "yes" PROVE WalksImported'
    BY DEF WalksImported
  <2>1. \A x \in WalksTracked : ~WalksLost(x)
    BY <1>2, <1>3
  <2>2. \A x \in bare' : catalog'[x] # None => queue'[x] # None
    BY <1>1, <1>2, <1>6
  <2>3. \A x \in WalksTracked : queue'[x] = None => (x \in belief' <=> catalog'[x] # None)
    BY <1>1, <1>2, <1>6
  <2>4. ASSUME NEW x \in WalksTracked \ (older' \cup bare'), ~WalksPending(x)'
        PROVE  held'[x] = catalog'[x]
    <3>1. x \in W!Objects /\ x \notin Variables /\ x \notin older /\ x \notin bare
      BY <1>1, <1>2
    <3>2. CASE queue'[x] = None
      <4>1. catalog[x] = None /\ x \notin belief /\ queue[x] = None
        BY <1>6, <3>1, <3>2
      <4>2. held[x] = None
        BY <2>1, <3>1, <4>1 DEF WalksLost
      <4>. QED BY <1>2, <4>1, <4>2
    <3>3. CASE queue'[x] # None
      <4>s. PICK s : s = walk[Scheduler]
        OBVIOUS
      <4>1. s.pc = "ack" /\ s.key \notin WalksByPage /\ s.at = x /\ queue'[x].taken
        BY <1>4, <2>4, <3>1, <3>3, <4>s DEF WalksPending, WalksThrough
      <4>2. queue[x] # None /\ (queue[x].taken => held[x] = catalog[x] \/ x \in older)
        BY <4>s, <4>1, WalksItemIs
      <4>3. queue'[x] = queue[x]
        BY <1>6, <3>1, <4>2
      <4>. QED BY <1>2, <3>1, <4>1, <4>2, <4>3
    <3>. QED BY <3>2, <3>3
  <2>. QED BY <2>2, <2>3, <2>4 DEF WalksImported
<1>. QED BY <1>8, <1>9, <1>10, <1>x, <1>11, <1>12, <1>13, <1>14, <1>15 DEF WalksInv

\* NADA's catalog changes, and queues a row.
LEMMA WalksChangeKeeps ==
  ASSUME W!WalksAssumption, WalksInv, NEW y \in W!Objects, W!Change(y)
  PROVE  WalksInv'
<1>0. /\ WalksTyped /\ WalksRowsTrue /\ WalksOneRow /\ WalksItemTrue /\ WalksReplaceTrue
      /\ WalksGoneForGood /\ WalksHandsTrue
      /\ WalksDoneTrue
      /\ WalksImportTrue /\ WalksImported
      /\ \A a \in W!Actors : WalksOpTyped(a, walk[a])
  BY WalksParts
<1>1. /\ Scheduler \in W!Actors /\ \A v \in Workers : v \in W!Actors
      /\ \A x \in WalksTracked : x \in W!Objects
      /\ \A x \in Studies : x \in W!Objects
  BY WalksObjectsAre DEF W!Actors, WalksTracked
<1>2. catalog[y] # None /\ catalog[y] \in Nat
      /\ UNCHANGED <<held, bare, belief, walk, done, older, imported>>
  BY <1>0 DEF W!Change, WalksTyped, WalksVersions
<1>3. PICK v \in {catalog[y] + 1, None} :
        /\ catalog' = [catalog EXCEPT ![y] = v]
        /\ LET act == CASE y \in Variables -> "variables"
                        [] v = None /\ y \notin Variables -> "delete"
                        [] OTHER -> "upsert"
           IN queue' = [p \in W!Objects |->
                          IF p \in W!RowOf(y) THEN [act |-> act, taken |-> FALSE] ELSE queue[p]]
  BY DEF W!Change
<1>a. PICK act \in {"upsert", "delete", "variables"} :
        /\ queue' = [p \in W!Objects |->
                       IF p \in W!RowOf(y) THEN [act |-> act, taken |-> FALSE] ELSE queue[p]]
        /\ y \notin Variables => (act = "delete" <=> v = None)
        /\ y \in Variables <=> act = "variables"
  BY <1>3
<1>b. v \in WalksVersions
  BY <1>2 DEF WalksVersions
<1>4. PICK row : row = [act |-> act, taken |-> FALSE]
  OBVIOUS
<1>5. row \in [act : W!Acts, taken : BOOLEAN] /\ row.act = act /\ ~row.taken
  BY <1>4 DEF W!Acts
<1>6. row # None
  BY <1>5 DEF W!WalksAssumption
<1>c. /\ y \in W!RowOf(y) /\ W!RowOf(y) \subseteq W!Objects
      /\ y \in Variables => W!RowOf(y) = Variables
      /\ y \notin Variables => W!RowOf(y) = {y}
  BY DEF W!RowOf, W!Objects
<1>7. /\ catalog'[y] = v /\ \A x \in W!RowOf(y) : queue'[x] = row
      /\ queue'[y] = row
      /\ \A x \in W!Objects \ {y} : catalog'[x] = catalog[x]
      /\ \A x \in W!Objects \ W!RowOf(y) : queue'[x] = queue[x]
      /\ \A x \in W!Objects : queue'[x] = row \/ queue'[x] = queue[x]
      /\ catalog' \in [W!Objects -> WalksVersions]
      /\ queue' \in [W!Objects -> [act : W!Acts, taken : BOOLEAN] \cup {None}]
  BY <1>0, <1>3, <1>a, <1>b, <1>c, <1>4, <1>5 DEF WalksTyped
<1>8. /\ WalksPending(y)'
      /\ \A x \in W!Objects : WalksPending(x) => WalksPending(x)'
  <2>1. \A x \in W!RowOf(y) : WalksPending(x)'
    BY <1>5, <1>6, <1>7 DEF WalksPending
  <2>2. ASSUME NEW x \in W!Objects \ W!RowOf(y), WalksPending(x) PROVE WalksPending(x)'
    <3>1. x # y /\ queue'[x] = queue[x] /\ catalog'[x] = catalog[x]
      BY <1>7, <1>c
    <3>. QED BY <1>2, <2>2, <3>1 DEF WalksPending, WalksThrough
  <2>. QED BY <1>c, <2>1, <2>2
<1>9. WalksTyped'
  BY <1>0, <1>2, <1>7, WalksAllTyped DEF WalksTyped
<1>10. WalksRowsTrue'
  <2>. SUFFICES ASSUME NEW x \in W!Objects, queue'[x] # None
                PROVE  /\ x \notin Variables => (queue'[x].act = "delete" <=> catalog'[x] = None)
                       /\ x \in Variables <=> queue'[x].act = "variables"
                       /\ queue'[x].act = "partial" => x \in Studies \ bare
    BY <1>2 DEF WalksRowsTrue
  <2>1. CASE x \in W!RowOf(y)
    <3>1. queue'[x].act = act /\ act # "partial" /\ (x \in Variables <=> act = "variables")
      BY <1>5, <1>7, <1>a, <1>c, <2>1
    <3>2. x \notin Variables => x = y
      BY <1>c, <2>1
    <3>. QED BY <1>7, <1>a, <3>1, <3>2
  <2>2. CASE x \notin W!RowOf(y)
    <3>1. queue'[x] = queue[x] /\ catalog'[x] = catalog[x]
      BY <1>7, <1>c, <2>2
    <3>. QED BY <1>0, <3>1 DEF WalksRowsTrue
  <2>. QED BY <2>1, <2>2
<1>11. WalksItemTrue'
  <2>s. PICK s : s = walk[Scheduler]
    OBVIOUS
  <2>1. s.pc # "idle" /\ s.key \notin WalksByPage =>
           /\ s.at \in W!Objects /\ s.at \in WalksTracked
           /\ queue[s.at] # None
           /\ queue[s.at].taken => s.key = queue[s.at].act
           /\ s.key = "delete" => catalog[s.at] = None /\ s.pc # "fetch"
           /\ s.key = "partial" => s.at \in Studies \ bare
           /\ s.pc = "apply" =>
                /\ queue[s.at].taken => s.hand[s.at] = catalog[s.at]
                /\ s.key = "partial" => s.hand[s.at] # None
           /\ s.pc = "ack" =>
                /\ s.at \notin bare
                /\ queue[s.at].taken => held[s.at] = catalog[s.at] \/ s.at \in older
    BY <2>s, WalksItemIs
  <2>2. s = walk'[Scheduler] /\ bare' = bare /\ held' = held /\ older' = older
    BY <1>2, <2>s
  <2>3. CASE s.at = y
    <3>1. queue'[s.at] # None /\ ~queue'[s.at].taken
      BY <1>5, <1>6, <1>7, <2>3
    <3>2. s.pc # "idle" /\ s.key \notin WalksByPage => s.key # "delete"
      BY <1>2, <2>1, <2>3
    <3>. QED BY <2>1, <2>2, <3>1, <3>2, WalksItemNext
  <2>4. CASE s.at # y
    <3>1. s.pc # "idle" /\ s.key \notin WalksByPage =>
            queue'[s.at] = queue[s.at] /\ catalog'[s.at] = catalog[s.at]
      BY <1>7, <1>c, <2>1, <2>4, WalksObjectsAre
    <3>. QED BY <2>1, <2>2, <3>1, WalksItemNext
  <2>. QED BY <2>3, <2>4
<1>x. WalksOneRow' /\ WalksReplaceTrue'
  <2>1. WalksOneRow'
    BY <1>0, <1>7, <1>c DEF WalksOneRow, W!Objects
  <2>s. PICK s : s = walk[Scheduler]
    OBVIOUS
  <2>2. WalksReplacing(s.key, s.pc, s.at, s.hand, queue, catalog)
    BY <1>0, <2>s, Zenon DEF WalksReplaceTrue
  <2>3. ASSUME NEW u \in Variables
        PROVE  /\ catalog[u] = None => catalog'[u] = None
               /\ queue[u] # None => queue'[u] # None
               /\ queue[u] # None /\ queue'[u].taken =>
                    queue[u].taken /\ catalog'[u] = catalog[u]
    <3>1. u \in W!Objects
      BY DEF W!Objects
    <3>. QED BY <1>2, <1>5, <1>6, <1>7, <1>c, <3>1
  <2>4. WalksReplacing(s.key, s.pc, s.at, s.hand, queue', catalog')
    BY <2>2, <2>3 DEF WalksReplacing
  <2>5. walk'[Scheduler] = s
    BY <1>2, <2>s
  <2>. QED BY <2>1, <2>4, <2>5, WalksReplaceNext
<1>12. WalksGoneForGood'
  <2>. SUFFICES ASSUME NEW a \in W!Actors,
                       walk[a].pc \in {"empty", "write", "sync", "apply"},
                       NEW x \in DOMAIN walk[a].hand, walk[a].hand[x] = None
                PROVE  catalog'[x] = None
    BY <1>2 DEF WalksGoneForGood
  <2>1. catalog[x] = None /\ x \in W!Objects
    BY <1>0 DEF WalksGoneForGood, WalksOpTyped
  <2>. QED BY <1>2, <1>7, <2>1
<1>13. WalksHandsTrue'
  <2>. SUFFICES ASSUME NEW w \in Workers, walk[w].pc \in {"write", "sync"},
                       NEW x \in DOMAIN walk[w].hand \ walk[w].stale
                PROVE  walk[w].hand[x] = catalog'[x] \/ WalksPending(x)'
    BY <1>2 DEF WalksHandsTrue
  <2>1. x \in W!Objects /\ (walk[w].hand[x] = catalog[x] \/ WalksPending(x))
    BY <1>0, <1>1 DEF WalksHandsTrue, WalksOpTyped
  <2>. QED BY <1>7, <1>8, <2>1
<1>14. WalksDoneTrue'
  <2>1. done \subseteq W!Objects
    BY <1>0 DEF WalksTyped
  <2>. QED BY <1>0, <1>2, <1>7, <1>8, <2>1 DEF WalksDoneTrue
<1>15. \A x \in W!Objects : WalksLost(x)' => WalksLost(x)
  BY <1>2, <1>6, <1>7, <1>c DEF WalksLost
<1>16. WalksImportTrue'
  BY <1>0, <1>1, <1>2, <1>15 DEF WalksImportTrue
<1>17. WalksImported'
  <2>. SUFFICES ASSUME imported' = "yes" PROVE WalksImported'
    BY DEF WalksImported
  <2>1. bare \subseteq W!Objects
    BY <1>0, <1>1 DEF WalksTyped
  <2>2. \A x \in bare' : catalog'[x] # None => queue'[x] # None
    BY <1>0, <1>2, <1>6, <1>7, <2>1 DEF WalksImported
  <2>3. \A x \in WalksTracked : queue'[x] = None => (x \in belief' <=> catalog'[x] # None)
    BY <1>0, <1>1, <1>2, <1>6, <1>7 DEF WalksImported
  <2>4. \A x \in WalksTracked \ (older' \cup bare') : held'[x] = catalog'[x] \/ WalksPending(x)'
    BY <1>0, <1>1, <1>2, <1>7, <1>8 DEF WalksImported
  <2>. QED BY <2>2, <2>3, <2>4 DEF WalksImported
<1>. QED BY <1>9, <1>10, <1>11, <1>x, <1>12, <1>13, <1>14, <1>16, <1>17 DEF WalksInv

LEMMA WalksInitHolds ==
  ASSUME W!WalksAssumption, W!Init
  PROVE  WalksInv
<1>1. /\ \A a \in W!Actors : walk[a] = W!Idle
      /\ walk = [a \in W!Actors |-> W!Idle] /\ queue = [x \in W!Objects |-> None]
      /\ done = {} /\ older = {} /\ imported = "no"
  BY DEF W!Init
<1>2. /\ W!Idle.pc = "idle" /\ W!Idle.key # "search_index_import" /\ DOMAIN W!Idle.hand = {}
      /\ \A a \in W!Actors : WalksOpTyped(a, W!Idle)
  BY WalksIdleIs DEF W!WalksAssumption
<1>3. /\ Scheduler \in W!Actors /\ \A v \in Workers : v \in W!Actors
      /\ Studies \subseteq W!Objects /\ WalksTracked \subseteq W!Objects
  BY WalksObjectsAre DEF W!Actors, WalksTracked
<1>4. /\ held \in [W!Objects -> WalksVersions] /\ catalog \in [W!Objects -> WalksVersions]
      /\ belief \subseteq WalksTracked /\ bare \cap belief = {}
      /\ bare \subseteq {s \in Studies : held[s] # None}
  <2>1. CASE /\ bare = {} /\ held = [o \in W!Objects |-> 1] /\ catalog = held
             /\ belief = Citations \cup Studies
    BY <2>1 DEF WalksVersions, WalksTracked
  <2>2. ASSUME NEW there \in SUBSET (Citations \cup Studies), NEW gone \in SUBSET there,
               /\ bare \subseteq there
               /\ held = [o \in W!Objects |-> IF o \in there THEN 1 ELSE None]
               /\ catalog = [o \in W!Objects |-> IF o \in gone THEN None ELSE 1]
               /\ belief = {}
        PROVE  /\ held \in [W!Objects -> WalksVersions]
               /\ catalog \in [W!Objects -> WalksVersions]
               /\ belief \subseteq WalksTracked /\ bare \cap belief = {}
               /\ bare \subseteq {s \in Studies : held[s] # None}
    <3>1. held \in [W!Objects -> WalksVersions] /\ catalog \in [W!Objects -> WalksVersions]
      BY <2>2 DEF WalksVersions
    <3>2. 1 # None
      BY DEF W!WalksAssumption
    <3>3. bare \subseteq Studies
      BY DEF W!Init
    <3>4. \A s \in bare : s \in W!Objects /\ held[s] # None
      BY <1>3, <2>2, <3>2, <3>3
    <3>. QED BY <2>2, <3>1, <3>3, <3>4
  <2>. QED BY <2>1, <2>2 DEF W!Init
<1>5. WalksTyped
  BY <1>1, <1>2, <1>4 DEF WalksTyped
<1>6. WalksRowsTrue
  BY <1>1 DEF WalksRowsTrue
<1>7. WalksItemTrue
  BY <1>1, <1>2, <1>3 DEF WalksItemTrue
<1>x. WalksOneRow /\ WalksReplaceTrue
  <2>1. WalksOneRow
    BY <1>1 DEF WalksOneRow, W!Objects
  <2>2. walk[Scheduler].pc = "idle"
    BY <1>1, <1>2, <1>3
  <2>. QED BY <2>1, <2>2 DEF WalksReplaceTrue, WalksReplacing
<1>8. WalksGoneForGood /\ WalksHandsTrue /\ WalksDoneTrue
  BY <1>1, <1>2, <1>3 DEF WalksGoneForGood, WalksHandsTrue, WalksDoneTrue
<1>9. WalksImportTrue /\ WalksImported
  BY <1>1, <1>2, <1>3, <1>4 DEF WalksImportTrue, WalksImported
<1>. QED BY <1>5, <1>6, <1>7, <1>x, <1>8, <1>9 DEF WalksInv

LEMMA WalksStep ==
  ASSUME W!WalksAssumption, WalksInv, [W!Next]_walkVars
  PROVE  WalksInv'
<1>1. ASSUME NEW w \in Workers, W!Job(w) PROVE WalksInv'
  <2>1. CASE W!StartCitations(w) \/ W!StartVariables(w) \/ W!StartIds(w) \/ W!StartImport(w)
    BY <2>1, WalksStartKeeps
  <2>2. CASE W!WalkCitations(w) \/ W!WalkVariables(w)
    BY <2>2, WalksReadPageKeeps, WalksWritePageKeeps DEF W!WalkCitations, W!WalkVariables
  <2>3. CASE W!FetchId(w)
    BY <2>3, WalksFetchIdKeeps
  <2>4. CASE W!SyncId(w)
    BY <2>4, WalksSyncIdKeeps
  <2>5. CASE W!Chunks(w)
    BY <2>5, WalksChunksKeeps
  <2>6. CASE W!Scan(w)
    BY <2>6, WalksScanKeeps
  <2>7. CASE W!ReportState(w)
    BY <2>7, WalksReportKeeps
  <2>8. CASE W!Trigger(w)
    BY <2>8, WalksTriggerKeeps
  <2>. QED BY <1>1, <2>1, <2>2, <2>3, <2>4, <2>5, <2>6, <2>7, <2>8 DEF W!Job
<1>2. CASE \E x \in W!Objects : W!TakeRow(x)
  BY <1>2, WalksTakeRowKeeps
<1>3. CASE W!FetchItem
  BY <1>3, WalksFetchItemKeeps
<1>4. CASE W!Apply
  BY <1>4, WalksApplyKeeps
<1>5. CASE W!Ack
  BY <1>5, WalksAckKeeps
<1>r. CASE W!Replace
  BY <1>r, WalksFirstPageKeeps, WalksRemoveAllKeeps, WalksNextPageKeeps,
     WalksWriteVariablesKeeps DEF W!Replace
<1>6. ASSUME NEW a \in W!Actors, W!Fails(a) PROVE WalksInv'
  BY <1>6, WalksStoppedIs DEF W!Fails
<1>7. CASE W!Crash
  <2>1. walk' = [a \in W!Actors |-> IF a \in W!Actors THEN W!Idle ELSE walk[a]]
    BY <1>7 DEF W!Crash
  <2>. QED BY <1>7, <2>1, WalksStops DEF W!Crash
<1>8. CASE \E x \in W!Objects : W!Change(x)
  BY <1>8, WalksChangeKeeps
<1>9. CASE UNCHANGED walkVars
  <2>0. /\ catalog' = catalog /\ held' = held /\ bare' = bare /\ belief' = belief
        /\ queue' = queue
        /\ walk' = walk /\ done' = done /\ older' = older /\ imported' = imported
    BY <1>9 DEF walkVars
  <2>1. /\ WalksTyped /\ WalksRowsTrue /\ WalksOneRow /\ WalksItemTrue /\ WalksReplaceTrue
        /\ WalksGoneForGood /\ WalksHandsTrue
        /\ WalksDoneTrue
        /\ WalksImportTrue /\ WalksImported
    BY WalksParts
  <2>2. WalksTyped'
    BY <2>0, <2>1, WalksAllTyped DEF WalksTyped
  <2>3. WalksRowsTrue' /\ WalksOneRow' /\ WalksGoneForGood'
    BY <2>0, <2>1 DEF WalksRowsTrue, WalksOneRow, WalksGoneForGood
  <2>r. WalksReplaceTrue'
    BY <2>0, <2>1, WalksReplaceStays
  <2>4. WalksItemTrue'
    BY ONLY <2>0, <2>1, Zenon DEF WalksItemTrue
  <2>5. \A x : WalksPending(x)' <=> WalksPending(x)
    BY ONLY <2>0 DEF WalksPending, WalksThrough
  <2>6. WalksHandsTrue' /\ WalksDoneTrue'
    BY <2>0, <2>1, <2>5 DEF WalksHandsTrue, WalksDoneTrue
  <2>7. \A x : WalksLost(x)' <=> WalksLost(x)
    BY ONLY <2>0 DEF WalksLost
  <2>8. WalksImportTrue' /\ WalksImported'
    BY <2>0, <2>1, <2>5, <2>7 DEF WalksImportTrue, WalksImported
  <2>. QED BY <2>2, <2>3, <2>r, <2>4, <2>6, <2>8 DEF WalksInv
<1>. QED BY <1>1, <1>2, <1>3, <1>4, <1>5, <1>r, <1>6, <1>7, <1>8, <1>9 DEF W!Next

LEMMA WalksInvImplies ==
  ASSUME W!WalksAssumption, WalksInv
  PROVE  W!TypeOK /\ W!UpToDate /\ W!ImportSettles
<1>1. WalksTyped /\ WalksDoneTrue /\ WalksImported /\ \A a \in W!Actors : WalksOpTyped(a, walk[a])
  BY WalksParts
<1>2. /\ \A x \in WalksTracked : x \in W!Objects
      /\ Studies \cup Citations = WalksTracked /\ bare \subseteq W!Objects
  BY <1>1, WalksObjectsAre DEF WalksTyped, WalksTracked, W!Objects
<1>3. W!TypeOK
  BY <1>1 DEF W!TypeOK, WalksTyped, WalksOpTyped, WalksVersions, WalksTracked
<1>4. W!Quiet => \A x \in W!Objects : queue[x] = None /\ ~WalksPending(x)
  BY DEF W!Quiet, WalksPending
<1>5. W!UpToDate
  BY <1>1, <1>4 DEF W!UpToDate, WalksDoneTrue, WalksTyped
<1>6. W!ImportSettles
  BY <1>1, <1>2, <1>4 DEF W!ImportSettles, WalksImported
<1>. QED BY <1>3, <1>5, <1>6

LEMMA WalksNothingGoesUnseen ==
  ASSUME W!WalksAssumption, WalksInv, [W!Next]_walkVars
  PROVE  W!DropsTheGone
<1>. SUFFICES ASSUME NEW x \in W!Objects, held[x] # None, held'[x] = None
              PROVE  \/ catalog[x] = None
                     \/ \E w \in Workers :
                          walk[w] = W!Idle
                          /\ walk'[w].key \in {"index_citations:all", "index_variables:all"}
                     \/ x \in Variables /\ queue[x] # None /\ walk[Scheduler].pc = "empty"
  BY DEF W!DropsTheGone
<1>0. WalksTyped /\ WalksGoneForGood /\ Scheduler \in W!Actors /\ \A w \in Workers : w \in W!Actors
  BY WalksParts, WalksObjectsAre DEF W!Actors
<1>1. held' # held
  OBVIOUS
<1>2. ASSUME NEW a \in W!Actors, walk[a].pc \in {"write", "sync", "apply"},
             NEW U \in SUBSET DOMAIN walk[a].hand, W!Written(a, U)
      PROVE  catalog[x] = None
  BY <1>0, <1>2 DEF W!Written, WalksGoneForGood
<1>3. ASSUME NEW w \in Workers, W!Job(w)
      PROVE  \/ catalog[x] = None
             \/ walk[w] = W!Idle /\ walk'[w].key \in {"index_citations:all", "index_variables:all"}
  <2>1. CASE W!StartCitations(w) \/ W!StartVariables(w)
    <3>1. PICK key \in {"index_citations:all", "index_variables:all"} :
            walk[w] = W!Idle /\ walk' = [walk EXCEPT ![w] = W!Doing(key, "read", 0, W!NoHand)]
      BY <2>1 DEF W!StartCitations, W!StartVariables, W!StartWalk, W!Starts
    <3>2. walk'[w].key = key
      BY <1>0, <3>1 DEF WalksTyped, W!Doing
    <3>. QED BY <3>1, <3>2
  <2>2. CASE W!WritePage(w) \/ W!SyncId(w)
    BY <1>0, <1>2, <2>2 DEF W!WritePage, W!SyncId
  <2>. QED
    BY <1>1, <1>3, <2>1, <2>2 DEF W!Job, W!StartIds, W!StartImport, W!WalkCitations,
       W!WalkVariables, W!ReadPage, W!FetchId, W!Chunks, W!Scan, W!ReportState, W!Trigger
<1>4. CASE W!Apply
  <2>1. walk[Scheduler].pc = "apply" /\ W!Written(Scheduler, {walk[Scheduler].at})
    BY <1>4 DEF W!Apply
  <2>2. DOMAIN walk[Scheduler].hand = {walk[Scheduler].at}
    BY <1>0, <2>1 DEF WalksTyped, WalksOpTyped
  <2>. QED BY <1>0, <1>2, <2>1, <2>2
<1>5. CASE W!WriteVariables
  <2>1. PICK ok \in SUBSET DOMAIN walk[Scheduler].hand : W!Written(Scheduler, ok)
    BY <1>5 DEF W!WriteVariables
  <2>. QED BY <1>0, <1>2, <1>5, <2>1 DEF W!WriteVariables
<1>6. CASE W!RemoveAll
  <2>1. x \in Variables /\ walk[Scheduler].pc = "empty"
    BY <1>1, <1>6 DEF W!RemoveAll
  <2>2. walk[Scheduler].key \in WalksByPage
    BY <1>0, <2>1 DEF WalksTyped, WalksOpTyped
  <2>3. queue[x] # None
    BY <2>1, <2>2, WalksParts, Zenon DEF WalksReplaceTrue, WalksReplacing
  <2>. QED BY <2>1, <2>3
<1>. QED
  BY <1>1, <1>3, <1>4, <1>5, <1>6 DEF W!Next, W!Replace, W!FirstPage, W!NextPage, W!Steps, W!TakeRow,
     W!FetchItem, W!Ack, W!Fails, W!Crash, W!Change, walkVars

-----------------------------------------------------------------------------
\* Of the parts one runs, the one that was chosen at the start.
LEMMA WalksRun ==
  /\ ServicesInit => (part = "walks" => W!Init)
  /\ [ServicesNext]_servicesVars => part' = part /\ (part = "walks" => [W!Next]_walkVars)
<1>1. ServicesInit => (part = "walks" => W!Init)
  BY DEF ServicesInit
<1>2. ASSUME UNCHANGED servicesVars
      PROVE  UNCHANGED <<part, walkVars>>
  BY <1>2 DEF servicesVars
<1>3. ServicesNext => part' = part /\ (part = "walks" => W!Next)
  BY DEF ServicesNext
<1>. QED BY <1>1, <1>2, <1>3

LEMMA WalksPartHolds == ServicesSpec => [](part = "walks" => WalksInv)
<1>1. ServicesInit => (part = "walks" => WalksInv)
  BY WalksRun, WalksInitHolds, ServicesAssumption DEF ServicesAssumption
<1>2. (part = "walks" => WalksInv) /\ [ServicesNext]_servicesVars => (part = "walks" => WalksInv)'
  BY WalksRun, WalksStep, ServicesAssumption DEF ServicesAssumption
<1>. QED BY <1>1, <1>2, PTL DEF ServicesSpec

\* An object is in the index as the catalog has it once nothing is under way and no row is
\* queued, unless an older reading overtook a newer one; an import leaves nothing of what was
\* lost behind; and nothing is dropped because NADA could not be read, but the variables of a
\* study that an item has begun to replace, whose row stays.
THEOREM WalksAreTrue == ServicesSpec => WalksHold
<1>1. (part = "walks" => WalksInv) => (part = "walks" => W!UpToDate /\ W!ImportSettles)
  BY WalksInvImplies, ServicesAssumption DEF ServicesAssumption
<1>2. (part = "walks" => WalksInv) /\ [ServicesNext]_servicesVars
        => [part = "walks" => W!DropsTheGone]_walkVars
  BY WalksRun, WalksNothingGoesUnseen, ServicesAssumption DEF ServicesAssumption
<1>. QED BY <1>1, <1>2, WalksPartHolds, PTL DEF ServicesSpec, WalksHold

\* Type correctness of the walks: what each operation holds at each of its points.
THEOREM WalksAreTyped == ServicesSpec => [](part = "walks" => ServicesTypeOK)
<1>1. (part = "walks" => WalksInv) => (part = "walks" => ServicesTypeOK)
  BY WalksInvImplies, ServicesAssumption DEF ServicesAssumption, ServicesTypeOK
<1>. QED BY <1>1, WalksPartHolds, PTL
=============================================================================
