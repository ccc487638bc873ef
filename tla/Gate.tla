-------------------------------- MODULE Gate --------------------------------
(***************************************************************************)
(* The gate of nada/gate.py: every request a process sends to NADA, from    *)
(* the scheduler, a job's thread or ai4data, passes through it, one at a    *)
(* time. A thread holds the gate's lock for the whole of send(), its waits  *)
(* included. NADA's answers are external. The two clocks of the code, of    *)
(* intervals and of the day, are one here; a thread may wake up late. The   *)
(* process may restart, and then forgets all the gate knew.                 *)
(***************************************************************************)
EXTENDS Integers, FiniteSets, FiniteSetsExt

CONSTANTS
  Threads,
  Interval,         \* request_min_interval_ms
  MaxRetries,       \* request_max_retries
  RetryBase,        \* request_retry_base_seconds
  RetryAfterMax,    \* RETRY_AFTER_MAX_SECONDS
  Slowdown,         \* _RATE_LIMIT_SLOWDOWN_SECONDS
  Delays,           \* what a Retry-After may say
  None,
  MaxTime, MaxSends \* bounds: the clock, and how often send() is called

ASSUME GateAssumption ==
  /\ Interval \in Nat /\ MaxRetries \in Nat /\ RetryBase \in Nat /\ RetryAfterMax \in Nat
  /\ Slowdown \in Nat /\ Delays \subseteq Nat /\ MaxTime \in Nat /\ MaxSends \in Nat
  /\ None \notin Nat /\ None \notin Threads
  /\ None \notin {"firewall", "unavailable", "rate_limited"}
  \* True of every RetryBase; the prover knows no powers.
  /\ \A attempt \in 0..MaxRetries : RetryBase * 3^attempt \in Nat

VARIABLES
  now,
  holder,     \* the thread in the gate's lock, or None
  th,         \* each thread: where it is in send()
  lastEnd, slowUntil, notBefore, trouble,   \* the gate's fields
  sends,      \* how often send() was called
  asked,      \* history: the time until which a busy NADA asked for no request
  walls       \* history: the threads whose present call met the firewall

vars == <<now, holder, th, lastEnd, slowUntil, notBefore, trouble, sends, asked, walls>>

\* Long before the start: _last_end, _slow_until and not_before are -inf there.
Never == -1 - Interval * 2

NoTrouble == [at |-> Never, kind |-> None]

\* pc: "idle", "lock", "pace", "flight", "backoff". `outcome` is how the last call ended,
\* `since` when it was made (what its caller asks trouble_since for).
Outside == [pc |-> "idle", attempt |-> 0, wake |-> 0, since |-> 0, outcome |-> None]

Init ==
  /\ now = 0
  /\ holder = None
  /\ th = [t \in Threads |-> Outside]
  /\ lastEnd = Never /\ slowUntil = Never /\ notBefore = Never /\ trouble = NoTrouble
  /\ sends = 0
  /\ asked = Never
  /\ walls = {}

IntervalSeconds == IF now < slowUntil THEN 2 * Interval ELSE Interval

\* _pace: when the thread may send.
PaceUntil == Max({now, lastEnd + IntervalSeconds})

Becomes(t, pc, attempt, wake, since, outcome) ==
  th' = [th EXCEPT ![t] = [pc |-> pc, attempt |-> attempt, wake |-> wake, since |-> since, outcome |-> outcome]]

Call(t) ==
  /\ th[t].pc = "idle" /\ sends < MaxSends
  /\ Becomes(t, "lock", 0, 0, now, None)
  /\ sends' = sends + 1
  /\ UNCHANGED <<now, holder, lastEnd, slowUntil, notBefore, trouble, asked, walls>>

Return(t, outcome) ==
  /\ holder' = None
  /\ Becomes(t, "idle", th[t].attempt, th[t].wake, th[t].since, outcome)

\* Mutant: what NADA asked another request to wait for is not looked at.
EnterAnyway(t) ==
  /\ th[t].pc = "lock" /\ holder = None
  /\ holder' = t
  /\ Becomes(t, "pace", 0, PaceUntil, th[t].since, None)
  /\ walls' = walls \ {t}
  /\ UNCHANGED <<now, lastEnd, slowUntil, notBefore, trouble, sends, asked>>

\* The lock is taken. Before not_before nothing is sent: NadaAskedToWait.
Enter(t) ==
  /\ th[t].pc = "lock" /\ holder = None
  /\ IF now < notBefore
     THEN Return(t, "asked_to_wait")
     ELSE /\ holder' = t
          /\ Becomes(t, "pace", 0, PaceUntil, th[t].since, None)
  /\ walls' = walls \ {t}
  /\ UNCHANGED <<now, lastEnd, slowUntil, notBefore, trouble, sends, asked>>

Depart(t) ==
  /\ th[t].pc = "pace" /\ now >= th[t].wake
  /\ Becomes(t, "flight", th[t].attempt, th[t].wake, th[t].since, None)
  /\ UNCHANGED <<now, holder, lastEnd, slowUntil, notBefore, trouble, sends, asked, walls>>

\* An answer the caller reads for itself.
Answered(t) ==
  /\ th[t].pc = "flight"
  /\ lastEnd' = now
  /\ Return(t, "answer")
  /\ UNCHANGED <<now, slowUntil, notBefore, trouble, sends, asked, walls>>

\* is_firewall_response: recorded and raised, whatever retries are left.
Blocked(t) ==
  /\ th[t].pc = "flight"
  /\ lastEnd' = now
  /\ walls' = walls \cup {t}
  /\ trouble' = [at |-> now, kind |-> "firewall"]
  /\ Return(t, "firewall")
  /\ UNCHANGED <<now, slowUntil, notBefore, sends, asked>>

\* _backoff: the waits it may choose; none where NADA asks for more than the gate
\* waits out. The jitter is up to a quarter of the base, rounded up here.
Waits(attempt, after) ==
  LET base == RetryBase * 3^attempt
  IN  IF after = None THEN base .. base + (base + 3) \div 4
      ELSE IF after <= RetryAfterMax THEN {after} ELSE {}

\* The end of the retries: recorded, Retry-After kept for all who come after.
GiveUp(t, kind, after) ==
  /\ notBefore' = IF after = None THEN notBefore ELSE Max({notBefore, now + after})
  /\ trouble' = [at |-> now, kind |-> kind]
  /\ Return(t, kind)

\* A busy answer, with its Retry-After or None, or (kind "unavailable" without one) a
\* transport error.
Busy(t, kind, after) ==
  /\ th[t].pc = "flight"
  /\ lastEnd' = now
  /\ slowUntil' = IF kind = "rate_limited" THEN now + Slowdown ELSE slowUntil
  /\ asked' = IF after = None THEN asked ELSE Max({asked, now + after})
  /\ IF th[t].attempt = MaxRetries \/ Waits(th[t].attempt, after) = {}
     THEN GiveUp(t, kind, after)
     ELSE /\ \E w \in Waits(th[t].attempt, after) :
               Becomes(t, "backoff", th[t].attempt, now + w, th[t].since, None)
          /\ UNCHANGED <<holder, notBefore, trouble>>
  /\ UNCHANGED <<now, sends, walls>>

\* A Retry-After that is neither a number nor a date: the ValueError of reading it leaves
\* send(), at the first try or the last, with nothing recorded and nothing kept.
Unreadable(t, kind) ==
  /\ th[t].pc = "flight"
  /\ lastEnd' = now
  /\ slowUntil' = IF kind = "rate_limited" THEN now + Slowdown ELSE slowUntil
  /\ Return(t, "unread")
  /\ UNCHANGED <<now, notBefore, trouble, sends, asked, walls>>

Retry(t) ==
  /\ th[t].pc = "backoff" /\ now >= th[t].wake
  /\ Becomes(t, "pace", th[t].attempt + 1, PaceUntil, th[t].since, None)
  /\ UNCHANGED <<now, holder, lastEnd, slowUntil, notBefore, trouble, sends, asked, walls>>

Tick ==
  /\ now < MaxTime
  /\ now' = now + 1
  /\ UNCHANGED <<holder, th, lastEnd, slowUntil, notBefore, trouble, sends, asked, walls>>

\* The process restarts; what its gate was asked to wait for is forgotten.
Restart ==
  /\ holder' = None
  /\ th' = [t \in Threads |-> Outside]
  /\ lastEnd' = Never /\ slowUntil' = Never /\ notBefore' = Never /\ trouble' = NoTrouble
  /\ asked' = Never /\ walls' = {}
  /\ UNCHANGED <<now, sends>>

Next ==
  \/ \E t \in Threads :
       \/ Call(t) \/ Enter(t) \/ Depart(t) \/ Answered(t) \/ Blocked(t) \/ Retry(t)
       \/ \E kind \in {"unavailable", "rate_limited"}, after \in Delays \cup {None} :
            Busy(t, kind, after)
       \/ \E kind \in {"unavailable", "rate_limited"} : Unreadable(t, kind)
  \/ Tick
  \/ Restart

Spec == Init /\ [][Next]_vars

-----------------------------------------------------------------------------
(* Properties. *)

Outcomes == {None, "answer", "asked_to_wait", "unread", "firewall", "unavailable", "rate_limited"}

\* Type correctness, and the lock: who is past it holds it.
TypeOK ==
  /\ now \in 0..MaxTime
  /\ holder \in Threads \cup {None}
  /\ \A t \in Threads :
       /\ th[t].pc \in {"idle", "lock", "pace", "flight", "backoff"}
       /\ th[t].attempt \in 0..MaxRetries
       /\ th[t].outcome \in Outcomes
       /\ (holder = t) <=> th[t].pc \in {"pace", "flight", "backoff"}
  /\ trouble.kind \in {None, "firewall", "unavailable", "rate_limited"}

\* What a busy NADA asks for with Retry-After is given to it by every thread,
\* whether the gate waits it out (the others behind its lock) or keeps it for
\* whoever comes next: no request leaves before.
RetryAfterKept ==
  \A t \in Threads : th[t].pc = "flight" => asked <= now

\* A call that met the firewall sends nothing more: a repeated request can make a
\* short block a long one.
FirewallEndsCall ==
  \A t \in walls : th[t].pc \notin {"pace", "flight", "backoff"}

\* Requests keep their distance, from the end of one, whatever thread sent it, to
\* the start of the next: twice the interval for a while after a 429.
KeepsGap ==
  \A t \in Threads : th[t].pc # "flight" /\ th'[t].pc = "flight" => now >= lastEnd + IntervalSeconds

GapKept == [][KeepsGap]_vars

\* Who asks trouble_since for the time before its failed call finds a trouble, however
\* many threads recorded theirs since; but for a call that failed on a Retry-After it could
\* not read, which records none.
FailureIsSeen ==
  \A t \in Threads :
    th[t].outcome \in {"firewall", "unavailable", "rate_limited"} => trouble.at >= th[t].since
=============================================================================
