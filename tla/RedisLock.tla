----------------------------- MODULE RedisLock -----------------------------
(***************************************************************************)
(* core/stores/redis/redislock.go: locks with the same key in redis, each  *)
(* used by one caller at a time.  An operation sends a script and waits;   *)
(* it may give up (a timeout, a lost connection) before the script has     *)
(* run, and the script may then still run later.                           *)
(*                                                                         *)
(* The unit of time is the tolerance of 500 milliseconds.  redis and its   *)
(* clock are external.                                                     *)
(***************************************************************************)
EXTENDS Integers, FiniteSets

CONSTANTS
    Locks,          \* the RedisLock values of one key (their ids differ)
    Seconds,        \* what SetExpire may have stored, 0 at first
    MaxTime,        \* bound on the clock
    MaxAbandoned,   \* bound on the operations that give up
    Nil

RedisLockAssumption == Seconds \subseteq Nat /\ Nil \notin Locks

VARIABLES
    now,
    key, expiry,    \* the key's value in redis, if expiry is in the future
    pc,             \* "idle", or the operation that waits: "lock" or "del"
    px, sent,       \* expiry that the operation asked for, and when it was sent
    answer,         \* "none" until its script has run
    abandoned,      \* the scripts whose callers gave up
    until,          \* the caller may rely on the lock up to then
    failures,       \* how many operations have given up
    late            \* ghost: a script has run after its caller gave up

vars == <<now, key, expiry, pc, px, sent, answer, abandoned, until, failures, late>>

Init ==
    /\ now = 0 /\ key = Nil /\ expiry = 0
    /\ pc = [l \in Locks |-> "idle"]
    /\ px = [l \in Locks |-> 0] /\ sent = [l \in Locks |-> 0]
    /\ answer = [l \in Locks |-> "none"]
    /\ abandoned = {}
    /\ until = [l \in Locks |-> 0]
    /\ failures = 0 /\ late = FALSE

Tick ==
    /\ now < MaxTime
    /\ now' = now + 1
    /\ UNCHANGED <<key, expiry, pc, px, sent, answer, abandoned, until, failures, late>>

Least(a, b) == IF a <= b THEN a ELSE b

\* seconds * millisPerSecond + tolerance.
Expire(n) == 2 * n + 1

\* Acquire loads rl.seconds, which any SetExpire may have stored, and sends lockCommand.
\* A caller that holds the lock, and asks for less, counts on less.
Acquire(l, n) ==
    /\ pc[l] = "idle"
    /\ pc' = [pc EXCEPT ![l] = "lock"]
    /\ px' = [px EXCEPT ![l] = Expire(n)]
    /\ sent' = [sent EXCEPT ![l] = now]
    /\ answer' = [answer EXCEPT ![l] = "none"]
    /\ until' = [until EXCEPT ![l] = Least(@, now + Expire(n))]
    /\ UNCHANGED <<now, key, expiry, abandoned, failures, late>>

\* Release sends delCommand.
Release(l) ==
    /\ pc[l] = "idle"
    /\ pc' = [pc EXCEPT ![l] = "del"]
    /\ answer' = [answer EXCEPT ![l] = "none"]
    /\ until' = [until EXCEPT ![l] = 0]
    /\ UNCHANGED <<now, key, expiry, px, sent, abandoned, failures, late>>

\* What GET returns.
Owner == IF now < expiry THEN key ELSE Nil

\* Mutant of LockCommand: the key expires one unit early.
LockCommandShort(l, p) ==
    IF Owner \in {l, Nil} THEN key' = l /\ expiry' = now + p - 1 ELSE UNCHANGED <<key, expiry>>

\* lockCommand: SET PX if the key is this lock's, SET NX PX if not.
LockCommand(l, p) ==
    IF Owner \in {l, Nil} THEN key' = l /\ expiry' = now + p ELSE UNCHANGED <<key, expiry>>

\* Mutant of DelCommand: DEL whoever owns the key.
DelCommandAlways(l) == key' = Nil /\ expiry' = 0

\* delCommand: DEL if the key is this lock's.
DelCommand(l) ==
    IF Owner = l THEN key' = Nil /\ expiry' = 0 ELSE UNCHANGED <<key, expiry>>

Run(l) ==
    /\ pc[l] # "idle" /\ answer[l] = "none"
    /\ answer' = [answer EXCEPT ![l] =
                    IF Owner = l \/ (pc[l] = "lock" /\ Owner = Nil) THEN "yes" ELSE "no"]
    /\ IF pc[l] = "lock" THEN LockCommand(l, px[l]) ELSE DelCommand(l)
    /\ UNCHANGED <<now, pc, px, sent, abandoned, until, failures, late>>

\* Acquire and Release return the answer,
Return(l) ==
    /\ pc[l] # "idle" /\ answer[l] # "none"
    /\ until' = IF pc[l] = "lock" /\ answer[l] = "yes"
                THEN [until EXCEPT ![l] = sent[l] + px[l]] ELSE until
    /\ pc' = [pc EXCEPT ![l] = "idle"] /\ answer' = [answer EXCEPT ![l] = "none"]
    /\ px' = [px EXCEPT ![l] = 0] /\ sent' = [sent EXCEPT ![l] = 0]
    /\ UNCHANGED <<now, key, expiry, abandoned, failures, late>>

\* or an error, whether the script has run or not.
GiveUp(l) ==
    /\ pc[l] # "idle" /\ failures < MaxAbandoned
    /\ abandoned' = IF answer[l] = "none"
                    THEN abandoned \cup {[id |-> l, op |-> pc[l], px |-> px[l]]} ELSE abandoned
    /\ failures' = failures + 1
    /\ pc' = [pc EXCEPT ![l] = "idle"] /\ answer' = [answer EXCEPT ![l] = "none"]
    /\ px' = [px EXCEPT ![l] = 0] /\ sent' = [sent EXCEPT ![l] = 0]
    /\ UNCHANGED <<now, key, expiry, until, late>>

RunLate(r) ==
    /\ abandoned' = abandoned \ {r}
    /\ IF r.op = "lock" THEN LockCommand(r.id, r.px) ELSE DelCommand(r.id)
    /\ late' = TRUE
    /\ UNCHANGED <<now, pc, px, sent, answer, until, failures>>

Next ==
    \/ Tick
    \/ \E l \in Locks : \/ \E n \in Seconds : Acquire(l, n)
                        \/ Release(l) \/ Run(l) \/ Return(l) \/ GiveUp(l)
    \/ \E r \in abandoned : RunLate(r)

Spec == Init /\ [][Next]_vars

TypeOK ==
    /\ now \in Nat /\ key \in Locks \cup {Nil} /\ expiry \in Nat
    /\ pc \in [Locks -> {"idle", "lock", "del"}]
    /\ px \in [Locks -> Nat] /\ sent \in [Locks -> Nat]
    /\ answer \in [Locks -> {"none", "yes", "no"}]
    /\ abandoned \subseteq [id : Locks, op : {"lock", "del"}, px : Nat]
    /\ until \in [Locks -> Nat] /\ failures \in Nat /\ late \in BOOLEAN
-----------------------------------------------------------------------------
\* Two locks never both have callers who may rely on them (Acquire returned true, Release was not
\* called, the time asked for is not over), unless a script ran after its caller gave up: the id is
\* that of the lock, not of the acquisition, so a late Release ends an acquisition that came after.
OnlyLateScriptBreaksExclusion ==
    late \/ \A l, m \in Locks : now < until[l] /\ now < until[m] => l = m

\* A script of one lock neither releases nor changes a key that another lock owns, not even a
\* script that runs late.
OthersKeyIsSafe ==
    [][\A l \in Locks : Owner = l /\ now' = now =>
          \/ key' = key /\ expiry' = expiry
          \/ pc[l] # "idle" /\ answer[l] = "none" /\ answer'[l] # "none"
          \/ \E r \in abandoned : r.id = l /\ r \notin abandoned']_vars
=============================================================================
