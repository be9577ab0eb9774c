---------------------------- MODULE GoogleBreaker ----------------------------
(***************************************************************************)
(* core/breaker: googleBreaker admits a request or drops it, by chance,    *)
(* from the results in its rolling window; loggedThrottle keeps the        *)
(* reasons of failures (errorWindow) and reports them when a request is    *)
(* dropped.  A success is 1 and a failure 0 in the window.                 *)
(***************************************************************************)
EXTENDS Windows, Integers, FiniteSets

CONSTANTS
    Callers,            \* model values
    Buckets,            \* buckets of the window, 40 in the code
    Protection,         \* protection, 5 in the code
    NumHistoryReasons,  \* numHistoryReasons, 5 in the code
    MaxTime, MaxRequests

VARIABLE gb

\* how is the way a caller uses the breaker: doReq, or allow and then a promise; marks counts,
\* for each caller, the results its last request has put into the window.  The ghosts: a request was
\* dropped, and how many have panicked.
Init ==
    gb = [now |-> 0, win |-> NewWindow(Buckets, 1, 0), requests |-> 0,
          pc |-> [c \in Callers |-> "idle"], how |-> [c \in Callers |-> "Do"],
          marks |-> [c \in Callers |-> 0], result |-> [c \in Callers |-> "none"],
          reasons |-> <<>>, dropped |-> FALSE, panics |-> 0]

Tick ==
    /\ gb.now < MaxTime
    /\ gb' = [gb EXCEPT !.now = @ + 1]

History == Reduce(gb.win, gb.now, FALSE)
Accepts == Len(SelectSeq(History, LAMBDA r : r = 1))
Total   == Len(History)

\* accept: dropRatio is positive, with k = 3/2.
MayDrop == 2 * (Total - Protection) - 3 * Accepts > 0

Starts(c, how) ==
    /\ gb.pc[c] = "idle" /\ gb.requests < MaxRequests
    /\ gb' = [gb EXCEPT !.requests = @ + 1, !.pc[c] = "accept", !.how[c] = how, !.marks[c] = 0,
                        !.result[c] = "none"]

\* accept drops the request: it returns the error, or what the fallback returns.
Drop(c) ==
    /\ gb.pc[c] = "accept" /\ MayDrop
    /\ gb' = [gb EXCEPT !.pc[c] = "idle", !.result[c] = "ErrServiceUnavailable", !.dropped = TRUE]

\* accept admits it: the ratio is not positive, or chance says so (it is below 1).
Admit(c) ==
    /\ gb.pc[c] = "accept"
    /\ gb' = [gb EXCEPT !.pc[c] = "run"]

\* Mutant of Reasoned: one reason more than there is room for.
ReasonedMore(s) ==
    LET t == Append(s, "reason")
    IN  IF Len(t) > NumHistoryReasons + 1 THEN Tail(t) ELSE t

\* add of errorWindow: the last NumHistoryReasons reasons.
Reasoned(s) ==
    LET t == Append(s, "reason")
    IN  IF Len(t) > NumHistoryReasons THEN Tail(t) ELSE t

\* markSuccess or markFailure, with the clock read twice.
Marked(v) == Add(gb.win, gb.now, gb.now, v)

\* req returns, and acceptable says what it was; or the caller keeps its promise.
Succeed(c) ==
    /\ gb.pc[c] = "run"
    /\ gb' = [gb EXCEPT !.pc[c] = "idle", !.win = Marked(1), !.marks[c] = @ + 1,
                        !.result[c] = "ok"]

\* req returns an error that is not acceptable: the reason is kept, then the failure.
Fail(c) ==
    /\ gb.pc[c] = "run"
    /\ gb' = [gb EXCEPT !.pc[c] = "reasoned", !.reasons = Reasoned(@)]

MarkFailure(c) ==
    /\ gb.pc[c] = "reasoned"
    /\ gb' = [gb EXCEPT !.pc[c] = "idle", !.win = Marked(0), !.marks[c] = @ + 1,
                        !.result[c] = "error"]

\* Mutant of Panic: the deferred function does not mark the failure.
PanicUnmarked(c) ==
    /\ gb.pc[c] = "run" /\ gb.how[c] = "Do"
    /\ gb' = [gb EXCEPT !.pc[c] = "idle", !.result[c] = "panic"]

\* req panics in doReq: the deferred function marks a failure and panics on.  A promise of
\* allow is left to the caller.
Panic(c) ==
    /\ gb.pc[c] = "run" /\ gb.how[c] = "Do"
    /\ gb' = [gb EXCEPT !.pc[c] = "idle", !.win = Marked(0), !.marks[c] = @ + 1,
                        !.result[c] = "panic", !.panics = @ + 1]

Next ==
    \/ Tick
    \/ \E c \in Callers :
        \/ \E how \in {"Do", "Allow"} : Starts(c, how)
        \/ Drop(c) \/ Admit(c) \/ Succeed(c) \/ Fail(c) \/ MarkFailure(c) \/ Panic(c)

Spec == Init /\ [][Next]_gb

TypeOK ==
    /\ Total <= MaxRequests /\ Len(gb.reasons) <= NumHistoryReasons
    /\ gb.pc \in [Callers -> {"idle", "accept", "run", "reasoned"}]
-----------------------------------------------------------------------------
\* Every admitted request that ended counts once, a dropped one not at all, whichever way it
\* ended: the ratio of the breaker is over the requests it let through.
MarkedOnce ==
    \A c \in Callers :
        gb.pc[c] = "idle" /\ gb.result[c] # "none"
            => gb.marks[c] = IF gb.result[c] = "ErrServiceUnavailable" THEN 0 ELSE 1

\* A request is only dropped after more than Protection failures: a service that works is not
\* cut off, whatever the number of requests.
DropsOnlyAfterFailures ==
    [][\A c \in Callers :
         gb'.result[c] = "ErrServiceUnavailable" /\ gb.result[c] = "none"
            => Cardinality({i \in DOMAIN History : History[i] = 0}) > Protection]_gb

\* Once a window has passed without results, every request is admitted.
IdleBreakerForgets ==
    gb.now >= gb.win.lastTime + Buckets => ~MayDrop

\* "if circuit open, not possible to have empty error window": a report of an open circuit has a
\* reason to show, unless panics alone have opened it, more of them than Protection.
OnlyPanicsOpenSilently ==
    gb.dropped /\ gb.reasons = <<>> => gb.panics > Protection

\* Results decide: each request counts once, only failures of the window open the circuit, and an
\* open one has a reason to report, but for panics.
ResultsDecide ==
    /\ [](MarkedOnce /\ IdleBreakerForgets /\ OnlyPanicsOpenSilently)
    /\ DropsOnlyAfterFailures
=============================================================================
