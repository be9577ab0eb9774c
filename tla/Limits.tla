------------------------------- MODULE Limits -------------------------------
(***************************************************************************)
(* core/limit/tokenlimit.go: a token bucket kept by a script in redis; an  *)
(* in-process limiter takes over when redis does not answer, until a       *)
(* monitor goroutine can ping it again.  Below it, periodlimit.go: a       *)
(* counter in redis that expires at the end of a period; with Align,       *)
(* periods end at the multiples of their length.                           *)
(***************************************************************************)
EXTENDS Integers, FiniteSets

CONSTANTS
    Callers,
    Rate, Burst,
    MaxTime, MaxCalls,
    MaxFailures,        \* bound on how often redis goes down
    Period, Quota,
    PeriodTime, MaxTakes

TokenLimitAssumption == Rate \in Nat \ {0} /\ Burst \in Nat
PeriodLimitAssumption == Period \in Nat \ {0} /\ Quota \in Nat \ {0}

VARIABLES
    alive,      \* redisAlive
    started,    \* monitorStarted
    monitor,    \* the goroutine of waitForRedis: "none", "ping" or "exit"
    pc,         \* of the callers
    rd,         \* the clock, redis and ghosts
    pl          \* all of PeriodLimit

tkVars == <<alive, started, monitor, pc, rd>>

\* tokens is -1 when the keys are not there; at is the time that a caller passes to AllowN;
\* allowed, first, latest and back are ghosts: the tokens given out, the time the first script ran
\* with, the latest time that a script ran with or redis dropped the keys, and whether a script
\* ran with an earlier time than that.
Init ==
    /\ alive = 1 /\ started = FALSE /\ monitor = "none"
    /\ pc = [c \in Callers |-> "idle"]
    /\ rd = [now |-> 1, up |-> TRUE, failures |-> 0, tokens |-> -1, ts |-> 0, expire |-> 0,
             at |-> [c \in Callers |-> 0], allowed |-> 0, latest |-> 0, first |-> 0, back |-> FALSE,
             calls |-> 0]

Least(i, j) == IF i < j THEN i ELSE j
Most(i, j)  == IF i < j THEN j ELSE i

\* Time passes; redis drops the keys when their time is over.
Tick ==
    /\ rd.now < MaxTime
    /\ IF rd.tokens # -1 /\ rd.expire <= rd.now + 1
       THEN rd' = [rd EXCEPT !.now = @ + 1, !.tokens = -1, !.ts = 0, !.latest = rd.now + 1]
       ELSE rd' = [rd EXCEPT !.now = @ + 1]
    /\ UNCHANGED <<alive, started, monitor, pc>>

Toggle ==
    /\ rd.up => rd.failures < MaxFailures
    /\ rd' = [rd EXCEPT !.up = ~@, !.failures = IF rd.up THEN @ + 1 ELSE @]
    /\ UNCHANGED <<alive, started, monitor, pc>>

\* AllowN(time.Now(), 1), and the load of redisAlive: the in-process limiter answers at once.
AllowN(c) ==
    /\ pc[c] = "idle" /\ rd.calls < MaxCalls
    /\ rd' = [rd EXCEPT !.at[c] = rd.now, !.calls = @ + 1]
    /\ pc' = [pc EXCEPT ![c] = IF alive = 0 THEN "idle" ELSE "eval"]
    /\ UNCHANGED <<alive, started, monitor>>

\* ttl of the script.
Ttl == (2 * Burst) \div Rate

\* Mutant of Filled: the bucket may run over.
FilledOver(now) ==
    (IF rd.tokens = -1 THEN Burst ELSE rd.tokens) + Most(0, now - rd.ts) * Rate

Filled(now) ==
    Least(Burst, (IF rd.tokens = -1 THEN Burst ELSE rd.tokens) + Most(0, now - rd.ts) * Rate)

\* The script; SETEX refuses a time to live of zero, and the call fails.
Eval(c) ==
    /\ pc[c] = "eval" /\ rd.up /\ Ttl > 0
    /\ LET now   == rd.at[c]
           given == IF Filled(now) >= 1 THEN 1 ELSE 0
       IN  rd' = [rd EXCEPT !.tokens = Filled(now) - given, !.ts = now, !.expire = rd.now + Ttl,
                            !.allowed = @ + given, !.latest = Most(@, now),
                            !.first = IF @ = 0 THEN now ELSE @,
                            !.back = @ \/ now < rd.latest]
    /\ pc' = [pc EXCEPT ![c] = "idle"]
    /\ UNCHANGED <<alive, started, monitor>>

EvalFails(c) ==
    /\ pc[c] = "eval" /\ (~rd.up \/ Ttl = 0)
    /\ pc' = [pc EXCEPT ![c] = "monitor"]
    /\ UNCHANGED <<alive, started, monitor, rd>>

\* startMonitor under rescueLock, and the in-process limiter.
StartMonitor(c) ==
    /\ pc[c] = "monitor"
    /\ pc' = [pc EXCEPT ![c] = "idle"]
    /\ IF started THEN UNCHANGED <<alive, started, monitor>>
       ELSE alive' = 0 /\ started' = TRUE /\ monitor' = "ping"
    /\ UNCHANGED rd

\* Mutant of Ping: redisAlive is not set again.
PingSilently ==
    /\ monitor = "ping" /\ rd.up
    /\ monitor' = "exit"
    /\ UNCHANGED <<alive, started, pc, rd>>

\* waitForRedis: a ping that works,
Ping ==
    /\ monitor = "ping" /\ rd.up
    /\ alive' = 1 /\ monitor' = "exit"
    /\ UNCHANGED <<started, pc, rd>>

\* and the deferred function.
MonitorExits ==
    /\ monitor = "exit"
    /\ started' = FALSE /\ monitor' = "none"
    /\ UNCHANGED <<alive, pc, rd>>

Next ==
    \/ Tick \/ Toggle \/ Ping \/ MonitorExits
    \/ \E c \in Callers : AllowN(c) \/ Eval(c) \/ EvalFails(c) \/ StartMonitor(c)

Spec == Init /\ [][Next]_tkVars

\* The monitor goes on; redis comes back.
FairSpec ==
    Spec /\ WF_tkVars(Ping \/ MonitorExits) /\ WF_tkVars(~rd.up /\ Toggle)

TypeOK ==
    /\ alive \in {0, 1} /\ started \in BOOLEAN /\ monitor \in {"none", "ping", "exit"}
    /\ pc \in [Callers -> {"idle", "eval", "monitor"}]
-----------------------------------------------------------------------------
\* While redisAlive is 0 a monitor is there that will set it again: no interleaving of
\* startMonitor with the end of waitForRedis leaves the limiter on its in-process rescue.
RescueIsMonitored ==
    /\ alive = 0 => monitor = "ping"
    /\ started <=> monitor # "none"

\* Redis gives out no more than the burst and the tokens of the time that has passed, unless
\* a caller ran its script with an earlier time than that of a script, or of the end of the keys,
\* before it: the timestamp goes back, and the same seconds fill the bucket again.
OnlyBackwardClockOverissues ==
    ~rd.back => rd.allowed <= Burst + Rate * (rd.now - rd.first)

\* While redis answers, it decides: a burst that fills in half a second or more never sends
\* the limiter to its rescue.  (A smaller one does so at every call: its ttl is 0.)
HealthyRedisDecides == rd.failures = 0 /\ 2 * Burst >= Rate => alive = 1 /\ monitor = "none"

\* The limiter returns to redis.
ReturnsToRedis == alive = 0 ~> alive = 1
-----------------------------------------------------------------------------
\* PeriodLimit.  count is 0 when the key is not there; granted is a ghost: the permits of each aligned
\* period, hits how often the key's quota was hit since it was made, late that a script ran
\* in a later period than the one its expiry was computed for.
PeriodInit ==
    pl = [align |-> FALSE, new |-> TRUE, now |-> 0, count |-> 0, expire |-> 0, takes |-> 0,
          pc |-> [c \in Callers |-> "idle"], window |-> [c \in Callers |-> 0],
          at |-> [c \in Callers |-> 0], permits |-> 0, hits |-> 0, granted |-> 0, late |-> FALSE]

NewPeriodLimit(align) ==
    /\ pl.new
    /\ pl' = [pl EXCEPT !.new = FALSE, !.align = align]

\* Time passes, and the key expires.
PeriodTick ==
    /\ ~pl.new /\ pl.now < PeriodTime
    /\ LET over == pl.count > 0 /\ pl.expire <= pl.now + 1 IN
       pl' = [pl EXCEPT !.now = @ + 1, !.count = IF over THEN 0 ELSE @,
                        !.permits = IF over THEN 0 ELSE @, !.hits = IF over THEN 0 ELSE @,
                        !.granted = IF (pl.now + 1) % Period = 0 THEN 0 ELSE @,
                        !.late = @ /\ ~((pl.now + 1) % Period = 0 /\ over)]

\* calcExpireSeconds.
Take(c) ==
    /\ ~pl.new /\ pl.pc[c] = "idle" /\ pl.takes < MaxTakes
    /\ pl' = [pl EXCEPT !.pc[c] = "eval", !.takes = @ + 1, !.at[c] = pl.now,
                        !.window[c] = IF pl.align THEN Period - (pl.now % Period) ELSE Period]

\* The script: INCRBY, expire for the first, and the answer.
PeriodEval(c) ==
    /\ pl.pc[c] = "eval"
    /\ LET current == pl.count + 1 IN
       pl' = [pl EXCEPT !.pc[c] = "idle", !.count = current,
                        !.expire = IF current = 1 THEN pl.now + pl.window[c] ELSE @,
                        !.permits = IF current <= Quota THEN @ + 1 ELSE @,
                        !.granted = IF current <= Quota THEN @ + 1 ELSE @,
                        !.hits = IF current = Quota THEN @ + 1 ELSE @,
                        !.late = @ \/ (current = 1 /\ pl.at[c] # pl.now)]

\* The call fails: Unknown and the error.
PeriodEvalFails(c) ==
    /\ pl.pc[c] = "eval"
    /\ pl' = [pl EXCEPT !.pc[c] = "idle"]

PeriodNext ==
    \/ PeriodTick \/ \E align \in BOOLEAN : NewPeriodLimit(align)
    \/ \E c \in Callers : Take(c) \/ PeriodEval(c) \/ PeriodEvalFails(c)

PeriodSpec == PeriodInit /\ [][PeriodNext]_pl

PeriodTypeOK == pl.permits <= pl.count /\ (pl.count > 0 => pl.expire > pl.now)
-----------------------------------------------------------------------------
\* While a key lives, no more than Quota requests are permitted, and one of them, the last, is
\* told that it hit the quota.
QuotaPerKey == pl.permits <= Quota /\ pl.hits = IF pl.count >= Quota THEN 1 ELSE 0

\* With Align, an aligned period sees no more than Quota permits, unless the script that made
\* the key ran later than its expiry was computed: the key then ends early or late.
OnlyLateScriptExceedsPeriod == pl.align /\ pl.granted > Quota => pl.late
=============================================================================
