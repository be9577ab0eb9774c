---------------------------- MODULE LimitsProofs ----------------------------
(***************************************************************************)
(* What a service gives its requests, permits and time, and what guards    *)
(* the calls it makes, and proofs about it for every value of the          *)
(* constants: the limiters of Limits, whose module is extended,            *)
(* TimeoutHandler and Guarded.                                             *)
(***************************************************************************)
EXTENDS Limits, Sequences, TLAPS

CONSTANTS
    MaxWrites, Codes,                   \* of TimeoutHandler
    Protection, MaxMarks, MaxOutages    \* of Guarded

VARIABLES to, gd
-----------------------------------------------------------------------------
\* The token limiter of core/limit/tokenlimit.go, for any rate, any burst and any number of callers:
\* it is never left on its rescue without a monitor, and redis gives out no more tokens than it should.

\* What the fields of rd are.
Rds == [now : Nat \ {0}, up : BOOLEAN, failures : Nat, tokens : Nat \cup {-1}, ts : Nat,
        expire : Nat, at : [Callers -> Nat], allowed : Nat, latest : Nat, first : Nat,
        back : BOOLEAN, calls : Nat]

RdOK ==
    /\ rd \in Rds
    /\ \A c \in Callers : rd.at[c] <= rd.now /\ (pc[c] = "eval" => rd.at[c] > 0)

\* While the keys are there, what was given out and what is left fit in the burst and the tokens
\* of the time up to the timestamp.  Once they are gone a whole burst more must fit in the time
\* that had passed: the time to live is long enough to fill the bucket.
Budget ==
    /\ rd.first <= rd.latest /\ rd.latest <= rd.now
    /\ rd.first = 0 => rd.allowed = 0 /\ rd.tokens = -1
    /\ rd.tokens # -1 => /\ rd.ts = rd.latest
                         /\ rd.ts + Ttl <= rd.expire
                         /\ rd.allowed + rd.tokens <= Burst + Rate * (rd.ts - rd.first)
                         /\ Ttl > 0
    /\ rd.tokens = -1 => rd.ts = 0 /\ rd.allowed <= Rate * (rd.latest - rd.first)

\* While redis has never been down, and takes the time to live, no script fails.
Healthy ==
    rd.failures = 0 /\ 2 * Burst >= Rate =>
        rd.up /\ alive = 1 /\ monitor = "none" /\ \A c \in Callers : pc[c] # "monitor"

IInv == TypeOK /\ RdOK /\ (~rd.back => Budget)

\* Rate times a sum, and times something larger.
LEMMA RateTimes ==
    ASSUME TokenLimitAssumption, NEW i \in Int, NEW j \in Int
    PROVE  /\ Rate * i \in Int
           /\ Rate * (i + j) = Rate * i + Rate * j
           /\ i <= j => Rate * i <= Rate * j
<1>1. Rate \in Nat
  BY Zenon DEF TokenLimitAssumption
<1>2. Rate * i \in Int /\ Rate * (i + j) = Rate * i + Rate * j
  BY <1>1
<1>3. ASSUME i <= j PROVE Rate * i <= Rate * j
  <2>1. PICK d \in Nat : j = i + d
    BY <1>3
  <2>2. Rate * j = Rate * i + Rate * d /\ Rate * d >= 0
    BY <1>1, <2>1
  <2> QED
    BY <1>1, <2>2
<1> QED
  BY Zenon, <1>2, <1>3

\* The time to live of the keys is zero or fills the bucket; it is not zero for a burst that
\* fills in half a second or more.
LEMMA TtlFills ==
    ASSUME TokenLimitAssumption
    PROVE  /\ Ttl \in Nat
           /\ Ttl > 0 => Burst <= Rate * Ttl
           /\ 2 * Burst >= Rate => Ttl > 0
<1>1. PICK r \in 0 .. Rate - 1 : Ttl \in Nat /\ 2 * Burst = Rate * Ttl + r
  BY DEF Ttl, TokenLimitAssumption
<1>2. Ttl > 0 => Rate <= Rate * Ttl
  BY <1>1, RateTimes DEF TokenLimitAssumption
<1>3. Ttl = 0 => Rate * Ttl = 0
  BY DEF TokenLimitAssumption
<1> QED
  BY <1>1, <1>2, <1>3 DEF TokenLimitAssumption

\* What Filled returns while redis runs the scripts in the order of their times.
LEMMA FilledFits ==
    ASSUME TokenLimitAssumption, RdOK, Budget, NEW now \in Nat, now >= rd.latest, now > 0
    PROVE  /\ Filled(now) \in Nat /\ Filled(now) <= Burst
           /\ rd.first # 0 =>
                rd.allowed + Filled(now) <= Burst + Rate * (now - rd.first)
<1> USE DEF TokenLimitAssumption
<1>1. /\ rd.tokens \in Nat \cup {-1} /\ rd.ts \in Nat /\ rd.allowed \in Nat
      /\ rd.latest \in Nat /\ rd.first \in Nat
  BY Zenon DEF RdOK, Rds
<1> DEFINE gain == Most(0, now - rd.ts) * Rate
<1>2. CASE rd.tokens = -1
  <2>1. gain \in Nat
    BY <1>1 DEF Most
  <2>2. Filled(now) = Burst
    BY <1>2, <2>1 DEF Filled, Least
  <2>3. rd.allowed <= Rate * (rd.latest - rd.first)
    BY Zenon, <1>2 DEF Budget
  <2>4. Rate * (rd.latest - rd.first) <= Rate * (now - rd.first)
    BY <1>1, RateTimes
  <2>5. Rate * (rd.latest - rd.first) \in Int /\ Rate * (now - rd.first) \in Int
    BY <1>1
  <2> QED
    BY <1>1, <2>2, <2>3, <2>4, <2>5
<1>3. CASE rd.tokens # -1
  <2>1. rd.ts = rd.latest /\ rd.allowed + rd.tokens <= Burst + Rate * (rd.ts - rd.first)
    BY Zenon, <1>3 DEF Budget
  <2>2. gain = Rate * (now - rd.ts) /\ gain \in Nat
    BY <1>1, <2>1 DEF Most
  <2>3. Filled(now) \in Nat /\ Filled(now) <= Burst /\ Filled(now) <= rd.tokens + gain
    BY <1>1, <1>3, <2>2 DEF Filled, Least
  <2>4. Rate * (now - rd.first) = Rate * (rd.ts - rd.first) + gain
    <3>1. now - rd.first = (rd.ts - rd.first) + (now - rd.ts)
      BY <1>1
    <3> QED
      BY <1>1, <2>2, <3>1, RateTimes
  <2>5. Rate * (rd.ts - rd.first) \in Int /\ Rate * (now - rd.first) \in Int
    BY <1>1
  <2> HIDE DEF gain
  <2> QED
    BY <1>1, <1>3, <2>1, <2>2, <2>3, <2>4, <2>5
<1> QED
  BY Zenon, <1>2, <1>3

\* Time passes, and the keys may end: the bucket would have been full by then.
LEMMA TickKeeps ==
    ASSUME TokenLimitAssumption, IInv, Tick
    PROVE  IInv'
<1> USE DEF IInv, Tick
<1>1. TypeOK'
  BY Zenon DEF TypeOK
<1>2. CASE rd.tokens # -1 /\ rd.expire <= rd.now + 1
  <2>1. rd' = [rd EXCEPT !.now = @ + 1, !.tokens = -1, !.ts = 0, !.latest = rd.now + 1]
    BY Zenon, <1>2
  <2>2. RdOK'
    <3>0. -1 \in Nat \cup {-1} /\ 0 \in Nat /\ rd.now + 1 \in Nat \ {0} /\ rd \in Rds
      BY DEF RdOK, Rds
    <3>1. rd' \in Rds
      BY Zenon, <2>1, <3>0 DEF Rds
    <3>2. rd'.now = rd.now + 1 /\ rd'.at = rd.at /\ rd.now \in Nat /\ rd.at \in [Callers -> Nat]
      BY Zenon, <2>1 DEF RdOK, Rds
    <3> QED
      BY <3>1, <3>2 DEF RdOK
  <2>3. ASSUME ~rd.back, Budget PROVE Budget'
    <3>1. /\ rd'.now = rd.now + 1 /\ rd'.tokens = -1 /\ rd'.ts = 0 /\ rd'.latest = rd.now + 1
          /\ rd'.allowed = rd.allowed /\ rd'.first = rd.first
      BY Zenon, <2>1 DEF RdOK, Rds
    <3>2. /\ rd.now \in Nat /\ rd.allowed \in Nat /\ rd.first \in Nat /\ rd.latest \in Nat
          /\ rd.ts \in Nat /\ rd.expire \in Nat /\ rd.tokens \in Nat /\ Ttl \in Nat
          /\ Burst \in Nat
      BY Zenon, <1>2, TtlFills DEF RdOK, Rds, TokenLimitAssumption
    <3>3. /\ rd.first <= rd.latest /\ rd.latest <= rd.now /\ rd.ts = rd.latest
          /\ rd.ts + Ttl <= rd.now + 1 /\ rd.first # 0
          /\ rd.allowed <= Burst + Rate * (rd.ts - rd.first) /\ Burst <= Rate * Ttl
      <4>1. Rate * (rd.ts - rd.first) \in Int
        BY <3>2, RateTimes
      <4> QED
        BY <1>2, <2>3, <3>2, <4>1, TtlFills DEF Budget
    <3>4. Rate * Ttl + Rate * (rd.ts - rd.first) = Rate * (Ttl + (rd.ts - rd.first))
      BY <3>2, RateTimes
    <3>5. Rate * (Ttl + (rd.ts - rd.first)) <= Rate * (rd.now + 1 - rd.first)
      <4>1. /\ Ttl + (rd.ts - rd.first) \in Int /\ rd.now + 1 - rd.first \in Int
            /\ Ttl + (rd.ts - rd.first) <= rd.now + 1 - rd.first
        BY <3>2, <3>3
      <4> QED
        BY Zenon, <4>1, RateTimes
    <3>6. /\ Rate * (rd.ts - rd.first) \in Int /\ Rate * (rd.now + 1 - rd.first) \in Int
          /\ Rate * Ttl \in Int /\ Rate * (Ttl + (rd.ts - rd.first)) \in Int
      BY <3>2, RateTimes
    <3>7. rd.allowed <= Rate * (rd.now + 1 - rd.first)
      BY <3>2, <3>3, <3>4, <3>5, <3>6
    <3> QED
      BY <3>1, <3>2, <3>3, <3>7 DEF Budget
  <2>4. rd'.back = rd.back
    BY Zenon, <2>1 DEF RdOK, Rds
  <2> QED
    BY Zenon, <1>1, <2>2, <2>3, <2>4
<1>3. CASE ~(rd.tokens # -1 /\ rd.expire <= rd.now + 1)
  <2>1. rd' = [rd EXCEPT !.now = @ + 1]
    BY Zenon, <1>3
  <2>2. RdOK'
    BY <2>1 DEF RdOK, Rds
  <2>3. /\ rd'.now = rd.now + 1 /\ rd'.tokens = rd.tokens /\ rd'.ts = rd.ts
        /\ rd'.latest = rd.latest /\ rd'.allowed = rd.allowed /\ rd'.first = rd.first
        /\ rd'.expire = rd.expire /\ rd'.back = rd.back /\ rd.now \in Nat /\ rd.latest \in Nat
    BY Zenon, <2>1 DEF RdOK, Rds
  <2>4. Budget => Budget'
    BY <2>3 DEF Budget, Ttl
  <2> QED
    BY Zenon, <1>1, <2>2, <2>3, <2>4
<1> QED
  BY Zenon, <1>2, <1>3

\* The script: it gives out a token that Filled counts.
LEMMA EvalKeeps ==
    ASSUME TokenLimitAssumption, IInv, NEW c \in Callers, Eval(c)
    PROVE  IInv'
<1> DEFINE now == rd.at[c]
           f == Filled(now)
           g == IF f >= 1 THEN 1 ELSE 0
<1>1. /\ rd' = [rd EXCEPT !.tokens = f - g, !.ts = now, !.expire = rd.now + Ttl,
                          !.allowed = @ + g, !.latest = Most(@, now),
                          !.first = IF @ = 0 THEN now ELSE @,
                          !.back = @ \/ now < rd.latest]
      /\ pc' = [pc EXCEPT ![c] = "idle"] /\ UNCHANGED <<alive, started, monitor>>
      /\ pc[c] = "eval" /\ Ttl > 0
  BY Zenon DEF Eval
<1>2. TypeOK'
  BY Zenon, <1>1 DEF IInv, TypeOK
<1>3. now \in Nat /\ now > 0 /\ now <= rd.now /\ Ttl \in Nat
  BY Zenon, <1>1, TtlFills DEF IInv, RdOK, Rds
<1>4. f \in Nat
  BY <1>3 DEF IInv, RdOK, Rds, Filled, Least, Most, TokenLimitAssumption
<1>5. g \in {0, 1} /\ f - g \in Nat
  BY <1>4
<1> HIDE DEF now, f, g
<1>6. /\ rd'.tokens = f - g /\ rd'.ts = now /\ rd'.expire = rd.now + Ttl
      /\ rd'.allowed = rd.allowed + g /\ rd'.latest = Most(rd.latest, now)
      /\ rd'.first = (IF rd.first = 0 THEN now ELSE rd.first) /\ rd'.now = rd.now
      /\ rd'.back = (rd.back \/ now < rd.latest)
  BY Zenon, <1>1 DEF IInv, RdOK, Rds
<1>7. RdOK'
  <2>1. (rd.back \/ now < rd.latest) \in BOOLEAN
    OBVIOUS
  <2>2. /\ (IF rd.first = 0 THEN now ELSE rd.first) \in Nat /\ Most(rd.latest, now) \in Nat
        /\ rd.now + Ttl \in Nat /\ rd.allowed + g \in Nat
    BY <1>3, <1>5 DEF IInv, RdOK, Rds, Most
  <2>3. rd' \in Rds
    BY ZenonT(40), <1>1, <1>3, <1>5, <2>1, <2>2 DEF IInv, RdOK, Rds
  <2>4. rd'.at = rd.at
    BY Zenon, <1>1 DEF IInv, RdOK, Rds
  <2> QED
    BY Zenon, <1>1, <1>6, <2>3, <2>4 DEF IInv, RdOK, TypeOK
<1>8. ASSUME ~rd'.back PROVE Budget'
  <2>0. ~rd.back /\ ~(now < rd.latest)
    BY Zenon, <1>6, <1>8
  <2>1. Budget /\ now >= rd.latest /\ rd.latest \in Nat
    BY <1>3, <2>0 DEF IInv, RdOK, Rds
  <2>2. /\ f <= Burst
        /\ rd.first # 0 => rd.allowed + f <= Burst + Rate * (now - rd.first)
    BY Zenon, <1>3, <2>1, FilledFits DEF IInv, f
  <2>3. rd'.latest = now
    BY <1>3, <1>6, <2>1 DEF Most
  <2>4. rd.now \in Nat /\ rd.first \in Nat /\ rd.allowed \in Nat /\ Burst \in Nat
    BY Zenon DEF IInv, RdOK, Rds, TokenLimitAssumption
  <2>5. CASE rd.first = 0
    <3>1. rd'.first = now /\ rd.allowed = 0 /\ Rate * (now - now) = 0
      BY <1>3, <1>6, <2>1, <2>5 DEF Budget, TokenLimitAssumption
    <3> QED
      BY <1>1, <1>3, <1>4, <1>5, <1>6, <2>2, <2>3, <2>4, <3>1 DEF Budget, Ttl
  <2>6. CASE rd.first # 0
    <3>1. rd'.first = rd.first /\ rd.first <= now
      BY <1>3, <1>6, <2>1, <2>4, <2>6 DEF Budget
    <3>2. Rate * (now - rd.first) \in Int
      <4>1. now - rd.first \in Int
        BY <1>3, <2>4
      <4> QED
        BY Zenon, <4>1, RateTimes
    <3> QED
      BY <1>1, <1>3, <1>4, <1>5, <1>6, <2>2, <2>3, <2>4, <2>6, <3>1, <3>2 DEF Budget, Ttl
  <2> QED
    BY Zenon, <2>5, <2>6
<1> QED
  BY Zenon, <1>2, <1>7, <1>8 DEF IInv

\* The other actions leave the keys alone.
LEMMA OthersKeep ==
    ASSUME TokenLimitAssumption, IInv,
           \/ Toggle \/ Ping \/ MonitorExits
           \/ \E c \in Callers : AllowN(c) \/ EvalFails(c) \/ StartMonitor(c)
    PROVE  IInv'
<1>1. CASE Toggle
  <2>0. /\ rd \in Rds /\ (~rd.up) \in BOOLEAN
        /\ (IF rd.up THEN rd.failures + 1 ELSE rd.failures) \in Nat
    BY DEF IInv, RdOK, Rds
  <2>1. rd' \in Rds /\ rd'.at = rd.at /\ rd'.now = rd.now /\ rd'.back = rd.back
    BY Zenon, <1>1, <2>0 DEF Toggle, Rds
  <2>2. /\ rd'.tokens = rd.tokens /\ rd'.ts = rd.ts /\ rd'.latest = rd.latest
        /\ rd'.allowed = rd.allowed /\ rd'.first = rd.first /\ rd'.expire = rd.expire
    BY Zenon, <1>1 DEF Toggle, IInv, RdOK, Rds
  <2>3. Budget => Budget'
    BY Zenon, <2>1, <2>2 DEF Budget, Ttl
  <2>4. TypeOK' /\ RdOK'
    BY Zenon, <1>1, <2>1 DEF Toggle, IInv, TypeOK, RdOK
  <2> QED
    BY Zenon, <2>1, <2>3, <2>4 DEF IInv
<1>2. CASE \E c \in Callers : AllowN(c)
  <2>1. PICK c \in Callers : AllowN(c)
    BY Zenon, <1>2
  <2>0. rd \in Rds /\ [rd.at EXCEPT ![c] = rd.now] \in [Callers -> Nat] /\ rd.calls + 1 \in Nat
    BY DEF IInv, RdOK, Rds
  <2>2. rd' \in Rds /\ rd'.at = [rd.at EXCEPT ![c] = rd.now] /\ rd'.now = rd.now
    BY Zenon, <2>0, <2>1 DEF AllowN, Rds
  <2>3. /\ rd'.tokens = rd.tokens /\ rd'.ts = rd.ts /\ rd'.latest = rd.latest
        /\ rd'.allowed = rd.allowed /\ rd'.first = rd.first /\ rd'.expire = rd.expire
        /\ rd'.back = rd.back
    BY Zenon, <2>1 DEF AllowN, IInv, RdOK, Rds
  <2>4. Budget => Budget'
    BY Zenon, <2>2, <2>3 DEF Budget, Ttl
  <2>5. rd.now \in Nat \ {0} /\ rd.at \in [Callers -> Nat]
    BY Zenon DEF IInv, RdOK, Rds
  <2>6. TypeOK'
    BY Zenon, <2>1 DEF AllowN, IInv, TypeOK
  <2>7. RdOK'
    <3>1. ASSUME NEW d \in Callers
          PROVE  rd'.at[d] <= rd'.now /\ (pc'[d] = "eval" => rd'.at[d] > 0)
      <4>1. CASE d = c
        BY <2>2, <2>5, <4>1
      <4>2. CASE d # c
        <5>1. pc'[d] = pc[d] /\ rd'.at[d] = rd.at[d]
          BY Zenon, <2>1, <2>2, <2>5, <4>2 DEF AllowN, IInv, TypeOK
        <5> QED
          BY Zenon, <2>2, <5>1 DEF IInv, RdOK
      <4> QED
        BY Zenon, <4>1, <4>2
    <3> QED
      BY Zenon, <2>2, <3>1 DEF RdOK
  <2> QED
    BY Zenon, <2>3, <2>4, <2>6, <2>7 DEF IInv
<1>3. CASE Ping \/ MonitorExits \/ \E c \in Callers : EvalFails(c) \/ StartMonitor(c)
  <2>1. rd' = rd /\ \A c \in Callers : pc'[c] = "eval" => pc[c] = "eval"
    BY Zenon, <1>3 DEF Ping, MonitorExits, EvalFails, StartMonitor, IInv, TypeOK
  <2>2. TypeOK'
    BY Zenon, <1>3 DEF Ping, MonitorExits, EvalFails, StartMonitor, IInv, TypeOK
  <2> QED
    BY Zenon, <2>1, <2>2 DEF IInv, RdOK, Budget, Ttl
<1> QED
  BY Zenon, <1>1, <1>2, <1>3

\* Every action keeps the invariants.
LEMMA TokenLimitInvariant ==
    ASSUME TokenLimitAssumption
    PROVE  Spec => []IInv
<1>1. Init => IInv
  <2> SUFFICES ASSUME Init PROVE IInv
    OBVIOUS
  <2>1. rd \in Rds
    BY DEF Init, Rds
  <2>2a. TypeOK
    BY Zenon DEF Init, TypeOK
  <2>2b. rd.now = 1 /\ \A c \in Callers : rd.at[c] = 0 /\ pc[c] = "idle"
    BY Zenon DEF Init
  <2>2. TypeOK /\ RdOK
    BY <2>1, <2>2a, <2>2b DEF RdOK
  <2>3. Budget
    BY DEF Init, Budget, TokenLimitAssumption
  <2> QED
    BY Zenon, <2>2, <2>3 DEF IInv
<1>2. IInv /\ [Next]_tkVars => IInv'
  <2> SUFFICES ASSUME IInv, [Next]_tkVars PROVE IInv'
    OBVIOUS
  <2>1. CASE UNCHANGED tkVars
    BY Zenon, <2>1 DEF tkVars, IInv, TypeOK, RdOK, Budget, Ttl
  <2>2. CASE Next
    BY Zenon, <2>2, TickKeeps, EvalKeeps, OthersKeep DEF Next
  <2> QED
    BY Zenon, <2>1, <2>2
<1> QED
  BY <1>1, <1>2, PTL DEF Spec

\* For any rate and burst, redis gives out no more than the burst and the tokens of the time
\* that has passed, as long as the scripts run in the order of their times.
THEOREM TokensAreBounded ==
    ASSUME TokenLimitAssumption
    PROVE  Spec => []OnlyBackwardClockOverissues
<1>1. IInv => OnlyBackwardClockOverissues
  <2> SUFFICES ASSUME IInv, ~rd.back
               PROVE  rd.allowed <= Burst + Rate * (rd.now - rd.first)
    BY Zenon DEF OnlyBackwardClockOverissues
  <2>1. /\ rd.now \in Nat /\ rd.latest \in Nat /\ rd.first \in Nat /\ rd.allowed \in Nat
        /\ rd.tokens \in Nat \cup {-1} /\ Burst \in Nat /\ Budget
    BY Zenon DEF IInv, RdOK, Rds, TokenLimitAssumption
  <2>2. rd.latest - rd.first \in Int /\ rd.now - rd.first \in Int
    BY <2>1
  <2>3. rd.latest - rd.first <= rd.now - rd.first
    BY <2>1 DEF Budget
  <2>4. /\ Rate * (rd.latest - rd.first) \in Int /\ Rate * (rd.now - rd.first) \in Int
        /\ Rate * (rd.latest - rd.first) <= Rate * (rd.now - rd.first)
    BY Zenon, <2>2, <2>3, RateTimes
  <2> QED
    BY <2>1, <2>4 DEF Budget
<1> QED
  BY <1>1, TokenLimitInvariant, PTL

\* No interleaving of startMonitor with the end of waitForRedis leaves the limiter on its
\* in-process rescue without a monitor, for any number of callers.
THEOREM RescueHasMonitor ==
    ASSUME TokenLimitAssumption
    PROVE  Spec => []RescueIsMonitored
<1>1. Init => RescueIsMonitored
  BY SMTT(40) DEF Init, RescueIsMonitored
<1>2. IInv /\ RescueIsMonitored /\ [Next]_tkVars => RescueIsMonitored'
  <2> SUFFICES ASSUME TypeOK, RescueIsMonitored, [Next]_tkVars PROVE RescueIsMonitored'
    BY Zenon DEF IInv
  <2>1. CASE UNCHANGED <<alive, started, monitor>>
    BY Zenon, <2>1 DEF RescueIsMonitored
  <2>2. CASE Ping
    BY <2>2 DEF Ping, RescueIsMonitored, TypeOK
  <2>3. CASE MonitorExits
    BY Zenon, <2>3 DEF MonitorExits, RescueIsMonitored
  <2>4. CASE \E c \in Callers : StartMonitor(c)
    BY Zenon, <2>4 DEF StartMonitor, RescueIsMonitored
  <2> QED
    BY Zenon, <2>1, <2>2, <2>3, <2>4 DEF Next, tkVars, Tick, Toggle, AllowN, Eval, EvalFails
<1> QED
  BY <1>1, <1>2, TokenLimitInvariant, PTL DEF Spec

\* A redis that has always answered decides on its own, for any rate and any burst that fills
\* in half a second or more: its time to live is not zero.
THEOREM RedisDecides ==
    ASSUME TokenLimitAssumption
    PROVE  Spec => []HealthyRedisDecides
<1>1. Init => Healthy
  BY SMTT(40) DEF Init, Healthy
<1>2. IInv /\ Healthy /\ [Next]_tkVars => Healthy'
  <2> SUFFICES ASSUME IInv, Healthy, [Next]_tkVars, rd'.failures = 0, 2 * Burst >= Rate
               PROVE  rd'.up /\ alive' = 1 /\ monitor' = "none"
                      /\ \A c \in Callers : pc'[c] # "monitor"
    BY Zenon DEF Healthy
  <2>1. rd \in Rds /\ pc \in [Callers -> {"idle", "eval", "monitor"}]
    BY Zenon DEF IInv, RdOK, TypeOK
  <2>2. rd.failures = 0 /\ rd'.up = rd.up
    <3>1. CASE Toggle
      <4>1. CASE rd.up
        <5>1. rd'.failures = rd.failures + 1 /\ rd.failures \in Nat
          BY Zenon, <2>1, <3>1, <4>1 DEF Toggle, Rds
        <5> QED
          BY <5>1
      <4>2. CASE ~rd.up
        <5>1. rd'.failures = rd.failures
          BY Zenon, <2>1, <3>1, <4>2 DEF Toggle, Rds
        <5> QED
          BY Zenon, <4>2, <5>1 DEF Healthy
      <4> QED
        BY Zenon, <4>1, <4>2
    <3>2. CASE Tick
      BY ZenonT(40), <2>1, <3>2 DEF Tick, Rds
    <3>3. CASE \E c \in Callers : AllowN(c)
      BY Zenon, <2>1, <3>3 DEF AllowN, Rds
    <3>4. CASE \E c \in Callers : Eval(c)
      <4>1. PICK c \in Callers : Eval(c)
        BY Zenon, <3>4
      <4> DEFINE f == Filled(rd.at[c])
                 g == IF f >= 1 THEN 1 ELSE 0
                 first == IF rd.first = 0 THEN rd.at[c] ELSE rd.first
                 back == rd.back \/ rd.at[c] < rd.latest
      <4>2. rd' = [rd EXCEPT !.tokens = f - g, !.ts = rd.at[c], !.expire = rd.now + Ttl,
                             !.allowed = rd.allowed + g, !.latest = Most(rd.latest, rd.at[c]),
                             !.first = first, !.back = back]
        BY Zenon, <2>1, <4>1 DEF Eval, Rds
      <4> HIDE DEF f, g, first, back
      <4> QED
        BY Zenon, <2>1, <4>2 DEF Rds
    <3>5. CASE UNCHANGED rd
      BY Zenon, <3>5
    <3> QED
      BY Zenon, <3>1, <3>2, <3>3, <3>4, <3>5 DEF Next, tkVars, Ping, MonitorExits, EvalFails,
                                          StartMonitor
  <2>3. Ttl # 0
    BY TtlFills
  <2> QED
    BY Zenon, <2>1, <2>2, <2>3 DEF Healthy, Next, tkVars, Tick, Toggle, Ping, MonitorExits, AllowN, Eval,
                            EvalFails, StartMonitor
<1>3. Healthy => HealthyRedisDecides
  BY Zenon DEF Healthy, HealthyRedisDecides
<1> QED
  BY <1>1, <1>2, <1>3, TokenLimitInvariant, PTL DEF Spec
-----------------------------------------------------------------------------
\* The period limiter (periodlimit.go): no key, and no aligned period, gives out more than Quota.

PLType ==
    /\ DOMAIN pl = {"align", "new", "now", "count", "expire", "takes", "pc", "window", "at", "permits",
                    "hits", "granted", "late"}
    /\ pl.align \in BOOLEAN /\ pl.new \in BOOLEAN /\ pl.late \in BOOLEAN
    /\ pl.now \in Nat /\ pl.count \in Nat /\ pl.expire \in Nat /\ pl.permits \in Nat
    /\ pl.hits \in Nat /\ pl.granted \in Nat
    /\ pl.pc \in [Callers -> {"idle", "eval"}]
    /\ pl.window \in [Callers -> Nat] /\ pl.at \in [Callers -> Nat]

\* What the key in redis has given out.
PLQuota ==
    /\ pl.permits = (IF pl.count <= Quota THEN pl.count ELSE Quota)
    /\ pl.hits = (IF pl.count >= Quota THEN 1 ELSE 0)

\* With Align, a key that no late script made ends with the period, and was made in it: what the
\* period has given out is what the key has.
PLPeriod ==
    pl.align => /\ ~pl.late => /\ pl.granted = pl.permits
                               /\ pl.count > 0 => pl.expire = pl.now - (pl.now % Period) + Period
                /\ \A c \in Callers : pl.pc[c] = "eval" /\ pl.at[c] = pl.now
                                        => pl.window[c] = Period - (pl.now % Period)

PLInv ==
    /\ PLType /\ PLQuota /\ PLPeriod
    /\ pl.new => pl.count = 0 /\ pl.granted = 0 /\ \A c \in Callers : pl.pc[c] = "idle"
    /\ \A c \in Callers : pl.at[c] <= pl.now

\* A number is a multiple of the period, and a rest that is less than it.
LEMMA RestOf ==
    ASSUME NEW n \in Nat, NEW p \in Nat \ {0}
    PROVE  n % p \in 0..(p - 1)
  OBVIOUS

\* The two parts make up the number,
LEMMA PartsOf ==
    ASSUME NEW n \in Nat, NEW p \in Nat \ {0}
    PROVE  n \div p \in Nat /\ n = p * (n \div p) + (n % p)
  OBVIOUS

\* and no other rest does.
LEMMA RestIs ==
    ASSUME NEW n \in Nat, NEW p \in Nat \ {0}, NEW q \in Nat, NEW r \in 0..(p - 1), n = p * q + r
    PROVE  n % p = r
  OBVIOUS

\* The period of the next second is that of this one, unless its end is reached.
LEMMA RestOfNext ==
    ASSUME NEW n \in Nat, NEW p \in Nat \ {0}
    PROVE  \/ n % p = p - 1 /\ (n + 1) % p = 0
           \/ n % p < p - 1 /\ (n + 1) % p = (n % p) + 1
<1> DEFINE q == n \div p    r == n % p
<1>1. r \in 0..(p - 1) /\ q \in Nat /\ n = p * q + r
  BY Zenon, RestOf, PartsOf
<1> HIDE DEF q, r
<1>2. CASE r = p - 1
  <2>1. n + 1 = p * (q + 1) + 0
    BY <1>1, <1>2
  <2>2. n + 1 \in Nat /\ q + 1 \in Nat /\ 0 \in 0..(p - 1)
    BY <1>1
  <2>3. (n + 1) % p = 0
    BY Zenon, <2>1, <2>2, RestIs
  <2> QED
    BY Zenon, <1>2, <2>3 DEF r
<1>3. CASE r # p - 1
  <2>1. n + 1 = p * q + (r + 1)
    BY <1>1
  <2>2. n + 1 \in Nat /\ r + 1 \in 0..(p - 1) /\ r < p - 1
    BY <1>1, <1>3
  <2>3. (n + 1) % p = r + 1
    BY Zenon, <1>1, <2>1, <2>2, RestIs
  <2> QED
    BY Zenon, <2>2, <2>3 DEF r
<1> QED
  BY Zenon, <1>2, <1>3

\* When time passes, the key of an aligned period goes away with it.
LEMMA PLTick ==
    ASSUME PeriodLimitAssumption, PLInv, PeriodTick
    PROVE  PLInv'
<1> DEFINE over == pl.count > 0 /\ pl.expire <= pl.now + 1
           ends == (pl.now + 1) % Period = 0
<1>1. PLType /\ PLQuota /\ PLPeriod /\ ~pl.new
  BY Zenon DEF PLInv, PeriodTick
<1>2. /\ DOMAIN pl' = DOMAIN pl /\ pl'.align = pl.align /\ pl'.new = pl.new /\ pl'.now = pl.now + 1
      /\ pl'.expire = pl.expire /\ pl'.pc = pl.pc /\ pl'.window = pl.window /\ pl'.at = pl.at
      /\ pl'.count = IF over THEN 0 ELSE pl.count
      /\ pl'.permits = IF over THEN 0 ELSE pl.permits
      /\ pl'.hits = IF over THEN 0 ELSE pl.hits
      /\ pl'.granted = IF ends THEN 0 ELSE pl.granted
      /\ pl'.late = (pl.late /\ ~(ends /\ over))
  BY Zenon, <1>1 DEF PeriodTick, PLType
<1> HIDE DEF over, ends
<1>3. Period \in Nat \ {0} /\ Quota \in Nat \ {0}
  BY Zenon DEF PeriodLimitAssumption
<1>4. PLType'
  BY <1>1, <1>2 DEF PLType
<1>5. PLQuota'
  <2>1. CASE over
    BY <1>2, <1>3, <2>1 DEF PLQuota
  <2>2. CASE ~over
    BY Zenon, <1>1, <1>2, <2>2 DEF PLQuota
  <2> QED
    BY Zenon, <2>1, <2>2
<1>6. PLPeriod'
  <2> SUFFICES ASSUME pl.align PROVE PLPeriod'
    BY Zenon, <1>2 DEF PLPeriod
  <2> DEFINE rest == pl.now % Period     after == (pl.now + 1) % Period
  <2>1. /\ rest \in 0..(Period - 1) /\ pl.now \in Nat /\ pl.count \in Nat /\ pl.expire \in Nat
        /\ \/ rest = Period - 1 /\ after = 0
           \/ rest < Period - 1 /\ after = rest + 1
    BY Zenon, <1>1, <1>3, RestOf, RestOfNext DEF PLType
  <2>2. pl'.now % Period = after /\ (ends <=> after = 0)
    BY Zenon, <1>2 DEF ends
  <2>3. ~pl.late => /\ pl.granted = pl.permits
                    /\ pl.count > 0 => pl.expire = pl.now - rest + Period
    BY Zenon, <1>1 DEF PLPeriod
  <2> HIDE DEF rest, after
  <2>4. ASSUME ~pl'.late
        PROVE  /\ pl'.granted = pl'.permits
               /\ pl'.count > 0 => pl'.expire = pl'.now - after + Period
    <3>1. CASE ~pl.late /\ ends
      <4>1. pl.count > 0 => over
        BY <1>3, <2>1, <2>2, <2>3, <3>1 DEF over
      <4>2. pl.count = 0 => pl.permits = 0
        BY <1>1, <1>3 DEF PLQuota
      <4>3. pl'.count = 0 /\ pl'.permits = 0
        BY <1>2, <2>1, <4>1, <4>2
      <4> QED
        BY <1>2, <3>1, <4>3
    <3>2. CASE ~pl.late /\ ~ends
      <4>1. ~over
        BY <1>3, <2>1, <2>2, <2>3, <3>2 DEF over
      <4>2. after = rest + 1
        BY Zenon, <2>1, <2>2, <3>2
      <4> QED
        BY <1>2, <1>3, <2>1, <2>3, <3>2, <4>1, <4>2
    <3>3. CASE pl.late
      <4>1. ends /\ over
        BY Zenon, <1>2, <2>4, <3>3
      <4> QED
        BY <1>2, <4>1
    <3> QED
      BY Zenon, <3>1, <3>2, <3>3
  <2>5. \A c \in Callers : pl'.at[c] # pl'.now
    BY <1>1, <1>2 DEF PLInv, PLType
  <2> QED
    BY Zenon, <2>2, <2>4, <2>5 DEF PLPeriod
<1>7. \A c \in Callers : pl'.at[c] <= pl'.now
  BY <1>1, <1>2 DEF PLInv, PLType
<1> QED
  BY Zenon, <1>1, <1>2, <1>4, <1>5, <1>6, <1>7 DEF PLInv

\* Take reads the clock.
LEMMA PLTake ==
    ASSUME PeriodLimitAssumption, PLInv, NEW u \in Callers, Take(u)
    PROVE  PLInv'
<1>1. PLType /\ PLQuota /\ PLPeriod /\ ~pl.new
  BY Zenon DEF PLInv, Take
<1>2. /\ DOMAIN pl' = DOMAIN pl /\ pl'.align = pl.align /\ pl'.new = pl.new /\ pl'.now = pl.now
      /\ pl'.count = pl.count /\ pl'.expire = pl.expire /\ pl'.permits = pl.permits
      /\ pl'.hits = pl.hits /\ pl'.granted = pl.granted /\ pl'.late = pl.late
      /\ pl'.pc = [pl.pc EXCEPT ![u] = "eval"] /\ pl'.at = [pl.at EXCEPT ![u] = pl.now]
      /\ pl'.window = [pl.window EXCEPT ![u] = IF pl.align THEN Period - (pl.now % Period) ELSE Period]
  BY Zenon, <1>1 DEF Take, PLType
<1>3. Period \in Nat \ {0} /\ pl.now \in Nat
  BY Zenon, <1>1 DEF PeriodLimitAssumption, PLType
<1>4. Period - (pl.now % Period) \in Nat
  <2>1. pl.now % Period \in 0..(Period - 1)
    BY Zenon, <1>3, RestOf
  <2> QED
    BY <1>3, <2>1
<1>5. PLType'
  BY <1>1, <1>2, <1>3, <1>4 DEF PLType
<1>6. PLQuota'
  BY Zenon, <1>1, <1>2 DEF PLQuota
<1>7. /\ pl'.at[u] = pl.now /\ (pl.align => pl'.window[u] = Period - (pl.now % Period))
      /\ \A c \in Callers \ {u} : pl'.pc[c] = pl.pc[c] /\ pl'.at[c] = pl.at[c] /\ pl'.window[c] = pl.window[c]
  BY Zenon, <1>1, <1>2 DEF PLType
<1>8. PLPeriod'
  BY <1>1, <1>2, <1>7 DEF PLPeriod
<1>9. \A c \in Callers : pl'.at[c] <= pl'.now
  BY <1>2, <1>3, <1>7 DEF PLInv
<1> QED
  BY Zenon, <1>1, <1>2, <1>5, <1>6, <1>8, <1>9 DEF PLInv

\* The script increments the key.
LEMMA PLEval ==
    ASSUME PeriodLimitAssumption, PLInv, NEW u \in Callers, PeriodEval(u)
    PROVE  PLInv'
<1> DEFINE current == pl.count + 1
<1>1. PLType /\ PLQuota /\ PLPeriod /\ ~pl.new /\ pl.pc[u] = "eval" /\ pl.at[u] <= pl.now
  BY Zenon DEF PLInv, PeriodEval
<1>2. /\ DOMAIN pl' = DOMAIN pl /\ pl'.align = pl.align /\ pl'.new = pl.new /\ pl'.now = pl.now
      /\ pl'.window = pl.window /\ pl'.at = pl.at /\ pl'.pc = [pl.pc EXCEPT ![u] = "idle"]
      /\ pl'.count = current
      /\ pl'.expire = IF current = 1 THEN pl.now + pl.window[u] ELSE pl.expire
      /\ pl'.permits = IF current <= Quota THEN pl.permits + 1 ELSE pl.permits
      /\ pl'.granted = IF current <= Quota THEN pl.granted + 1 ELSE pl.granted
      /\ pl'.hits = IF current = Quota THEN pl.hits + 1 ELSE pl.hits
      /\ pl'.late = (pl.late \/ (current = 1 /\ pl.at[u] # pl.now))
  BY Zenon, <1>1 DEF PeriodEval, PLType
<1>3. /\ Period \in Nat \ {0} /\ Quota \in Nat \ {0} /\ pl.now \in Nat /\ pl.count \in Nat
      /\ pl.window[u] \in Nat /\ pl.permits \in Nat /\ pl.granted \in Nat /\ pl.hits \in Nat
      /\ pl.expire \in Nat /\ current \in Nat /\ current = pl.count + 1
  BY <1>1 DEF PeriodLimitAssumption, PLType
<1> HIDE DEF current
<1>4. PLType'
  <2>1. pl'.late \in BOOLEAN
    BY Zenon, <1>2
  <2>2. /\ pl'.expire \in Nat /\ pl'.permits \in Nat /\ pl'.granted \in Nat /\ pl'.hits \in Nat
        /\ pl'.count \in Nat
    BY <1>2, <1>3
  <2>3. pl'.pc \in [Callers -> {"idle", "eval"}]
    BY <1>1, <1>2 DEF PLType
  <2> QED
    BY Zenon, <1>1, <1>2, <2>1, <2>2, <2>3 DEF PLType
<1>5. PLQuota'
  <2>1. /\ pl.permits = (IF pl.count <= Quota THEN pl.count ELSE Quota)
        /\ pl.hits = (IF pl.count >= Quota THEN 1 ELSE 0)
    BY Zenon, <1>1 DEF PLQuota
  <2>2. pl'.permits = (IF current <= Quota THEN current ELSE Quota)
    BY <1>2, <1>3, <2>1
  <2>3. pl'.hits = (IF current >= Quota THEN 1 ELSE 0)
    BY <1>2, <1>3, <2>1
  <2> QED
    BY Zenon, <1>2, <2>2, <2>3 DEF PLQuota
<1>6. PLPeriod'
  <2> SUFFICES ASSUME pl.align PROVE PLPeriod'
    BY Zenon, <1>2 DEF PLPeriod
  <2>1. /\ ~pl.late => pl.granted = pl.permits
        /\ ~pl.late /\ pl.count > 0 => pl.expire = pl.now - (pl.now % Period) + Period
        /\ pl.at[u] = pl.now => pl.window[u] = Period - (pl.now % Period)
    BY Zenon, <1>1 DEF PLPeriod
  <2>2. ASSUME ~pl'.late
        PROVE  pl'.granted = pl'.permits /\ pl'.expire = pl.now - (pl.now % Period) + Period
    <3>1. ~pl.late /\ (current = 1 => pl.at[u] = pl.now)
      BY Zenon, <1>2, <2>2
    <3>2. pl'.granted = pl'.permits
      BY <1>2, <2>1, <3>1
    <3>3. CASE current = 1
      <4>1. pl.now % Period \in 0..(Period - 1)
        BY Zenon, <1>3, RestOf
      <4>2. pl'.expire = pl.now + (Period - (pl.now % Period))
        BY Zenon, <1>2, <2>1, <3>1, <3>3
      <4> QED
        BY <1>3, <3>2, <4>1, <4>2
    <3>4. CASE current # 1
      <4>1. pl.count > 0 /\ pl'.expire = pl.expire
        BY <1>2, <1>3, <3>4
      <4> QED
        BY Zenon, <2>1, <3>1, <3>2, <4>1
    <3> QED
      BY Zenon, <3>3, <3>4
  <2>3. \A c \in Callers : pl'.pc[c] = "eval" => pl.pc[c] = "eval"
    BY Zenon, <1>1, <1>2 DEF PLType
  <2> QED
    BY <1>1, <1>2, <2>2, <2>3 DEF PLPeriod
<1> QED
  BY Zenon, <1>1, <1>2, <1>4, <1>5, <1>6 DEF PLInv

\* New sets Align, and a call that fails leaves the key alone.
LEMMA PLOthers ==
    ASSUME PeriodLimitAssumption, PLInv,
           (\E align \in BOOLEAN : NewPeriodLimit(align)) \/ (\E c \in Callers : PeriodEvalFails(c))
    PROVE  PLInv'
<1>1. ASSUME NEW align \in BOOLEAN, NewPeriodLimit(align) PROVE PLInv'
  <2>1. PLType /\ PLQuota /\ pl.new
    BY Zenon, <1>1 DEF PLInv, NewPeriodLimit
  <2>2. /\ DOMAIN pl' = DOMAIN pl /\ pl'.align = align /\ pl'.new = FALSE /\ pl'.now = pl.now
        /\ pl'.count = pl.count /\ pl'.expire = pl.expire /\ pl'.permits = pl.permits
        /\ pl'.hits = pl.hits /\ pl'.granted = pl.granted /\ pl'.late = pl.late
        /\ pl'.pc = pl.pc /\ pl'.at = pl.at /\ pl'.window = pl.window
    BY Zenon, <1>1, <2>1 DEF NewPeriodLimit, PLType
  <2>3. PLType' /\ PLQuota'
    BY Zenon, <2>1, <2>2 DEF PLType, PLQuota
  <2>4. pl.count = 0 /\ pl.granted = 0 /\ \A c \in Callers : pl.pc[c] = "idle"
    BY Zenon, <2>1 DEF PLInv
  <2>5. pl.permits = 0
    BY <2>1, <2>4 DEF PLQuota, PeriodLimitAssumption
  <2>6. PLPeriod'
    BY <2>2, <2>4, <2>5 DEF PLPeriod
  <2> QED
    BY Zenon, <2>2, <2>3, <2>6 DEF PLInv
<1>2. ASSUME NEW u \in Callers, PeriodEvalFails(u) PROVE PLInv'
  <2>1. PLType /\ PLQuota /\ PLPeriod /\ ~pl.new
    BY Zenon, <1>2 DEF PLInv, PeriodEvalFails
  <2>2. /\ DOMAIN pl' = DOMAIN pl /\ pl'.align = pl.align /\ pl'.new = pl.new /\ pl'.now = pl.now
        /\ pl'.count = pl.count /\ pl'.expire = pl.expire /\ pl'.permits = pl.permits
        /\ pl'.hits = pl.hits /\ pl'.granted = pl.granted /\ pl'.late = pl.late
        /\ pl'.pc = [pl.pc EXCEPT ![u] = "idle"] /\ pl'.at = pl.at /\ pl'.window = pl.window
    BY Zenon, <1>2, <2>1 DEF PeriodEvalFails, PLType
  <2>3. PLType' /\ PLQuota'
    BY <2>1, <2>2 DEF PLType, PLQuota
  <2>4. \A c \in Callers : pl'.pc[c] = "eval" => pl.pc[c] = "eval"
    BY Zenon, <2>1, <2>2 DEF PLType
  <2>5. PLPeriod'
    BY Zenon, <2>1, <2>2, <2>4 DEF PLPeriod
  <2> QED
    BY Zenon, <2>1, <2>2, <2>3, <2>5 DEF PLInv
<1> QED
  BY Zenon, <1>1, <1>2

\* For any period, any quota and any number of callers: a key gives out at most Quota permits and
\* tells one caller that the quota is hit, and an aligned period gives out no more than Quota, unless
\* the script that made the key ran in a later second than the one its expiry was computed in.
THEOREM QuotaIsKept ==
    ASSUME PeriodLimitAssumption
    PROVE  PeriodSpec => [](QuotaPerKey /\ OnlyLateScriptExceedsPeriod)
<1>1. PLInv /\ [PeriodNext]_pl => PLInv'
  <2>1. CASE UNCHANGED pl
    BY Zenon, <2>1 DEF PLInv, PLType, PLQuota, PLPeriod
  <2>2. CASE PeriodNext
    BY Zenon, <2>2, PLTick, PLTake, PLEval, PLOthers DEF PeriodNext
  <2> QED
    BY Zenon, <2>1, <2>2
<1>2. PeriodInit => PLInv
  BY DEF PeriodLimitAssumption, PeriodInit, PLInv, PLType, PLQuota, PLPeriod
<1>3. PLInv => QuotaPerKey /\ OnlyLateScriptExceedsPeriod
  <2> SUFFICES ASSUME PLInv PROVE QuotaPerKey /\ OnlyLateScriptExceedsPeriod
    OBVIOUS
  <2>1. Quota \in Nat /\ pl.count \in Nat /\ pl.permits <= Quota /\ PLQuota
    BY DEF PLInv, PLType, PLQuota, PeriodLimitAssumption
  <2>2. QuotaPerKey
    BY Zenon, <2>1 DEF PLQuota, QuotaPerKey
  <2>3. OnlyLateScriptExceedsPeriod
    BY <2>1 DEF PLInv, PLType, PLPeriod, OnlyLateScriptExceedsPeriod
  <2> QED
    BY Zenon, <2>2, <2>3
<1> QED
  BY <1>1, <1>2, <1>3, PTL DEF PeriodSpec
-----------------------------------------------------------------------------
\* Both limiters.

\* They give out no more than they promise.  TokenLimiter: not more than the burst and the rate, but
\* for scripts with times that went back; redis decides while it answers; and a limiter in rescue mode
\* has a monitor.  PeriodLimit: at most Quota permits for a key and an aligned period, but for late
\* scripts.
LimitsHold ==
    /\ OnlyBackwardClockOverissues /\ HealthyRedisDecides /\ RescueIsMonitored
    /\ QuotaPerKey /\ OnlyLateScriptExceedsPeriod

\* They do so for every rate, burst, period and quota and any number of callers.
THEOREM LimitsAlwaysHold ==
    ASSUME TokenLimitAssumption, PeriodLimitAssumption
    PROVE  Spec /\ PeriodSpec => []LimitsHold
  BY TokensAreBounded, RescueHasMonitor, RedisDecides, QuotaIsKept, PTL DEF LimitsHold
-----------------------------------------------------------------------------
\* TimeoutHandler.  Until the timeout, what the writer holds is what the handler wrote; nothing goes
\* out while the caller selects; and who is done writes no more.

TO == INSTANCE TimeoutHandler

TOType ==
    /\ DOMAIN to = {"kind", "fn", "main", "done", "panicChan", "ctx", "timedOut", "code", "wbuf",
                    "answer", "wrote", "set"}
    /\ to.main \in {"new", "select", "returned", "panicked"}
    /\ to.fn \in {"new", "run", "recover", "end"}
    /\ to.done \in BOOLEAN /\ to.timedOut \in BOOLEAN /\ to.panicChan \in BOOLEAN

TOBuffered == ~to.timedOut => to.code = to.set /\ to.wbuf = to.wrote

TOOrder ==
    /\ to.main = "new" => to.fn = "new"
    /\ to.done => to.fn = "end"
    /\ to.main \in {"new", "select"} => to.answer = <<>> /\ ~to.timedOut

TOInv == TOType /\ TOBuffered /\ TOOrder /\ TO!AnswerIsWhole

\* The steps of the function keep the invariant.
LEMMA TOFn ==
    ASSUME TOInv,
           \/ \E code \in Codes : TO!WriteHeader(code)
           \/ TO!Write \/ TO!Fn
    PROVE  TOInv'
<1>1. CASE \E code \in Codes : TO!WriteHeader(code)
  <2>1. PICK code \in Codes : TO!WriteHeader(code)
    BY Zenon, <1>1
  <2>2. /\ to.fn = "run" /\ to.set = 0 /\ to'.set = code /\ to'.code = TO!Coded(code)
        /\ DOMAIN to' = DOMAIN to /\ to'.main = to.main /\ to'.fn = to.fn /\ to'.done = to.done
        /\ to'.timedOut = to.timedOut /\ to'.panicChan = to.panicChan
        /\ to'.wbuf = to.wbuf /\ to'.answer = to.answer /\ to'.wrote = to.wrote
    BY Zenon, <2>1 DEF TO!WriteHeader, TOInv, TOType
  <2> QED
    BY <2>2 DEF TOInv, TOType, TOBuffered, TOOrder, TO!AnswerIsWhole, TO!Coded
<1>2. CASE TO!Write
  <2>1. /\ to.fn = "run" /\ to'.set = (IF to.set = 0 THEN 200 ELSE to.set)
        /\ to'.code = TO!Coded(200) /\ to'.wrote = to.wrote + 1
        /\ to'.wbuf = IF to.timedOut THEN to.wbuf ELSE to.wbuf + 1
        /\ DOMAIN to' = DOMAIN to /\ to'.main = to.main /\ to'.fn = to.fn /\ to'.done = to.done
        /\ to'.timedOut = to.timedOut /\ to'.panicChan = to.panicChan /\ to'.answer = to.answer
    BY <1>2 DEF TO!Write, TOInv, TOType
  <2> QED
    BY <2>1 DEF TOInv, TOType, TOBuffered, TOOrder, TO!AnswerIsWhole, TO!Coded
<1>3. CASE TO!Fn
  <2>1. /\ to.fn \in {"run", "recover"} /\ to'.fn \in {"recover", "end"}
        /\ to'.done \in BOOLEAN /\ (to'.done => to'.fn = "end") /\ (to.done => to'.done)
        /\ to'.panicChan \in BOOLEAN
        /\ DOMAIN to' = DOMAIN to /\ to'.main = to.main /\ to'.set = to.set /\ to'.code = to.code
        /\ to'.timedOut = to.timedOut /\ to'.wbuf = to.wbuf /\ to'.answer = to.answer
        /\ to'.wrote = to.wrote
    BY ZenonT(40), <1>3 DEF TO!Fn, TO!FnReturns, TO!FnPanics, TO!SendPanic, TOInv, TOType, TOOrder
  <2> QED
    BY <2>1 DEF TOInv, TOType, TOBuffered, TOOrder, TO!AnswerIsWhole
<1> QED
  BY Zenon, <1>1, <1>2, <1>3

\* And those of its caller.
LEMMA TOMain ==
    ASSUME TOInv,
           \/ \E kind : TO!Call(kind)
           \/ TO!Main
           \/ \E why : TO!ContextDone(why)
    PROVE  TOInv'
<1>1. CASE (\E kind : TO!Call(kind)) \/ (\E why : TO!ContextDone(why))
  <2>1. /\ DOMAIN to' = DOMAIN to /\ to'.done = to.done /\ to'.timedOut = to.timedOut
        /\ to'.panicChan = to.panicChan /\ to'.code = to.code /\ to'.set = to.set
        /\ to'.wbuf = to.wbuf /\ to'.wrote = to.wrote /\ to'.answer = to.answer
        /\ to'.main = "select" /\ to.main \in {"new", "select"}
        /\ to'.fn \in {"new", "run", "recover", "end"} /\ (to.done => to'.fn = "end")
    BY ZenonT(40), <1>1 DEF TO!Call, TO!ContextDone, TOInv, TOType, TOOrder
  <2> QED
    BY Zenon, <2>1 DEF TOInv, TOType, TOBuffered, TOOrder, TO!AnswerIsWhole
<1>2. CASE TO!Main
  <2>1. /\ DOMAIN to' = DOMAIN to /\ to'.done = to.done /\ to'.fn = to.fn
        /\ to'.panicChan = to.panicChan /\ to'.code = to.code /\ to'.set = to.set
        /\ to'.wbuf = to.wbuf /\ to'.wrote = to.wrote /\ to.main = "select"
    <3>1. CASE TO!MainPanics
      BY Zenon, <3>1 DEF TO!MainPanics, TOInv, TOType
    <3>2. CASE TO!MainDone
      BY Zenon, <3>2 DEF TO!MainDone, TOInv, TOType
    <3>3. CASE TO!MainTimesOut
      BY <3>3 DEF TO!MainTimesOut, TOInv, TOType
    <3> QED
      BY Zenon, <1>2, <3>1, <3>2, <3>3 DEF TO!Main
  <2>2. CASE TO!MainPanics
    <3>1. to'.main = "panicked" /\ to'.timedOut = to.timedOut /\ to'.answer = to.answer
      BY Zenon, <2>2 DEF TO!MainPanics, TOInv, TOType
    <3> QED
      BY Zenon, <2>1, <3>1 DEF TOInv, TOType, TOBuffered, TOOrder, TO!AnswerIsWhole
  <2>3. CASE TO!MainDone
    <3>1. /\ to'.main = "returned" /\ to'.timedOut = to.timedOut /\ to.done
          /\ to'.answer = Append(to.answer, <<IF to.code = 0 THEN 200 ELSE to.code, to.wbuf>>)
      BY Zenon, <2>3 DEF TO!MainDone, TOInv, TOType
    <3>2. to.answer = <<>> /\ to.code = to.set /\ to.wbuf = to.wrote
      BY Zenon, <2>1 DEF TOInv, TOOrder, TOBuffered
    <3>3. to'.answer = <<<<IF to'.set = 0 THEN 200 ELSE to'.set, to'.wrote>>>>
      BY <2>1, <3>1, <3>2
    <3>4. TO!AnswerIsWhole'
      BY Zenon, <2>1, <3>1, <3>3 DEF TO!AnswerIsWhole
    <3> QED
      BY Zenon, <2>1, <3>1, <3>4 DEF TOInv, TOType, TOBuffered, TOOrder
  <2>4. CASE TO!MainTimesOut
    <3>1. /\ to'.main = "returned" /\ to'.timedOut
          /\ to'.answer = Append(to.answer, <<IF to.ctx = "canceled" THEN 499 ELSE 503, 0>>)
      BY Zenon, <2>4 DEF TO!MainTimesOut, TOInv, TOType
    <3>2. to.answer = <<>>
      BY Zenon, <2>1 DEF TOInv, TOOrder
    <3>3. to'.answer \in {<<<<499, 0>>>>, <<<<503, 0>>>>}
      BY <3>1, <3>2
    <3> QED
      BY <2>1, <3>1, <3>3 DEF TOInv, TOType, TOBuffered, TOOrder, TO!AnswerIsWhole
  <2> QED
    BY Zenon, <1>2, <2>2, <2>3, <2>4 DEF TO!Main
<1> QED
  BY Zenon, <1>1, <1>2

\* The client gets all that the handler wrote, or the page of the timeout.
AnswerIsWhole == TO!AnswerIsWhole

\* The client gets all of the handler's answer or only the page of the timeout, for any number of
\* writes and any codes: the writes that come after the timeout go nowhere.
THEOREM ClientGetsAWholeAnswer == TO!Spec => []AnswerIsWhole
<1>1. TOInv /\ [TO!Next]_to => TOInv'
  <2> SUFFICES ASSUME TOInv, [TO!Next]_to PROVE TOInv'
    OBVIOUS
  <2>1. CASE UNCHANGED to
    BY <2>1 DEF TOInv, TOType, TOBuffered, TOOrder, TO!AnswerIsWhole
  <2> QED
    BY Zenon, <2>1, TOFn, TOMain DEF TO!Next
<1>2. TO!Init => TOInv
  BY DEF TO!Init, TOInv, TOType, TOBuffered, TOOrder, TO!AnswerIsWhole
<1>3. TOInv => TO!AnswerIsWhole
  BY Zenon DEF TOInv
<1> QED
  BY <1>1, <1>2, <1>3, PTL DEF AnswerIsWhole, TO!Spec
-----------------------------------------------------------------------------
\* The breakers of the stores, of zrpc and of rest, for any protection.

GU == INSTANCE Guarded

GUType ==
    /\ DOMAIN gd = {"store", "up", "outages", "marks", "promise", "answer", "causes"}
    /\ gd.store \in {"none", "redis", "mon", "mgo", "sql", "rpc", "rest"}
    /\ gd.marks \in Seq(BOOLEAN)
    /\ gd.outages \in Nat

\* A server that never failed is up, has only these causes against it, and has all results in the
\* window accepted where there is no cause.
GUHealthy ==
    gd.outages = 0 =>
        /\ gd.up
        /\ gd.causes = {} => \A i \in 1..Len(gd.marks) : gd.marks[i]
        /\ gd.store = "none" => gd.causes = {}
        /\ gd.store # "none" => gd.causes \subseteq GU!Blamed[gd.store]

\* Nothing is marked before there is a store, and only mgo has promises.
GUOpen ==
    /\ gd.store = "none" => gd.marks = <<>>
    /\ gd.promise # "none" => gd.store = "mgo"

GUInv == GUType /\ GUHealthy /\ GUOpen

\* There is no mark at first, and no cause for one.
LEMMA GUInit ==
    ASSUME GU!Init
    PROVE  GUInv
BY DEF GU!Init, GUInv, GUType, GUHealthy, GUOpen

\* The operations of each store that run a function of the caller.
LEMMA GUOwn ==
    /\ \A op \in GU!RedisCommands : op \in GU!RunsOwn => op = "Pipelined"
    /\ \A op \in GU!MonReads \cup GU!MonFinds \cup GU!MonWrites \cup GU!MonSessions :
          op \in GU!RunsOwn => op = "WithTransaction"
    /\ \A op \in GU!MgoWrites \cup GU!MgoKeeps : op \in GU!RunsOwn => op = "For"
    /\ \A op \in GU!SqlQueries \cup GU!SqlExecs \cup {"Transact"} :
          op \in GU!RunsOwn => op \in GU!SqlQueries \/ op = "Transact"
<1>1. \A op \in GU!RedisCommands : op \in GU!RunsOwn => op = "Pipelined"
  BY DEF GU!RedisCommands, GU!RunsOwn, GU!BitCommands, GU!KeyCommands, GU!GeoCommands,
         GU!GetCommands, GU!HashCommands, GU!HashWrites, GU!ListCommands, GU!PfCommands,
         GU!PipeCommands, GU!SetCommands, GU!SetAlgebra, GU!SinterAndTtl, GU!ZsetCommands,
         GU!ZsetRanges, GU!ZsetScores, GU!ZsetReverse, GU!SqlQueries
<1>2. \A op \in GU!MonReads \cup GU!MonFinds \cup GU!MonWrites \cup GU!MonSessions :
         op \in GU!RunsOwn => op = "WithTransaction"
  BY Zenon DEF GU!RunsOwn, GU!MonReads, GU!MonFinds, GU!MonWrites, GU!MonSessions, GU!SqlQueries
<1>3. \A op \in GU!MgoWrites \cup GU!MgoKeeps : op \in GU!RunsOwn => op = "For"
  BY Zenon DEF GU!RunsOwn, GU!MgoWrites, GU!MgoKeeps, GU!MgoQuery, GU!MgoIter, GU!MgoPipe, GU!SqlQueries
<1>4. \A op \in GU!SqlQueries \cup GU!SqlExecs \cup {"Transact"} :
         op \in GU!RunsOwn => op \in GU!SqlQueries \/ op = "Transact"
  BY Zenon DEF GU!RunsOwn, GU!SqlExecs
<1> QED
  BY Zenon, <1>1, <1>2, <1>3, <1>4

\* What a healthy server is blamed for: the class of a result that the breaker does not accept.
LEMMA GUBlames ==
    ASSUME GUInv, gd.up, NEW op, NEW o \in GU!Outcomes(op), o \notin GU!Accepts(op),
           gd.store # "none", op \in GU!Calls[gd.store] \/ (gd.store = "mgo" /\ op \in GU!MgoKeeps)
    PROVE  o # "fault" /\ (IF o = "own" THEN op ELSE o) \in GU!Blamed[gd.store]
<1>1. /\ o \in {"ok", "missing", "misuse", "canceled", "own", "code", "refused"}
      /\ o = "own" => op \in GU!RunsOwn
      /\ o = "code" => gd.store = "rpc"
      /\ o = "refused" => gd.store \in {"redis", "mon", "mgo", "sql"}
  BY Zenon DEF GU!Outcomes
<1>2. CASE gd.store = "redis"
  <2>1. op \in GU!RedisCommands /\ GU!Accepts(op) = {"ok", "missing", "canceled"}
        /\ GU!Blamed[gd.store] = {"refused", "misuse", "Pipelined"}
    BY <1>2 DEF GU!Calls, GU!Accepts, GU!RedisAccepts, GU!Blamed
  <2> QED
    BY Zenon, <1>1, <1>2, <2>1, GUOwn
<1>3. CASE gd.store = "mon"
  <2>1. op \in GU!MonReads \cup GU!MonFinds \cup GU!MonWrites \cup GU!MonSessions
        /\ GU!Accepts(op) = {"ok", "missing", "misuse"}
        /\ GU!Blamed[gd.store] = {"refused", "canceled", "WithTransaction"}
    BY <1>3 DEF GU!Calls, GU!Accepts, GU!MonAccepts, GU!Blamed
  <2> QED
    BY Zenon, <1>1, <1>3, <2>1, GUOwn
<1>4. CASE gd.store = "mgo"
  <2>1. /\ op \in GU!MgoWrites \cup GU!MgoKeeps /\ {"ok", "missing"} \subseteq GU!Accepts(op)
        /\ op = "For" => "own" \in GU!Accepts(op)
        /\ GU!Blamed[gd.store] = {"refused", "canceled", "misuse"}
    BY <1>4 DEF GU!Calls, GU!Accepts, GU!MgoAccepts, GU!ForAccepts, GU!Blamed
  <2> QED
    BY Zenon, <1>1, <1>4, <2>1, GUOwn
<1>5. CASE gd.store = "sql"
  <2>1. /\ op \in GU!SqlQueries \cup GU!SqlExecs \cup {"Transact"}
        /\ {"ok", "missing", "misuse", "canceled"} \subseteq GU!Accepts(op)
        /\ op \in GU!SqlQueries => "own" \in GU!Accepts(op)
        /\ GU!Blamed[gd.store] = {"refused", "Transact"}
    BY <1>5 DEF GU!Calls, GU!Accepts, GU!SqlAccepts, GU!QueryAccepts, GU!Blamed
  <2> QED
    BY Zenon, <1>1, <1>5, <2>1, GUOwn
<1>6. CASE gd.store = "rpc"
  <2>1. /\ GU!Accepts(op) = {"ok", "missing", "misuse", "canceled", "own"}
        /\ GU!Blamed[gd.store] = {"code"}
    BY <1>6 DEF GU!Accepts, GU!RpcAccepts, GU!Blamed
  <2> QED
    BY Zenon, <1>1, <1>6, <2>1
<1>7. CASE gd.store = "rest"
  <2>1. /\ op = "Serve" /\ GU!Accepts(op) = {"ok", "missing", "misuse", "canceled"}
        /\ GU!Blamed[gd.store] = {"Serve"}
    BY <1>7 DEF GU!Calls, GU!Accepts, GU!RestAccepts, GU!Blamed
  <2> QED
    BY Zenon, <1>1, <1>7, <2>1
<1> QED
  BY Zenon, <1>2, <1>3, <1>4, <1>5, <1>6, <1>7 DEF GUInv, GUType

\* A mark more at the end of the window.
LEMMA GUMarked ==
    ASSUME NEW s \in Seq(BOOLEAN), NEW b \in BOOLEAN
    PROVE  /\ Append(s, b) \in Seq(BOOLEAN)
           /\ b /\ (\A i \in 1..Len(s) : s[i]) => \A i \in 1..Len(Append(s, b)) : Append(s, b)[i]
OBVIOUS

\* The oldest mark leaves the window.
LEMMA GUSlid ==
    ASSUME NEW s \in Seq(BOOLEAN), s # <<>>
    PROVE  /\ Tail(s) \in Seq(BOOLEAN)
           /\ (\A i \in 1..Len(s) : s[i]) => \A i \in 1..Len(Tail(s)) : Tail(s)[i]
OBVIOUS

\* A result goes into the window, and what is not accepted becomes a cause.
LEMMA GUMark ==
    ASSUME GUInv, NEW op, NEW o \in GU!Outcomes(op), NEW a,
           gd.store # "none", op \in GU!Calls[gd.store] \/ (gd.store = "mgo" /\ op \in GU!MgoKeeps),
           gd' = [GU!Mark(op, o) EXCEPT !.answer = a]
    PROVE  GUInv'
<1> DEFINE ok == o \in GU!Accepts(op)
           cause == IF o = "own" THEN op ELSE o
<1>1. /\ gd'.marks = Append(gd.marks, ok) /\ gd'.store = gd.store /\ gd'.up = gd.up
      /\ gd'.outages = gd.outages /\ gd'.promise = gd.promise /\ DOMAIN gd' = DOMAIN gd
      /\ gd'.causes = IF ok \/ o = "fault" THEN gd.causes ELSE gd.causes \cup {cause}
  BY Zenon DEF GU!Mark, GUInv, GUType
<1>2. gd.outages = 0 /\ ~ok => o # "fault" /\ cause \in GU!Blamed[gd.store]
  BY Zenon, GUBlames DEF GUInv, GUHealthy
<1>3. ok \in BOOLEAN /\ gd.marks \in Seq(BOOLEAN)
  BY DEF GUInv, GUType
<1> HIDE DEF ok, cause
<1>4. /\ gd'.marks \in Seq(BOOLEAN)
      /\ ok /\ (\A i \in 1..Len(gd.marks) : gd.marks[i])
            => \A i \in 1..Len(gd'.marks) : gd'.marks[i]
  BY Zenon, <1>1, <1>3, GUMarked
<1>5. GUType' /\ GUOpen'
  BY Zenon, <1>1, <1>4 DEF GUInv, GUType, GUOpen
<1>6. GUHealthy'
  <2>1. CASE ok
    BY Zenon, <1>1, <1>4, <2>1 DEF GUInv, GUHealthy
  <2>2. CASE ~ok
    <3> SUFFICES ASSUME gd.outages = 0
                 PROVE  gd'.up /\ gd'.causes # {} /\ gd'.causes \subseteq GU!Blamed[gd.store]
      BY Zenon, <1>1 DEF GUHealthy
    <3>1. gd'.causes = gd.causes \cup {cause} /\ cause \in GU!Blamed[gd.store]
      BY Zenon, <1>1, <1>2, <2>2
    <3>2. gd.up /\ gd.causes \subseteq GU!Blamed[gd.store]
      BY Zenon DEF GUInv, GUHealthy
    <3> QED
      BY Zenon, <1>1, <3>1, <3>2
  <2> QED
    BY Zenon, <2>1, <2>2
<1> QED
  BY Zenon, <1>5, <1>6 DEF GUInv

\* The steps that mark no failure.
LEMMA GUOthers ==
    ASSUME GUInv,
           \/ \E s \in GU!Stores : GU!Open(s)
           \/ GU!Drop \/ GU!Find \/ GU!Rejected \/ GU!Fault \/ GU!Recover
           \/ \E op : GU!ZeroLimit(op)
           \/ \E op, o : GU!Direct(op, o)
    PROVE  GUInv'
<1>1. CASE \E s \in GU!Stores : GU!Open(s)
  <2>1. PICK s \in {"redis", "mon", "mgo", "sql", "rpc", "rest"} : GU!Open(s)
    BY Zenon, <1>1 DEF GU!Stores, GU!Calls
  <2>2. /\ gd.store = "none" /\ gd'.store = s /\ gd'.marks = gd.marks /\ gd'.up = gd.up
        /\ gd'.outages = gd.outages /\ gd'.promise = gd.promise /\ gd'.causes = gd.causes
        /\ DOMAIN gd' = DOMAIN gd
    BY Zenon, <2>1 DEF GU!Open, GUInv, GUType
  <2> QED
    BY Zenon, <2>1, <2>2 DEF GUInv, GUType, GUHealthy, GUOpen
<1>2. CASE GU!Fault \/ GU!Recover
  <2>1. /\ gd'.store = gd.store /\ gd'.marks = gd.marks /\ gd'.promise = gd.promise
        /\ gd'.causes = gd.causes /\ DOMAIN gd' = DOMAIN gd
        /\ gd'.outages \in Nat /\ (gd'.outages = 0 => gd'.up /\ gd.outages = 0)
    <3>1. CASE GU!Fault
      BY <3>1 DEF GU!Fault, GUInv, GUType
    <3>2. CASE GU!Recover
      BY Zenon, <3>2 DEF GU!Recover, GUInv, GUType
    <3> QED
      BY Zenon, <1>2, <3>1, <3>2
  <2> QED
    BY Zenon, <2>1 DEF GUInv, GUType, GUHealthy, GUOpen
<1>3. CASE \/ GU!Drop \/ GU!Find \/ GU!Rejected \/ (\E op : GU!ZeroLimit(op))
           \/ \E op, o : GU!Direct(op, o)
  <2>1. /\ gd'.store = gd.store /\ gd'.marks = gd.marks /\ gd'.up = gd.up
        /\ gd'.outages = gd.outages /\ gd'.causes = gd.causes /\ DOMAIN gd' = DOMAIN gd
        /\ gd'.promise = gd.promise \/ gd.store = "mgo"
    BY Zenon, <1>3 DEF GU!Drop, GU!Find, GU!Rejected, GU!ZeroLimit, GU!Direct, GUInv, GUType
  <2> QED
    BY Zenon, <2>1 DEF GUInv, GUType, GUHealthy, GUOpen
<1> QED
  BY Zenon, <1>1, <1>2, <1>3

\* PingCtx marks an accepted result, Slide forgets one.
LEMMA GUWindow ==
    ASSUME GUInv, gd.store # "none", GU!Slide \/ \E o : GU!Ping(o)
    PROVE  GUInv'
<1>1. /\ gd'.store = gd.store /\ gd'.up = gd.up /\ gd'.outages = gd.outages
      /\ gd'.promise = gd.promise /\ gd'.causes = gd.causes /\ DOMAIN gd' = DOMAIN gd
      /\ gd'.marks = Append(gd.marks, TRUE) \/ (gd.marks # <<>> /\ gd'.marks = Tail(gd.marks))
  BY Zenon DEF GU!Slide, GU!Ping, GUInv, GUType
<1>2. gd.marks \in Seq(BOOLEAN)
  BY Zenon DEF GUInv, GUType
<1>3. /\ gd'.marks \in Seq(BOOLEAN)
      /\ (\A i \in 1..Len(gd.marks) : gd.marks[i]) => \A i \in 1..Len(gd'.marks) : gd'.marks[i]
  BY Zenon, <1>1, <1>2, GUMarked, GUSlid
<1> QED
  BY ZenonT(40), <1>1, <1>3 DEF GUInv, GUType, GUHealthy, GUOpen

\* Facts about finite sets and what they count.
INSTANCE FiniteSetTheorems

\* A window in which all is accepted drops nothing.
LEMMA GUAccepts ==
    ASSUME GU!GuardedAssumption, GUInv, \A i \in 1..Len(gd.marks) : gd.marks[i]
    PROVE  ~GU!MayDrop
<1>1. gd.marks \in Seq(BOOLEAN) /\ Len(gd.marks) \in Nat /\ DOMAIN gd.marks = 1..Len(gd.marks)
  BY DEF GUInv, GUType
<1>2. {i \in DOMAIN gd.marks : gd.marks[i]} = 1..Len(gd.marks)
  BY Zenon, <1>1
<1>3. Cardinality(1..Len(gd.marks)) = Len(gd.marks)
  BY <1>1, FS_Interval
<1>4. GU!Accepted = Len(gd.marks)
  BY Zenon, <1>2, <1>3 DEF GU!Accepted, Cardinality, GU!Cardinality, IsFiniteSet, GU!IsFiniteSet
<1> QED
  BY <1>1, <1>4 DEF GU!GuardedAssumption, GU!MayDrop

\* A breaker over a healthy server opens for these results of its callers only.
OnlyTheseBlameAHealthyServer == GU!OnlyTheseBlameAHealthyServer

\* A breaker over a server that never failed opens for these results of its callers only.
THEOREM HealthyServersAreNotBlamed ==
    ASSUME GU!GuardedAssumption
    PROVE  GU!Spec => []OnlyTheseBlameAHealthyServer
<1>1. GUInv /\ [GU!Next]_gd => GUInv'
  <2> SUFFICES ASSUME GUInv, [GU!Next]_gd PROVE GUInv'
    OBVIOUS
  <2>1. CASE UNCHANGED gd
    BY Zenon, <2>1 DEF GUInv, GUType, GUHealthy, GUOpen
  <2>2. ASSUME gd.store # "none", NEW op, NEW o,
               (op \in GU!Calls[gd.store] /\ GU!Call(op, o)) \/ GU!Keep(op, o)
        PROVE  GUInv'
    <3>1. CASE op \in GU!Calls[gd.store] /\ GU!Call(op, o)
      BY Zenon, <2>2, <3>1, GUMark DEF GU!Call
    <3>2. CASE GU!Keep(op, o)
      BY Zenon, <2>2, <3>2, GUMark DEF GU!Keep, GUInv, GUOpen
    <3> QED
      BY Zenon, <2>2, <3>1, <3>2
  <2> QED
    BY <2>1, <2>2, GUOthers, GUWindow DEF GU!Next
<1>2. GU!Init => GUInv
  BY Zenon, GUInit
<1>3. GUInv => GU!OnlyTheseBlameAHealthyServer
  <2> SUFFICES ASSUME GUInv, gd.outages = 0, GU!MayDrop
               PROVE  gd.causes # {} /\ gd.causes \subseteq GU!Blamed[gd.store]
    BY Zenon DEF GU!OnlyTheseBlameAHealthyServer
  <2>1. gd.causes # {}
    BY Zenon, GUAccepts DEF GUInv, GUHealthy
  <2> QED
    BY Zenon, <2>1 DEF GUInv, GUHealthy
<1> QED
  BY <1>1, <1>2, <1>3, PTL DEF OnlyTheseBlameAHealthyServer, GU!Spec
=============================================================================
