-------------------------------- MODULE Cache --------------------------------
(***************************************************************************)
(* The in-memory Cache of core/collection/cache.go, with its LRU, on top   *)
(* of the timing wheel and SingleFlight.                                   *)
(*                                                                         *)
(* The wheel is what TimingWheel shows it to be: a key is armed or not,    *)
(* and an armed key may go off at any time, which starts a goroutine that  *)
(* calls Del.  The barrier is what SingleFlight shows it to be: one owner  *)
(* per key at a time, whose result all who joined it get.  c.lock makes    *)
(* each critical section one step, the calls under it included.            *)
(***************************************************************************)
EXTENDS Naturals, SequencesExt

CONSTANTS
    Callers,    \* goroutines that use the cache
    Expirers,   \* goroutines in which the wheel executes
    Keys, Values,
    Limit,      \* limit of keyLru, 0 for emptyLru
    Err,        \* fetch failed
    None

VARIABLES
    data,       \* c.data
    lru,        \* klru.evicts, the front first; klru.elements has the same keys
    armed,      \* keys that have a timer in the wheel
    pc, key,    \* where each goroutine is, and the key of its call
    had,        \* the local ok of SetWithExpire
    fresh,      \* the local fresh of Take
    result,     \* what the barrier returned, or the value to set
    flight,     \* per key the owner in the barrier
    fetched,    \* ghost: successful fetches minus misses that Take counted for them
    raced       \* ghost: keys whose new timer was removed by an earlier Del

locals == <<key, had, fresh, result>>
store  == <<data, lru>>
vars   == <<store, armed, pc, locals, flight, fetched, raced>>

Procs == Callers \cup Expirers

Labels == {"idle", "timer", "del", "remove", "barrier", "wait", "check", "fetch", "set",
           "return"}

TypeOK ==
    /\ data \in [Keys -> Values \cup {None}]
    /\ lru \in Seq(Keys)
    /\ armed \subseteq Keys
    /\ pc \in [Procs -> Labels]
    /\ key \in [Procs -> Keys \cup {None}]
    /\ had \in [Callers -> BOOLEAN]
    /\ fresh \in [Callers -> BOOLEAN]
    /\ result \in [Callers -> Values \cup {Err, None}]
    /\ flight \in [Keys -> Callers \cup {None}]
    /\ fetched \in Nat
    /\ raced \subseteq Keys

Init ==
    /\ data = [k \in Keys |-> None]
    /\ lru = <<>>
    /\ armed = {}
    /\ pc = [p \in Procs |-> "idle"]
    /\ key = [p \in Procs |-> None]
    /\ had = [c \in Callers |-> FALSE]
    /\ fresh = [c \in Callers |-> FALSE]
    /\ result = [c \in Callers |-> None]
    /\ flight = [k \in Keys |-> None]
    /\ fetched = 0
    /\ raced = {}

-----------------------------------------------------------------------------
(* The LRU *)

\* keyLru.add without the eviction.
LruAdd(l, k) == IF Limit = 0 THEN l ELSE <<k>> \o Remove(l, k)

\* removeOldest: the keys that onEvict gets.
Evicted(l) == IF Len(l) > Limit /\ Limit > 0 THEN {l[Len(l)]} ELSE {}

\* The critical section of SetWithExpire.
Put(k, v) ==
    LET l == LruAdd(lru, k) IN
    /\ data' = [x \in Keys |-> IF x = k THEN v ELSE IF x \in Evicted(l) THEN None ELSE data[x]]
    /\ lru' = SelectSeq(l, LAMBDA x : x \notin Evicted(l))
    /\ armed' = armed \ Evicted(l)

\* doGet
Get(k) == lru' = IF data[k] # None THEN LruAdd(lru, k) ELSE lru

-----------------------------------------------------------------------------
(* Set and Del *)

SetCall(c, k, v) ==
    /\ pc[c] = "idle"
    /\ Put(k, v)
    /\ had' = [had EXCEPT ![c] = data[k] # None]
    /\ key' = [key EXCEPT ![c] = k]
    /\ pc' = [pc EXCEPT ![c] = "timer"]
    /\ UNCHANGED <<fresh, result, flight, fetched, raced>>

\* Mutant of StartTimer: a new key is moved, not set.
StartTimerMoves(c) == UNCHANGED <<armed, raced>>

\* SetTimer arms the key; MoveTimer does nothing when the wheel does not know it.
StartTimer(c) ==
    /\ armed' = IF had[c] THEN armed ELSE armed \cup {key[c]}
    /\ raced' = IF had[c] THEN raced ELSE raced \ {key[c]}

\* The end of Set as called by a client.
SetReturns(c) ==
    /\ pc[c] = "timer" /\ flight[key[c]] # c
    /\ StartTimer(c)
    /\ pc' = [pc EXCEPT ![c] = "idle"]
    /\ key' = [key EXCEPT ![c] = None]
    /\ had' = [had EXCEPT ![c] = FALSE]
    /\ UNCHANGED <<store, fresh, result, flight, fetched>>

\* A timer goes off: at its time, or because MoveTimer moved it to a delay below
\* the wheel's interval, which executes it and keeps it.
Expire(e, k) ==
    /\ k \in armed /\ pc[e] = "idle"
    /\ \/ armed' = armed \ {k}
       \/ /\ \E c \in Callers : pc[c] = "timer" /\ had[c] /\ key[c] = k
          /\ UNCHANGED armed
    /\ pc' = [pc EXCEPT ![e] = "del"]
    /\ key' = [key EXCEPT ![e] = k]
    /\ UNCHANGED <<store, had, fresh, result, flight, fetched, raced>>

\* The critical section of Del; keyLru.remove calls onEvict.
DelLocked(p, k) ==
    /\ \/ p \in Callers /\ pc[p] = "idle"
       \/ p \in Expirers /\ pc[p] = "del" /\ key[p] = k
    /\ data' = [data EXCEPT ![k] = None]
    /\ lru' = Remove(lru, k)
    /\ armed' = IF Contains(lru, k) THEN armed \ {k} ELSE armed
    /\ key' = [key EXCEPT ![p] = k]
    /\ pc' = [pc EXCEPT ![p] = "remove"]
    /\ UNCHANGED <<had, fresh, result, flight, fetched, raced>>

\* Del removes the timer after it released the lock.
RemoveTimer(p) ==
    /\ pc[p] = "remove"
    /\ armed' = armed \ {key[p]}
    /\ raced' = IF key[p] \in armed /\ data[key[p]] # None THEN raced \cup {key[p]} ELSE raced
    /\ pc' = [pc EXCEPT ![p] = "idle"]
    /\ key' = [key EXCEPT ![p] = None]
    /\ UNCHANGED <<store, had, fresh, result, flight, fetched>>

-----------------------------------------------------------------------------
(* Get and Take *)

\* doGet hits, for Get and for the first look of Take.
GetHits(c, k) ==
    /\ pc[c] = "idle" /\ data[k] # None
    /\ Get(k)
    /\ UNCHANGED <<data, armed, pc, locals, flight, fetched, raced>>

TakeMisses(c, k) ==
    /\ pc[c] = "idle" /\ data[k] = None
    /\ pc' = [pc EXCEPT ![c] = "barrier"]
    /\ key' = [key EXCEPT ![c] = k]
    /\ UNCHANGED <<store, armed, had, fresh, result, flight, fetched, raced>>

EnterBarrier(c) ==
    /\ pc[c] = "barrier"
    /\ IF flight[key[c]] = None
       THEN /\ flight' = [flight EXCEPT ![key[c]] = c]
            /\ pc' = [pc EXCEPT ![c] = "check"]
       ELSE /\ pc' = [pc EXCEPT ![c] = "wait"]
            /\ UNCHANGED flight
    /\ UNCHANGED <<store, armed, locals, fetched, raced>>

\* The owner's function returned r: the barrier hands it to everybody in the flight.
Land(c, r) ==
    LET all == {c} \cup {d \in Callers : pc[d] = "wait" /\ key[d] = key[c]} IN
    /\ flight' = [flight EXCEPT ![key[c]] = None]
    /\ pc' = [p \in Procs |-> IF p \in all THEN "return" ELSE pc[p]]
    /\ result' = [d \in Callers |-> IF d \in all THEN r ELSE result[d]]

\* The double check finds what another call has put there.
CheckHits(c) ==
    /\ pc[c] = "check" /\ data[key[c]] # None
    /\ Get(key[c])
    /\ Land(c, data[key[c]])
    /\ UNCHANGED <<data, armed, key, had, fresh, fetched, raced>>

CheckMisses(c) ==
    /\ pc[c] = "check" /\ data[key[c]] = None
    /\ pc' = [pc EXCEPT ![c] = "fetch"]
    /\ UNCHANGED <<store, armed, locals, flight, fetched, raced>>

\* fetch returned an error, or it panicked: the owner unwinds, and those who wait
\* get nil without an error.
FetchFails(c, r) ==
    /\ pc[c] = "fetch"
    /\ Land(c, r)
    /\ UNCHANGED <<store, armed, key, had, fresh, fetched, raced>>

FetchSucceeds(c, v) ==
    /\ pc[c] = "fetch"
    /\ fresh' = [fresh EXCEPT ![c] = TRUE]
    /\ result' = [result EXCEPT ![c] = v]
    /\ fetched' = fetched + 1
    /\ pc' = [pc EXCEPT ![c] = "set"]
    /\ UNCHANGED <<store, armed, key, had, flight, raced>>

\* Set as called by the owner: its critical section, then the timer.
TakeSets(c) ==
    /\ pc[c] = "set"
    /\ Put(key[c], result[c])
    /\ had' = [had EXCEPT ![c] = data[key[c]] # None]
    /\ pc' = [pc EXCEPT ![c] = "timer"]
    /\ UNCHANGED <<key, fresh, result, flight, fetched, raced>>

TakeTimes(c) ==
    /\ pc[c] = "timer" /\ flight[key[c]] = c
    /\ StartTimer(c)
    /\ Land(c, result[c])
    /\ had' = [had EXCEPT ![c] = FALSE]
    /\ UNCHANGED <<store, key, fresh, fetched>>

\* Take counts a miss when its own call fetched.
Misses(c) == result[c] # Err /\ fresh[c]

TakeReturns(c) ==
    /\ pc[c] = "return"
    /\ fetched' = IF Misses(c) THEN fetched - 1 ELSE fetched
    /\ pc' = [pc EXCEPT ![c] = "idle"]
    /\ key' = [key EXCEPT ![c] = None]
    /\ fresh' = [fresh EXCEPT ![c] = FALSE]
    /\ result' = [result EXCEPT ![c] = None]
    /\ UNCHANGED <<store, armed, had, flight, raced>>

-----------------------------------------------------------------------------
Call(c) ==
    \E k \in Keys :
        \/ \E v \in Values : SetCall(c, k, v)
        \/ DelLocked(c, k)
        \/ GetHits(c, k)
        \/ TakeMisses(c, k)

CallerStep(c) ==
    \/ SetReturns(c) \/ RemoveTimer(c)
    \/ EnterBarrier(c) \/ CheckHits(c) \/ CheckMisses(c) 
    \/ \E r \in {Err, None} : FetchFails(c, r)
    \/ \E v \in Values : FetchSucceeds(c, v)
    \/ TakeSets(c) \/ TakeTimes(c) \/ TakeReturns(c)

ExpirerStep(e) == RemoveTimer(e) \/ \E k \in Keys : DelLocked(e, k)

Next ==
    \/ \E c \in Callers : Call(c) \/ CallerStep(c)
    \/ \E e \in Expirers : ExpirerStep(e) \/ \E k \in Keys : Expire(e, k)

Spec == Init /\ [][Next]_vars

\* Goroutines are scheduled and fetch returns.
FairSpec ==
    /\ Spec
    /\ \A c \in Callers : WF_vars(CallerStep(c))
    /\ \A e \in Expirers : WF_vars(ExpirerStep(e))

-----------------------------------------------------------------------------
\* With a limit, the LRU list and the data have the same keys, each once, and not
\* more of them than the limit, whatever Set, Del, eviction and expiry did.
LruMatchesData ==
    Limit > 0 =>
        /\ Len(lru) <= Limit
        /\ \A i, j \in 1..Len(lru) : lru[i] = lru[j] => i = j
        /\ \A k \in Keys : Contains(lru, k) <=> data[k] # None

\* Every successful fetch is counted as one miss: by the goroutine whose function
\* ran, and not by those that shared its result.
MissesAreFetches ==
    fetched = Cardinality({c \in Callers : fresh[c]})

\* Busy(k): somebody is on the way to delete k, or to start its timer.
Busy(k) ==
    \/ \E p \in Procs : key[p] = k /\ pc[p] \in {"del", "remove"}
    \/ \E c \in Callers : key[c] = k /\ pc[c] = "timer" /\ ~had[c]

\* Data without a timer comes from one race only: a Set between the two halves of
\* a Del, whose RemoveTimer then removes the new timer.
OnlyDelRaceLeaks ==
    \A k \in Keys : data[k] # None /\ k \notin armed /\ ~Busy(k) => k \in raced

\* Everything that is set expires: data that nobody is working on has a timer.
EntriesExpire ==
    \A k \in Keys : data[k] # None /\ ~Busy(k) => k \in armed

\* Every Take returns, the owner's and those of the goroutines that wait for it.
TakesReturn ==
    \A c \in Callers : pc[c] \in {"barrier", "wait"} ~> pc[c] = "idle"

\* Data, LRU list, wheel and statistics stay together through Set, Take, Del, eviction and expiry,
\* but for the timer that the race of Del loses.
CacheKeepsTrack == LruMatchesData /\ MissesAreFetches /\ OnlyDelRaceLeaks
=============================================================================
