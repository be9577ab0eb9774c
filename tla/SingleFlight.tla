---------------------------- MODULE SingleFlight ----------------------------
(***************************************************************************)
(* flightGroup of core/syncx/singleflight.go: concurrent calls of Do/DoEx  *)
(* with one key share the result of a single execution of fn.              *)
(*                                                                         *)
(* Go's mutex g.lock makes createCall's lookup-or-insert and makeCall's    *)
(* delete atomic; everything between them interleaves.  A *call object is  *)
(* a number, handed out in order; `flight` is the heap of those objects.   *)
(*                                                                         *)
(* Below it, Do of core/syncx/lockedcalls.go: calls with the same key, one *)
(* after the other.                                                        *)
(***************************************************************************)
EXTENDS Naturals

CONSTANTS
    Callers,     \* goroutines that call Do or DoEx
    Keys,        \* keys of the calls map
    Values,      \* pairs (val, err) that fn may return
    Nil,         \* the zero (val, err) of a new call object: nil, nil
    None,        \* no call object
    MaxFlights   \* bound on the number of call objects created

ASSUME SingleFlightAssumption ==
    /\ MaxFlights \in Nat
    /\ None \notin Nat
    /\ None \notin Keys
    /\ Nil \notin Values

VARIABLES
    calls,       \* g.calls: key -> call object in flight, or None
    flight,      \* call objects: wg counter, result, and ghost fields
    flights,     \* number of call objects created so far
    pc,          \* where each goroutine is
    key,         \* key each goroutine called Do with
    ref,         \* call object each goroutine holds (local variable c)
    result,      \* what the last Do of each goroutine returned
    ended,       \* ghost: flights whose owner had passed wg.Done when Do was invoked
    \* LockedCalls; a WaitGroup is known by the caller that made it
    locked,      \* lg.m: per key the caller whose WaitGroup is stored
    lockedPc,
    lockedKey,   \* the key of the call
    on           \* the WaitGroup a caller waits on

vars == <<calls, flight, flights, pc, key, ref, result, ended>>

Flights == 1..MaxFlights

Results == Values \cup {Nil}

\* wg: the WaitGroup counter; val: (val, err); returned: ghost, fn returned (it
\* did not panic); key: ghost, the key the call was created for.
Flight == [wg: {0, 1}, val: Results, returned: BOOLEAN, key: Keys \cup {None}]

NewFlight == [wg |-> 0, val |-> Nil, returned |-> FALSE, key |-> None]

\* from: the call object the result was read from; fresh: DoEx's second result.
Result == [val: Results, fresh: BOOLEAN, from: Flights \cup {None}]

NoResult == [val |-> Nil, fresh |-> FALSE, from |-> None]

Labels == {"idle", "create", "wait", "run", "delete", "done"}

TypeOK ==
    /\ calls \in [Keys -> Flights \cup {None}]
    /\ flight \in [Flights -> Flight]
    /\ flights \in 0..MaxFlights
    /\ pc \in [Callers -> Labels]
    /\ key \in [Callers -> Keys \cup {None}]
    /\ ref \in [Callers -> Flights \cup {None}]
    /\ result \in [Callers -> Result]
    /\ ended \in [Callers -> SUBSET Flights]

Init ==
    /\ calls = [k \in Keys |-> None]
    /\ flight = [f \in Flights |-> NewFlight]
    /\ flights = 0
    /\ pc = [c \in Callers |-> "idle"]
    /\ key = [c \in Callers |-> None]
    /\ ref = [c \in Callers |-> None]
    /\ result = [c \in Callers |-> NoResult]
    /\ ended = [c \in Callers |-> {}]

-----------------------------------------------------------------------------
Goto(c, from, to) == pc[c] = from /\ pc' = [pc EXCEPT ![c] = to]

\* A goroutine enters Do(k, fn) or DoEx(k, fn).
Invoke(c, k) ==
    /\ Goto(c, "idle", "create")
    /\ key' = [key EXCEPT ![c] = k]
    /\ ended' = [ended EXCEPT ![c] = {f \in 1..flights : flight[f].wg = 0}]
    /\ result' = [result EXCEPT ![c] = NoResult]
    /\ UNCHANGED <<calls, flight, flights, ref>>

\* createCall finds a call in flight: it unlocks and goes to c.wg.Wait().
JoinCall(c) ==
    /\ Goto(c, "create", "wait")
    /\ calls[key[c]] # None
    /\ ref' = [ref EXCEPT ![c] = calls[key[c]]]
    /\ UNCHANGED <<calls, flight, flights, key, result, ended>>

\* createCall finds no call: it inserts a new one with wg.Add(1).
CreateCall(c) ==
    /\ Goto(c, "create", "run")
    /\ calls[key[c]] = None
    /\ flights < MaxFlights
    /\ flights' = flights + 1
    /\ flight' = [flight EXCEPT ![flights + 1] = [NewFlight EXCEPT !.wg = 1, !.key = key[c]]]
    /\ calls' = [calls EXCEPT ![key[c]] = flights + 1]
    /\ ref' = [ref EXCEPT ![c] = flights + 1]
    /\ UNCHANGED <<key, result, ended>>

\* makeCall: fn returns v, stored in c.val, c.err.
FnReturns(c, v) ==
    /\ Goto(c, "run", "delete")
    /\ flight' = [flight EXCEPT ![ref[c]].val = v, ![ref[c]].returned = TRUE]
    /\ UNCHANGED <<calls, flights, key, ref, result, ended>>

\* makeCall: fn panics; c.val and c.err keep their zero values and the deferred
\* function runs all the same.
FnPanics(c) ==
    /\ Goto(c, "run", "delete")
    /\ UNCHANGED <<calls, flight, flights, key, ref, result, ended>>

\* Mutant of DeleteCall: the finished call stays in the map.
DeleteCallForgets(c) ==
    /\ Goto(c, "delete", "done")
    /\ UNCHANGED <<calls, flight, flights, key, ref, result, ended>>

\* The deferred function of makeCall, part 1: delete the key under the lock.
DeleteCall(c) ==
    /\ Goto(c, "delete", "done")
    /\ calls' = [calls EXCEPT ![key[c]] = None]
    /\ UNCHANGED <<flight, flights, key, ref, result, ended>>

Return(c, fresh) ==
    result' = [result EXCEPT ![c] = [val |-> flight[ref[c]].val, fresh |-> fresh,
                                     from |-> ref[c]]]

LeaveDo(c) ==
    /\ ref' = [ref EXCEPT ![c] = None]
    /\ key' = [key EXCEPT ![c] = None]
    /\ ended' = [ended EXCEPT ![c] = {}]

\* The deferred function, part 2: c.wg.Done(); then Do returns, or goes on
\* panicking when fn did.
WgDone(c) ==
    /\ Goto(c, "done", "idle")
    /\ flight' = [flight EXCEPT ![ref[c]].wg = 0]
    /\ IF flight[ref[c]].returned THEN Return(c, TRUE) ELSE UNCHANGED result
    /\ LeaveDo(c)
    /\ UNCHANGED <<calls, flights>>

\* A joined call: c.wg.Wait() returns once the counter is zero, and Do returns
\* the shared values.
WgWait(c) ==
    /\ Goto(c, "wait", "idle")
    /\ flight[ref[c]].wg = 0
    /\ Return(c, FALSE)
    /\ LeaveDo(c)
    /\ UNCHANGED <<calls, flight, flights>>

Step(c) ==
    \/ JoinCall(c)
    \/ CreateCall(c)
    \/ \E v \in Values : FnReturns(c, v)
    \/ FnPanics(c)
    \/ DeleteCall(c)
    \/ WgDone(c)
    \/ WgWait(c)

Next == \E c \in Callers : Step(c) \/ \E k \in Keys : Invoke(c, k)

Spec == Init /\ [][Next]_vars

\* A goroutine inside Do keeps running and fn terminates.
FairSpec == Spec /\ \A c \in Callers : WF_vars(Step(c))

-----------------------------------------------------------------------------
Executing(c) == pc[c] \in {"run", "delete"}

\* While one goroutine executes fn for a key no other one does: the calls map
\* admits one makeCall per key until its deferred delete.
OneExecutionPerKey ==
    \A c, d \in Callers : Executing(c) /\ Executing(d) /\ key[c] = key[d] => c = d

\* A goroutine never joins a flight whose owner had returned before this
\* goroutine called Do: the deferred function deletes the key before wg.Done, so
\* a result is always computed by an execution that overlaps the call of Do.
NoStaleResult ==
    \A c \in Callers : ref[c] # None => ref[c] \notin ended[c]

\* Everybody waits only for a flight that someone is still working on, so
\* wg.Wait cannot hang: the owner has not passed wg.Done yet.
WaiterHasOwner ==
    \A c \in Callers : pc[c] = "wait" /\ flight[ref[c]].wg = 1 =>
        \E d \in Callers : ref[d] = ref[c] /\ pc[d] \in {"run", "delete", "done"}

\* Goroutines that were in one flight returned the same (val, err), and DoEx
\* reported fresh to at most one of them.
SharersAgree ==
    \A c, d \in Callers : c # d /\ result[c].from # None /\ result[c].from = result[d].from =>
        /\ result[c].val = result[d].val
        /\ ~(result[c].fresh /\ result[d].fresh)

\* What createCall and makeCall promise together: one execution per key at a time, whose result goes
\* to those that called while it ran, to all of them the same, and who waits has an owner.
FlightsAreShared == OneExecutionPerKey /\ NoStaleResult /\ WaiterHasOwner /\ SharersAgree

\* A goroutine that joined a flight gets out of wg.Wait, if fn terminates.
WaitersReturn ==
    \A c \in Callers : (pc[c] = "wait") ~> (pc[c] = "idle")
-----------------------------------------------------------------------------
\* LockedCalls.
LockedCallsAssumption == None \notin Callers \cup Keys

lockedVars == <<locked, lockedPc, lockedKey, on>>

LockedTypeOK ==
    /\ locked \in [Keys -> Callers \cup {None}]
    /\ lockedPc \in [Callers -> {"idle", "begin", "wait", "fn", "delete", "done"}]
    /\ lockedKey \in [Callers -> Keys \cup {None}]
    /\ on \in [Callers -> Callers \cup {None}]

LockedInit ==
    /\ locked = [k \in Keys |-> None]
    /\ lockedPc = [c \in Callers |-> "idle"]
    /\ lockedKey = [c \in Callers |-> None]
    /\ on = [c \in Callers |-> None]

LockedGo(c, l) == lockedPc' = [lockedPc EXCEPT ![c] = l]

LockedCall(c, k) ==
    /\ lockedPc[c] = "idle"
    /\ lockedKey' = [lockedKey EXCEPT ![c] = k] /\ LockedGo(c, "begin")
    /\ UNCHANGED <<locked, on>>

\* The critical section of Do: wait for the WaitGroup found, or makeCall.
LockedJoin(c) ==
    /\ lockedPc[c] = "begin" /\ locked[lockedKey[c]] # None
    /\ on' = [on EXCEPT ![c] = locked[lockedKey[c]]] /\ LockedGo(c, "wait")
    /\ UNCHANGED <<locked, lockedKey>>

LockedMakeCall(c) ==
    /\ lockedPc[c] = "begin" /\ locked[lockedKey[c]] = None
    /\ locked' = [locked EXCEPT ![lockedKey[c]] = c] /\ LockedGo(c, "fn")
    /\ UNCHANGED <<lockedKey, on>>

\* wg.Wait returns, and goto begin.
LockedAwake(c) ==
    /\ lockedPc[c] = "wait" /\ on[c] = None
    /\ LockedGo(c, "begin")
    /\ UNCHANGED <<locked, lockedKey, on>>

\* fn returns or panics; the deferred function deletes the key and then calls wg.Done.
LockedFnReturns(c) ==
    /\ lockedPc[c] = "fn"
    /\ LockedGo(c, "delete")
    /\ UNCHANGED <<locked, lockedKey, on>>

LockedDelete(c) ==
    /\ lockedPc[c] = "delete"
    /\ locked' = [locked EXCEPT ![lockedKey[c]] = None] /\ LockedGo(c, "done")
    /\ UNCHANGED <<lockedKey, on>>

LockedDone(c) ==
    /\ lockedPc[c] = "done"
    /\ lockedKey' = [lockedKey EXCEPT ![c] = None] /\ LockedGo(c, "idle")
    /\ on' = [w \in Callers |-> IF on[w] = c THEN None ELSE on[w]]
    /\ UNCHANGED locked

LockedStep(c) ==
    \/ LockedJoin(c) \/ LockedMakeCall(c) \/ LockedAwake(c)
    \/ LockedFnReturns(c) \/ LockedDelete(c) \/ LockedDone(c)

LockedNext == \E c \in Callers : LockedStep(c) \/ \E k \in Keys : LockedCall(c, k)

LockedSpec == LockedInit /\ [][LockedNext]_lockedVars
-----------------------------------------------------------------------------
\* Calls with the same key are executed one after the other.
Sequential ==
    \A c, d \in Callers :
        c # d /\ lockedPc[c] = "fn" /\ lockedPc[d] = "fn" => lockedKey[c] # lockedKey[d]

\* A caller waits for a call with its key that is still going on: when it ends the caller is
\* released, also if the owner of the call has made others meanwhile.
WaiterHasCall ==
    \A c \in Callers :
        lockedPc[c] = "wait" /\ on[c] # None =>
            lockedPc[on[c]] \in {"fn", "delete", "done"} /\ lockedKey[on[c]] = lockedKey[c]
=============================================================================
