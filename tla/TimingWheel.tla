----------------------------- MODULE TimingWheel -----------------------------
(***************************************************************************)
(* TimingWheel of core/collection/timingwheel.go.                          *)
(*                                                                         *)
(* The goroutine of run owns the wheel: each case of its select is one     *)
(* action, which is also the call of the client that sends to the channel, *)
(* since the channels are not buffered.  A delay is the number of whole    *)
(* intervals in it, 0 for one shorter than the interval.  A *timingEntry   *)
(* is a member of Items; entry is the heap that holds the entries in use.  *)
(***************************************************************************)
EXTENDS Naturals, FiniteSets, TLC

CONSTANTS
    Keys, Values,
    Items,      \* addresses of entries: a bound on the entries in use
    NumSlots,   \* tw.numSlots
    MaxSteps,   \* longest delay, in intervals
    None

Slots == 0..(NumSlots - 1)

Position == [pos: Slots, item: Items]

ASSUME WheelAssumption ==
    /\ NumSlots \in Nat \ {0}
    /\ MaxSteps \in Nat \ {0}
    /\ None \notin Position
    /\ None \notin [left: Nat, value: Values]

VARIABLES
    tickedPos,  \* tw.tickedPos
    slots,      \* tw.slots: the entries in the list of each slot
    entry,      \* the entries in use
    timers,     \* tw.timers: per key its positionEntry
    fired,      \* <<key, value>> pairs that the last step handed to execute or fn
    stopped,    \* is stopChannel closed?
    running     \* has run not returned?

wheel == <<tickedPos, slots, entry, timers>>
vars  == <<wheel, fired, stopped, running>>

Entry == [key: Keys, value: Values, circle: Nat, diff: Nat, removed: BOOLEAN]

TypeOK ==
    /\ tickedPos \in Slots
    /\ slots \in [Slots -> SUBSET Items]
    /\ DOMAIN entry \subseteq Items
    /\ entry \in [DOMAIN entry -> Entry]
    /\ timers \in [Keys -> Position \cup {None}]
    /\ fired \subseteq Keys \X Values
    /\ stopped \in BOOLEAN
    /\ running \in BOOLEAN
    /\ ~running => stopped

Init ==
    /\ tickedPos = NumSlots - 1
    /\ slots = [s \in Slots |-> {}]
    /\ entry = [i \in {} |-> None]
    /\ timers = [k \in Keys |-> None]
    /\ fired = {}
    /\ stopped = FALSE
    /\ running = TRUE

InWheel(i) == \E s \in Slots : i \in slots[s]

\* Mutant of Circle: off by one.
CircleOffByOne(steps) == steps \div NumSlots

\* getPositionAndCircle
Pos(steps)    == (tickedPos + steps) % NumSlots
Circle(steps) == (steps - 1) \div NumSlots

-----------------------------------------------------------------------------
\* PushBack of a new entry to slots[pos], and setTimerPosition; the entry that
\* timers had for the key is removed, or dropped when no list holds it.
Push(i, pos, e) ==
    LET old == {x \in DOMAIN entry : timers[e.key] # None /\ x = timers[e.key].item} IN
    /\ i \in Items \ DOMAIN entry
    /\ entry' = [x \in {y \in DOMAIN entry : y \in old => InWheel(y)} \cup {i} |->
                    IF x = i THEN e
                    ELSE IF x \in old THEN [entry[x] EXCEPT !.removed = TRUE]
                    ELSE entry[x]]
    /\ slots' = [slots EXCEPT ![pos] = @ \cup {i}]
    /\ timers' = [timers EXCEPT ![e.key] = [pos |-> pos, item |-> i]]

NewEntry(k, v, circle) ==
    [key |-> k, value |-> v, circle |-> circle, diff |-> 0, removed |-> FALSE]

\* The entry stays in its list and will be put into another one by the scan.
Adjust(k, v, circle, diff) ==
    /\ entry' = [entry EXCEPT ![timers[k].item] =
                    [@ EXCEPT !.value = v, !.circle = circle, !.diff = diff]]
    /\ UNCHANGED <<slots, timers>>

Ahead(k, pos) == pos >= timers[k].pos

\* moveTask for a delay of at least the interval, after setTask stored value v.
MoveTask(k, v, steps) ==
    LET pos == Pos(steps)  circle == Circle(steps) IN
    \/ /\ Ahead(k, pos)
       /\ Adjust(k, v, circle, pos - timers[k].pos)
    \/ /\ ~Ahead(k, pos) /\ circle > 0
       /\ Adjust(k, v, circle - 1, NumSlots + pos - timers[k].pos)
    \/ /\ ~Ahead(k, pos) /\ circle = 0
       /\ \E i \in Items : Push(i, pos, NewEntry(k, v, 0))

SetTimer(k, v, delay) ==
    LET steps == IF delay = 0 THEN 1 ELSE delay IN
    /\ running
    /\ IF timers[k] # None
       THEN MoveTask(k, v, steps)
       ELSE \E i \in Items : Push(i, Pos(steps), NewEntry(k, v, Circle(steps)))
    /\ fired' = {}
    /\ UNCHANGED <<tickedPos, stopped, running>>

MoveTimer(k, delay) ==
    /\ running
    /\ \/ timers[k] = None /\ fired' = {} /\ UNCHANGED wheel
       \/ /\ timers[k] # None /\ delay = 0
          /\ fired' = {<<k, entry[timers[k].item].value>>}
          /\ UNCHANGED wheel
       \/ /\ timers[k] # None /\ delay > 0
          /\ MoveTask(k, entry[timers[k].item].value, delay)
          /\ fired' = {}
          /\ UNCHANGED tickedPos
    /\ UNCHANGED <<stopped, running>>

\* Mutant of RemoveTimer: the entry is not marked.
RemoveTimerUnmarked(k) ==
    /\ running
    /\ timers' = [timers EXCEPT ![k] = None]
    /\ fired' = {}
    /\ UNCHANGED <<tickedPos, slots, entry, stopped, running>>

\* removeTask; an entry that is in no list is garbage then.
RemoveTimer(k) ==
    /\ running
    /\ IF timers[k] = None
       THEN UNCHANGED wheel
       ELSE LET i == timers[k].item IN
            /\ entry' = IF InWheel(i) THEN [entry EXCEPT ![i].removed = TRUE]
                                      ELSE [x \in DOMAIN entry \ {i} |-> entry[x]]
            /\ timers' = [timers EXCEPT ![k] = None]
            /\ UNCHANGED <<tickedPos, slots>>
    /\ fired' = {}
    /\ UNCHANGED <<stopped, running>>

\* drainAll empties the slots and leaves timers alone.
Drain ==
    LET kept == {i \in DOMAIN entry : \E k \in Keys : timers[k] # None /\ timers[k].item = i} IN
    /\ running
    /\ fired' = {<<entry[i].key, entry[i].value>> : i \in {x \in DOMAIN entry : InWheel(x) /\ ~entry[x].removed}}
    /\ slots' = [s \in Slots |-> {}]
    /\ entry' = [i \in kept |-> entry[i]]
    /\ UNCHANGED <<tickedPos, timers, stopped, running>>

NextCircle(e) == [e EXCEPT !.circle = @ - 1]

\* onTick and scanAndRunTasks.  An entry that is put back into the list that is
\* scanned is met again and runs.
Tick ==
    LET now    == (tickedPos + 1) % NumSlots
        To(i)  == (now + entry[i].diff) % NumSlots
        live   == {i \in slots[now] : ~entry[i].removed}
        next   == {i \in live : entry[i].circle > 0}
        moved  == {i \in live \ next : To(i) # now}
        run    == live \ (next \cup moved)
    IN  /\ running
        /\ tickedPos' = now
        /\ fired' = {<<entry[i].key, entry[i].value>> : i \in run}
        /\ slots' = [s \in Slots |-> IF s = now THEN next
                                     ELSE slots[s] \cup {i \in moved : To(i) = s}]
        /\ entry' = [i \in DOMAIN entry \ (run \cup (slots[now] \ live)) |->
                        IF i \in next THEN NextCircle(entry[i])
                        ELSE IF i \in moved THEN [entry[i] EXCEPT !.diff = 0]
                        ELSE entry[i]]
        /\ timers' = [k \in Keys |->
                        IF \E i \in run : entry[i].key = k THEN None
                        ELSE IF \E i \in moved : entry[i].key = k
                        THEN LET i == CHOOSE i \in moved : entry[i].key = k
                             IN  [pos |-> To(i), item |-> i]
                        ELSE timers[k]]
        /\ UNCHANGED <<stopped, running>>

Stop ==
    /\ ~stopped
    /\ stopped' = TRUE
    /\ fired' = {}
    /\ UNCHANGED <<wheel, running>>

\* run sees the closed stopChannel and returns.
RunReturns ==
    /\ running /\ stopped
    /\ running' = FALSE
    /\ fired' = {}
    /\ UNCHANGED <<wheel, stopped>>

Client(k) ==
    \/ \E delay \in 0..MaxSteps : MoveTimer(k, delay) \/ \E v \in Values : SetTimer(k, v, delay)
    \/ RemoveTimer(k)

Next == Tick \/ Drain \/ Stop \/ RunReturns \/ \E k \in Keys : Client(k)

Spec == Init /\ [][Next]_vars

-----------------------------------------------------------------------------
\* A live entry is one that will still run.
Live(i, k) == InWheel(i) /\ entry[i].key = k /\ ~entry[i].removed

\* However often a key was set, moved, removed and drained, at most one of its
\* entries in the lists is live, it is in one list, and timers knows it and where
\* it is, so that moveTask and removeTask act on the entry that will run.
TimersKnowLive ==
    \A i \in DOMAIN entry, k \in Keys : Live(i, k) =>
        /\ timers[k] # None /\ timers[k].item = i
        /\ \A s \in Slots : i \in slots[s] <=> s = timers[k].pos

\* What scanAndRunTasks says where it puts an entry into another list: it cannot
\* be the list it scans.
NeverSameSlot ==
    \A i \in DOMAIN entry : entry[i].diff > 0 =>
        \A s \in Slots : (s + entry[i].diff) % NumSlots # s

\* Ticks until slot s is scanned.
Distance(s) == IF s > tickedPos THEN s - tickedPos ELSE s + NumSlots - tickedPos

\* Ticks until the entry of key k runs, 0 when no list holds it.
Left(k) ==
    LET e == entry[timers[k].item] IN
    IF timers[k].item \in slots[timers[k].pos]
    THEN Distance(timers[k].pos) + e.circle * NumSlots + e.diff
    ELSE 0

Alarm == [k \in Keys |->
            IF timers[k] = None THEN None
            ELSE [left |-> Left(k), value |-> entry[timers[k].item].value]]

\* The wheel is an alarm clock: a key that is set runs on the tick it was set to,
\* once and with its last value, and not after it was removed.  A key that is
\* moved while it runs is right up to one revolution.
Clock == INSTANCE Alarms WITH alarm <- Alarm, Slack <- NumSlots
ImplementsAlarms == Clock!Spec

\* SetTimer and MoveTimer set the alarm to the given delay also while it runs.
ExactClock == INSTANCE Alarms WITH alarm <- Alarm, Slack <- 0
MovesExactly == ExactClock!Spec
-----------------------------------------------------------------------------
\* For TLC: entries, keys and values are alike.
Symmetry == Permutations(Items) \cup Permutations(Keys) \cup Permutations(Values)
=============================================================================
