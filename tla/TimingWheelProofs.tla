------------------------- MODULE TimingWheelProofs -------------------------
(***************************************************************************)
(* TimingWheel for every number of slots, keys, values and entries: timers *)
(* knows the live entries, and the wheel implements Alarms.                *)
(***************************************************************************)
EXTENDS TimingWheel, Integers, TLAPS

\* Entries in lists exist, each is in one list, and diff is less than a revolution.
HeapInv ==
    /\ \A s \in Slots : slots[s] \subseteq DOMAIN entry
    /\ \A s, t \in Slots, i \in Items : i \in slots[s] /\ i \in slots[t] => s = t
    /\ \A i \in DOMAIN entry : entry[i].diff < NumSlots

\* timers holds entries of its key that are not removed.
TimerInv ==
    \A k \in Keys : timers[k] # None =>
        /\ timers[k].item \in DOMAIN entry
        /\ entry[timers[k].item].key = k
        /\ ~entry[timers[k].item].removed

WheelTypes ==
    /\ slots \in [Slots -> SUBSET Items]
    /\ DOMAIN entry \subseteq Items
    /\ entry \in [DOMAIN entry -> Entry]
    /\ timers \in [Keys -> Position \cup {None}]

WheelInv == WheelTypes /\ HeapInv /\ TimerInv /\ TimersKnowLive

IInv == TypeOK /\ WheelInv

-----------------------------------------------------------------------------
(* Arithmetic on the circle of slots *)

\* The remainder is a slot.
LEMMA ModRange ==
    ASSUME NEW a \in Nat PROVE a % NumSlots \in Slots
  BY WheelAssumption DEF Slots

\* A sum of a slot and less than a revolution wraps around at most once.
LEMMA ModWrap ==
    ASSUME NEW a \in 0..(2 * NumSlots - 1)
    PROVE  a % NumSlots = IF a < NumSlots THEN a ELSE a - NumSlots
  BY WheelAssumption

\* A slot that is less than a revolution and more than nothing ahead is another slot.
LEMMA OtherSlot ==
    ASSUME NEW s \in Slots, NEW d \in 1..(NumSlots - 1)
    PROVE  (s + d) % NumSlots # s
  BY ModWrap, WheelAssumption DEF Slots

\* Quotient and remainder make up the number.
LEMMA DivMod ==
    ASSUME NEW a \in Nat, NEW q \in Int, q = a \div NumSlots, NEW r \in Int, r = a % NumSlots
    PROVE  a = NumSlots * q + r /\ q \in Nat /\ r \in 0..(NumSlots - 1)
  <1>1. a = NumSlots * q + r
    BY WheelAssumption, SMTT(30)
  <1>2. q \in Nat /\ r \in 0..(NumSlots - 1)
    BY WheelAssumption
  <1> QED  BY Zenon, <1>1, <1>2

\* Full revolutions do not change the remainder.
LEMMA ModPlus ==
    ASSUME NEW q \in Nat, NEW r \in 0..(NumSlots - 1)
    PROVE  (NumSlots * q + r) % NumSlots = r
  BY WheelAssumption, SMTT(30)

\* getPositionAndCircle: the distance to the position and the revolutions make up
\* the steps.
LEMMA PositionAndCircle ==
    ASSUME tickedPos \in Slots, NEW s \in Nat \ {0}
    PROVE  /\ Pos(s) \in Slots
           /\ Circle(s) \in Nat
           /\ Distance(Pos(s)) \in 1..NumSlots
           /\ Distance(Pos(s)) + Circle(s) * NumSlots = s
  <1> DEFINE q == (s - 1) \div NumSlots
             r == (s - 1) % NumSlots
  <1>1. s - 1 \in Nat /\ q \in Int /\ r \in Int
    BY WheelAssumption
  <1>2. s - 1 = NumSlots * q + r /\ q \in Nat /\ r \in 0..(NumSlots - 1)
    BY Zenon, <1>1, DivMod
  <1> HIDE DEF q, r
  <1>3. NumSlots * (q + 1) = NumSlots * q + NumSlots /\ NumSlots * q = q * NumSlots
        /\ NumSlots * q \in Nat
    BY <1>2, WheelAssumption
  <1>4. Circle(s) = q
    BY Zenon DEF Circle, q
  <1>5. CASE tickedPos + r + 1 < NumSlots
    <2>1. tickedPos + s = NumSlots * q + (tickedPos + r + 1)
      BY <1>2, <1>3, WheelAssumption DEF Slots
    <2>2. Pos(s) = tickedPos + r + 1
      BY <2>1, <1>2, <1>5, ModPlus, WheelAssumption DEF Slots, Pos
    <2> QED  BY <2>2, <1>2, <1>3, <1>4, <1>5, WheelAssumption DEF Distance, Slots
  <1>6. CASE tickedPos + r + 1 >= NumSlots
    <2>1. tickedPos + s = NumSlots * (q + 1) + (tickedPos + r + 1 - NumSlots)
      BY <1>2, <1>3, WheelAssumption DEF Slots
    <2>2. Pos(s) = tickedPos + r + 1 - NumSlots
      <3>1. q + 1 \in Nat /\ tickedPos + r + 1 - NumSlots \in 0..(NumSlots - 1)
        BY <1>2, <1>6, WheelAssumption DEF Slots
      <3> QED  BY Zenon, <3>1, <2>1, ModPlus DEF Pos
    <2> QED  BY <2>2, <1>2, <1>3, <1>4, <1>6, WheelAssumption DEF Distance, Slots
  <1> QED  BY <1>2, <1>5, <1>6, WheelAssumption DEF Slots

-----------------------------------------------------------------------------
(* The operations on the wheel preserve its invariant *)

\* A new entry in a list replaces the one that timers had for its key.
LEMMA PushInv ==
    ASSUME WheelInv, NEW k \in Keys, NEW v \in Values, NEW c \in Nat, NEW p \in Slots,
           NEW i \in Items, Push(i, p, NewEntry(k, v, c))
    PROVE  /\ WheelInv'
           /\ timers' = [timers EXCEPT ![k] = [pos |-> p, item |-> i]]
           /\ entry'[i] = NewEntry(k, v, c) /\ i \in slots'[p]
           /\ \A j \in Keys \ {k} : timers[j] # None =>
                 /\ entry'[timers[j].item] = entry[timers[j].item]
                 /\ timers[j].item \in slots'[timers[j].pos] <=> timers[j].item \in slots[timers[j].pos]
  <1> DEFINE e == NewEntry(k, v, c)
             old == {x \in DOMAIN entry : timers[k] # None /\ x = timers[k].item}
             kept == {y \in DOMAIN entry : y \in old => InWheel(y)}
  <1> USE DEF WheelInv, WheelTypes
  <1>1. e \in Entry /\ e.key = k /\ e.value = v /\ e.diff = 0 /\ ~e.removed
    BY Zenon DEF NewEntry, Entry
  <1>2. /\ i \in Items \ DOMAIN entry
        /\ slots' = [slots EXCEPT ![p] = @ \cup {i}]
        /\ timers' = [timers EXCEPT ![k] = [pos |-> p, item |-> i]]
        /\ entry' = [x \in kept \cup {i} |->
                        IF x = i THEN e
                        ELSE IF x \in old THEN [entry[x] EXCEPT !.removed = TRUE]
                        ELSE entry[x]]
    BY Zenon, <1>1 DEF Push
  <1> HIDE DEF e
  <1>3. /\ DOMAIN entry' = kept \cup {i} /\ i \notin DOMAIN entry
        /\ entry'[i] = e
    BY Zenon, <1>2
  <1>4. ASSUME NEW x \in kept
        PROVE  /\ x \in DOMAIN entry /\ entry'[x] \in Entry
               /\ entry'[x].key = entry[x].key /\ entry'[x].diff = entry[x].diff
               /\ entry'[x].removed = (entry[x].removed \/ x \in old)
               /\ x \notin old => entry'[x] = entry[x]
    BY Zenon, <1>2, <1>4 DEF Entry
  <1>5. \A s \in Slots : \A x : x \in slots'[s] <=> x \in slots[s] \/ (s = p /\ x = i)
    <2> TAKE s \in Slots
    <2>1. slots'[s] = IF s = p THEN slots[s] \cup {i} ELSE slots[s]
      BY Zenon, <1>2
    <2> QED  BY Zenon, <2>1
  <1>6. timers'[k] = [pos |-> p, item |-> i] /\ \A j \in Keys \ {k} : timers'[j] = timers[j]
    BY Zenon, <1>2
  <1>7. WheelTypes'
    <2>1. slots' \in [Slots -> SUBSET Items]
      BY Zenon, <1>2
    <2>2. DOMAIN entry' \subseteq Items /\ entry' \in [DOMAIN entry' -> Entry]
      BY Zenon, <1>1, <1>2, <1>3, <1>4
    <2>3. timers' \in [Keys -> Position \cup {None}]
      BY Zenon, <1>2 DEF Position
    <2> QED  BY Zenon, <2>1, <2>2, <2>3
  <1>8. /\ \A s \in Slots : slots[s] \subseteq kept
        /\ kept \subseteq DOMAIN entry
        /\ \A j \in Keys \ {k} : timers[j] # None => timers[j].item \in kept \ old
    BY DEF HeapInv, InWheel, TimerInv
  <1> HIDE DEF kept, old, WheelInv, WheelTypes
  <1>9. HeapInv'
    <2>1. \A s \in Slots : slots'[s] \subseteq DOMAIN entry'
      BY Zenon, <1>3, <1>5, <1>8
    <2>2. ASSUME NEW s \in Slots, NEW t \in Slots, NEW x \in Items, x \in slots'[s], x \in slots'[t]
          PROVE  s = t
      <3>1. CASE x = i
        BY Zenon, <2>2, <3>1, <1>3, <1>5, <1>8
      <3>2. CASE x # i
        BY <2>2, <3>2, <1>5 DEF HeapInv, WheelInv
      <3> QED  BY Zenon, <3>1, <3>2
    <2>3. \A x \in DOMAIN entry' : entry'[x].diff < NumSlots
      BY <1>1, <1>3, <1>4, WheelAssumption DEF HeapInv, WheelInv
    <2> QED  BY Zenon, <2>1, <2>2, <2>3 DEF HeapInv
  <1>10. TimerInv'
    <2> SUFFICES ASSUME NEW j \in Keys, timers'[j] # None
                 PROVE  /\ timers'[j].item \in DOMAIN entry'
                        /\ entry'[timers'[j].item].key = j
                        /\ ~entry'[timers'[j].item].removed
      BY Zenon DEF TimerInv
    <2>1. CASE j = k
      BY <2>1, <1>1, <1>3, <1>6
    <2>2. CASE j # k
      BY <2>2, <1>3, <1>4, <1>6, <1>8 DEF TimerInv, WheelInv
    <2> QED  BY Zenon, <2>1, <2>2
  <1>11. \A x \in kept : InWheel(x)' <=> InWheel(x)
    BY Zenon, <1>3, <1>5, <1>8 DEF InWheel
  <1>12. TimersKnowLive'
    <2> SUFFICES ASSUME NEW x \in DOMAIN entry', NEW j \in Keys, Live(x, j)'
                 PROVE  /\ timers'[j] # None /\ timers'[j].item = x
                        /\ \A s \in Slots : x \in slots'[s] <=> s = timers'[j].pos
      BY Zenon DEF TimersKnowLive
    <2>1. CASE x = i
      <3>1. j = k /\ timers'[j] = [pos |-> p, item |-> i]
        BY Zenon, <2>1, <1>1, <1>3, <1>6 DEF Live
      <3>2. timers'[j] # None
        BY <3>1, WheelAssumption DEF Position
      <3>3. \A s \in Slots : i \notin slots[s]
        BY Zenon, <1>3, <1>8
      <3> QED  BY <2>1, <3>1, <3>2, <3>3, <1>5
    <2>2. CASE x # i
      <3>1. x \in kept /\ x \notin old /\ Live(x, j)
        BY Zenon, <2>2, <1>3, <1>4, <1>11 DEF Live
      <3>2. /\ timers[j] # None /\ timers[j].item = x
            /\ \A s \in Slots : x \in slots[s] <=> s = timers[j].pos
        BY <3>1, <1>4 DEF TimersKnowLive, WheelInv
      <3>3. j # k
        BY Zenon, <3>1, <3>2, <1>4 DEF old
      <3> QED  BY Zenon, <2>2, <3>2, <3>3, <1>5, <1>6
    <2> QED  BY Zenon, <2>1, <2>2
  <1>13. ASSUME NEW j \in Keys \ {k}, timers[j] # None
         PROVE  /\ entry'[timers[j].item] = entry[timers[j].item]
                /\ timers[j].item \in slots'[timers[j].pos] <=> timers[j].item \in slots[timers[j].pos]
    <2>1. timers[j].item \in kept /\ timers[j].item \notin old /\ timers[j].pos \in Slots
      BY Zenon, <1>13, <1>8 DEF Position, WheelInv, WheelTypes
    <2> QED  BY <2>1, <1>3, <1>4, <1>5, <1>8
  <1>14. i \in slots'[p]
    BY Zenon, <1>5
  <1> QED  BY Zenon, <1>2, <1>3, <1>7, <1>9, <1>10, <1>12, <1>13, <1>14 DEF WheelInv, e

\* circle, diff and value of the entry that timers has for a key change.
LEMMA AdjustInv ==
    ASSUME WheelInv, NEW k \in Keys, timers[k] # None, NEW v \in Values, NEW c \in Nat,
           NEW d \in 0..(NumSlots - 1), Adjust(k, v, c, d)
    PROVE  /\ WheelInv'
           /\ timers' = timers /\ slots' = slots
           /\ entry'[timers[k].item].circle = c /\ entry'[timers[k].item].diff = d
           /\ entry'[timers[k].item].value = v
           /\ \A j \in Keys \ {k} : timers[j] # None =>
                 entry'[timers[j].item] = entry[timers[j].item]
  <1> USE DEF WheelInv, WheelTypes
  <1> DEFINE i == timers[k].item
             e == [entry[i] EXCEPT !.value = v, !.circle = c, !.diff = d]
  <1>1. i \in DOMAIN entry /\ entry[i] \in Entry /\ entry[i].key = k /\ ~entry[i].removed
    BY Zenon DEF TimerInv
  <1>2. /\ e \in Entry /\ e.key = k /\ ~e.removed
        /\ e.circle = c /\ e.diff = d /\ e.value = v
    <2>1. d \in Nat
      BY WheelAssumption
    <2> QED  BY Zenon, <1>1, <2>1 DEF Entry
  <1>3. entry' = [entry EXCEPT ![i] = e] /\ slots' = slots /\ timers' = timers
    BY Zenon DEF Adjust
  <1> HIDE DEF e, i
  <1>4. /\ DOMAIN entry' = DOMAIN entry
        /\ entry'[i] = e /\ \A x \in DOMAIN entry \ {i} : entry'[x] = entry[x]
    BY Zenon, <1>1, <1>3
  <1>5. WheelTypes'
    BY Zenon, <1>2, <1>3, <1>4
  <1>6. HeapInv'
    BY <1>2, <1>3, <1>4, WheelAssumption DEF HeapInv
  <1>7. TimerInv'
    BY <1>2, <1>3, <1>4 DEF TimerInv, i
  <1>8. TimersKnowLive'
    BY <1>1, <1>2, <1>3, <1>4 DEF TimersKnowLive, Live, InWheel
  <1>9. \A j \in Keys \ {k} : timers[j] # None => entry'[timers[j].item] = entry[timers[j].item]
    BY Zenon, <1>1, <1>4 DEF TimerInv
  <1> HIDE DEF WheelInv, WheelTypes
  <1> QED  BY Zenon, <1>2, <1>3, <1>4, <1>5, <1>6, <1>7, <1>8, <1>9 DEF WheelInv, i

\* The entry that timers has for a key is in the list of its position or in none.
LEMMA InItsList ==
    ASSUME WheelInv, NEW k \in Keys, timers[k] # None
    PROVE  /\ timers[k].item \in DOMAIN entry /\ timers[k].pos \in Slots
           /\ InWheel(timers[k].item) <=> timers[k].item \in slots[timers[k].pos]
  <1>1. timers[k].item \in DOMAIN entry /\ timers[k].pos \in Slots
    BY Zenon DEF WheelInv, WheelTypes, TimerInv, Position
  <1>2. InWheel(timers[k].item) => Live(timers[k].item, k)
    BY Zenon DEF WheelInv, TimerInv, Live
  <1>3. InWheel(timers[k].item) => timers[k].item \in slots[timers[k].pos]
    BY Zenon, <1>1, <1>2 DEF WheelInv, TimersKnowLive
  <1> QED  BY Zenon, <1>1, <1>3 DEF InWheel

\* A step that leaves the wheel alone preserves its invariant.
LEMMA StutterInv ==
    ASSUME WheelInv, UNCHANGED wheel PROVE WheelInv'
  <1> USE DEF WheelInv, wheel
  <1>1. WheelTypes'
    BY Zenon DEF WheelTypes
  <1>2. HeapInv'
    BY Zenon DEF HeapInv
  <1>3. TimerInv'
    BY Zenon DEF TimerInv
  <1>4. TimersKnowLive'
    BY DEF TimersKnowLive, Live, InWheel
  <1> QED  BY Zenon, <1>1, <1>2, <1>3, <1>4

\* A removed key has no live entry.
LEMMA RemoveInv ==
    ASSUME WheelInv, NEW k \in Keys, RemoveTimer(k)
    PROVE  /\ WheelInv'
           /\ timers' = [timers EXCEPT ![k] = None] /\ slots' = slots
           /\ \A j \in Keys \ {k} : timers[j] # None =>
                 entry'[timers[j].item] = entry[timers[j].item]
  <1>1. CASE timers[k] = None
    <2>1. UNCHANGED wheel
      BY Zenon, <1>1 DEF RemoveTimer
    <2>2. timers' = [timers EXCEPT ![k] = None]
      BY Zenon, <1>1, <2>1 DEF WheelInv, WheelTypes, wheel
    <2> QED  BY Zenon, <2>1, <2>2, StutterInv DEF wheel
  <1>2. CASE timers[k] # None
    <2> DEFINE i == timers[k].item
    <2>1. /\ entry' = IF InWheel(i) THEN [entry EXCEPT ![i].removed = TRUE]
                                    ELSE [x \in DOMAIN entry \ {i} |-> entry[x]]
          /\ timers' = [timers EXCEPT ![k] = None]
          /\ slots' = slots
      BY Zenon, <1>2 DEF RemoveTimer
    <2>2. i \in DOMAIN entry /\ entry[i] \in Entry /\ entry[i].key = k
      BY Zenon, <1>2 DEF WheelInv, WheelTypes, TimerInv
    <2> HIDE DEF i
    <2>3. /\ DOMAIN entry' \subseteq DOMAIN entry
          /\ \A x \in DOMAIN entry \ {i} : x \in DOMAIN entry' /\ entry'[x] = entry[x]
          /\ InWheel(i) <=> i \in DOMAIN entry'
      BY Zenon, <2>1, <2>2
    <2>4. i \in DOMAIN entry' => entry'[i] = [entry[i] EXCEPT !.removed = TRUE]
      BY Zenon, <2>1, <2>2, <2>3
    <2>5. i \in DOMAIN entry' => /\ entry'[i] \in Entry /\ entry'[i].key = k
                                 /\ entry'[i].diff = entry[i].diff /\ entry'[i].removed
      BY Zenon, <2>2, <2>4 DEF Entry
    <2>6. timers'[k] = None /\ \A j \in Keys \ {k} : timers'[j] = timers[j]
      BY Zenon, <2>1 DEF WheelInv, WheelTypes
    <2>7. WheelTypes'
      <3>1. entry' \in [DOMAIN entry' -> Entry]
        BY Zenon, <2>1, <2>3, <2>5 DEF WheelInv, WheelTypes
      <3> QED  BY Zenon, <2>1, <2>3, <3>1 DEF WheelInv, WheelTypes
    <2>8. HeapInv'
      BY <2>1, <2>2, <2>3, <2>5 DEF WheelInv, HeapInv, InWheel
    <2>9. \A j \in Keys \ {k} : timers[j] # None => timers[j].item \in DOMAIN entry \ {i}
      BY Zenon, <2>2 DEF WheelInv, TimerInv
    <2>10. TimerInv'
      BY <2>3, <2>6, <2>9 DEF WheelInv, TimerInv
    <2>11. TimersKnowLive'
      <3> SUFFICES ASSUME NEW x \in DOMAIN entry', NEW j \in Keys, Live(x, j)'
                   PROVE  /\ timers'[j] # None /\ timers'[j].item = x
                          /\ \A s \in Slots : x \in slots'[s] <=> s = timers'[j].pos
        BY Zenon DEF TimersKnowLive
      <3>1. x # i /\ Live(x, j)
        BY Zenon, <2>1, <2>3, <2>5 DEF Live, InWheel
      <3>2. /\ timers[j] # None /\ timers[j].item = x
            /\ \A s \in Slots : x \in slots[s] <=> s = timers[j].pos
        BY <3>1, <2>3 DEF TimersKnowLive, WheelInv
      <3> QED  BY Zenon, <2>1, <2>6, <3>1, <3>2 DEF i
    <2> QED  BY Zenon, <2>1, <2>3, <2>7, <2>8, <2>9, <2>10, <2>11 DEF WheelInv
  <1> QED  BY Zenon, <1>1, <1>2

\* After drainAll no entry is live, and timers still has its entries.
LEMMA DrainInv ==
    ASSUME WheelInv, Drain
    PROVE  /\ WheelInv'
           /\ timers' = timers
           /\ \A s \in Slots : slots'[s] = {}
           /\ \A k \in Keys : timers[k] # None => entry'[timers[k].item] = entry[timers[k].item]
  <1> DEFINE kept == {i \in DOMAIN entry : \E k \in Keys : timers[k] # None /\ timers[k].item = i}
  <1>1. /\ slots' = [s \in Slots |-> {}]
        /\ entry' = [i \in kept |-> entry[i]]
        /\ timers' = timers
    BY Zenon DEF Drain
  <1>2. /\ kept \subseteq DOMAIN entry
        /\ \A k \in Keys : timers[k] # None => timers[k].item \in kept
    BY Zenon DEF WheelInv, TimerInv
  <1> HIDE DEF kept
  <1>3. DOMAIN entry' = kept /\ \A i \in kept : entry'[i] = entry[i]
    BY Zenon, <1>1
  <1>4. \A s \in Slots : slots'[s] = {}
    BY Zenon, <1>1
  <1>5. WheelTypes'
    BY Zenon, <1>1, <1>2, <1>3 DEF WheelInv, WheelTypes
  <1>6. HeapInv'
    BY Zenon, <1>2, <1>3, <1>4 DEF WheelInv, HeapInv
  <1>7. TimerInv'
    BY Zenon, <1>1, <1>2, <1>3 DEF WheelInv, TimerInv
  <1>8. TimersKnowLive'
    BY Zenon, <1>4 DEF TimersKnowLive, Live, InWheel
  <1> QED  BY Zenon, <1>1, <1>2, <1>3, <1>4, <1>5, <1>6, <1>7, <1>8 DEF WheelInv

-----------------------------------------------------------------------------
(* The scan: what happens to the entries in the list of the tick *)

Now     == (tickedPos + 1) % NumSlots
To(i)   == (Now + entry[i].diff) % NumSlots
LiveNow == {i \in slots[Now] : ~entry[i].removed}
Stays   == {i \in LiveNow : entry[i].circle > 0}
Moves   == {i \in LiveNow \ Stays : To(i) # Now}
Runs    == LiveNow \ (Stays \cup Moves)

\* The entry of a key in the list of the tick is the one in timers; it stays,
\* moves or runs.
LEMMA Scanned ==
    ASSUME TypeOK, WheelInv
    PROVE  /\ Now \in Slots
           /\ \A i \in LiveNow :
                /\ i \in DOMAIN entry /\ entry[i] \in Entry /\ entry[i].diff < NumSlots
                /\ timers[entry[i].key] = [pos |-> Now, item |-> i]
                /\ timers[entry[i].key] # None /\ timers[entry[i].key].item = i
                /\ entry[i].key \in Keys
                /\ To(i) \in Slots
  <1>1. tickedPos \in Slots /\ NumSlots \in Nat \ {0} /\ tickedPos + 1 \in Nat
    BY WheelAssumption DEF TypeOK, Slots
  <1>2. Now \in Slots
    BY Zenon, <1>1, ModRange DEF Now
  <1> SUFFICES ASSUME NEW i \in LiveNow
               PROVE  /\ i \in DOMAIN entry /\ entry[i] \in Entry /\ entry[i].diff < NumSlots
                      /\ timers[entry[i].key] = [pos |-> Now, item |-> i]
                      /\ timers[entry[i].key] # None /\ timers[entry[i].key].item = i
                      /\ entry[i].key \in Keys
                      /\ To(i) \in Slots
    BY Zenon, <1>2
  <1>3. i \in slots[Now] /\ ~entry[i].removed
    BY Zenon DEF LiveNow
  <1>4. i \in DOMAIN entry /\ entry[i] \in Entry /\ entry[i].diff < NumSlots
    BY Zenon, <1>2, <1>3 DEF WheelInv, WheelTypes, HeapInv
  <1>5. entry[i].key \in Keys /\ entry[i].diff \in Nat
    BY Zenon, <1>4 DEF Entry
  <1>6. Live(i, entry[i].key)
    BY Zenon, <1>2, <1>3 DEF Live, InWheel
  <1> DEFINE t == timers[entry[i].key]
  <1>7. t # None /\ t.item = i /\ t.pos = Now
    BY <1>2, <1>3, <1>4, <1>5, <1>6 DEF WheelInv, TimersKnowLive
  <1>8. t \in Position
    BY Zenon, <1>5, <1>7 DEF WheelInv, WheelTypes
  <1>9. t = [pos |-> Now, item |-> i]
    BY Zenon, <1>7, <1>8 DEF Position
  <1>10. To(i) \in Slots
    <2>1. Now + entry[i].diff \in Nat
      BY <1>1, <1>2, <1>5 DEF Slots
    <2> QED  BY Zenon, <2>1, ModRange DEF To
  <1> QED  BY Zenon, <1>4, <1>5, <1>7, <1>9, <1>10

\* What the scan does to the lists, to the entries and to timers.
LEMMA ScanEffect ==
    ASSUME TypeOK, WheelInv, Tick
    PROVE  /\ tickedPos' = Now
           /\ \A s \in Slots : \A i : i \in slots'[s] <=>
                 IF s = Now THEN i \in Stays ELSE i \in slots[s] \/ (i \in Moves /\ To(i) = s)
           /\ DOMAIN entry' = DOMAIN entry \ (Runs \cup (slots[Now] \ LiveNow))
           /\ \A i \in DOMAIN entry' : entry'[i] =
                 IF i \in Stays THEN [entry[i] EXCEPT !.circle = @ - 1]
                 ELSE IF i \in Moves THEN [entry[i] EXCEPT !.diff = 0]
                 ELSE entry[i]
           /\ slots' \in [Slots -> SUBSET Items]
           /\ DOMAIN timers' = Keys /\ timers' = [k \in Keys |-> timers'[k]]
           /\ \A i \in Runs : timers'[entry[i].key] = None
           /\ \A i \in Moves : timers'[entry[i].key] = [pos |-> To(i), item |-> i]
           /\ \A k \in Keys : (~\E i \in Runs \cup Moves : entry[i].key = k) => timers'[k] = timers[k]
  <1>1. /\ tickedPos' = Now
        /\ slots' = [s \in Slots |-> IF s = Now THEN Stays
                                     ELSE slots[s] \cup {i \in Moves : To(i) = s}]
        /\ entry' = [i \in DOMAIN entry \ (Runs \cup (slots[Now] \ LiveNow)) |->
                        IF i \in Stays THEN [entry[i] EXCEPT !.circle = @ - 1]
                        ELSE IF i \in Moves THEN [entry[i] EXCEPT !.diff = 0]
                        ELSE entry[i]]
        /\ timers' = [k \in Keys |->
                        IF \E i \in Runs : entry[i].key = k THEN None
                        ELSE IF \E i \in Moves : entry[i].key = k
                        THEN LET i == CHOOSE i \in Moves : entry[i].key = k
                             IN  [pos |-> To(i), item |-> i]
                        ELSE timers[k]]
    BY Zenon DEF Tick, Now, To, LiveNow, Stays, Moves, Runs, NextCircle
  <1>2. /\ Runs \subseteq LiveNow /\ Moves \subseteq LiveNow /\ Runs \cap Moves = {}
        /\ Stays \subseteq LiveNow /\ LiveNow \subseteq slots[Now]
    BY Zenon DEF Runs, Moves, Stays, LiveNow
  <1>3. /\ Now \in Slots
        /\ \A i, j \in LiveNow : entry[i].key = entry[j].key => i = j
        /\ \A i \in LiveNow : entry[i].key \in Keys
    <2>1. \A i \in LiveNow : timers[entry[i].key].item = i
      BY Zenon, Scanned
    <2> QED  BY <2>1, Scanned, ZenonT(30)
  <1> HIDE DEF Now, To, LiveNow, Stays, Moves, Runs
  <1>4. \A s \in Slots : \A i : i \in slots'[s] <=>
                 IF s = Now THEN i \in Stays ELSE i \in slots[s] \/ (i \in Moves /\ To(i) = s)
    BY Zenon, <1>1
  <1>5. /\ DOMAIN entry' = DOMAIN entry \ (Runs \cup (slots[Now] \ LiveNow))
        /\ \A i \in DOMAIN entry' : entry'[i] =
                 IF i \in Stays THEN [entry[i] EXCEPT !.circle = @ - 1]
                 ELSE IF i \in Moves THEN [entry[i] EXCEPT !.diff = 0]
                 ELSE entry[i]
    BY Zenon, <1>1
  <1>6. slots' \in [Slots -> SUBSET Items]
    BY Zenon, <1>1, <1>2, <1>3 DEF WheelInv, WheelTypes
  <1>7. DOMAIN timers' = Keys /\ timers' = [k \in Keys |-> timers'[k]]
    BY Zenon, <1>1
  <1>8. \A i \in Runs : timers'[entry[i].key] = None
    BY Zenon, <1>1, <1>2, <1>3
  <1>9. ASSUME NEW i \in Moves
        PROVE  timers'[entry[i].key] = [pos |-> To(i), item |-> i]
    <2>1. entry[i].key \in Keys /\ ~\E j \in Runs : entry[j].key = entry[i].key
      BY Zenon, <1>2, <1>3
    <2>2. (CHOOSE j \in Moves : entry[j].key = entry[i].key) = i
      BY Zenon, <1>2, <1>3
    <2> QED  BY Zenon, <1>1, <2>1, <2>2
  <1>10. \A k \in Keys : (~\E i \in Runs \cup Moves : entry[i].key = k) => timers'[k] = timers[k]
    BY Zenon, <1>1
  <1> QED  BY Zenon, <1>1, <1>4, <1>5, <1>6, <1>7, <1>8, <1>9, <1>10

\* The alarm of a key, before and after the scan: an entry in no list is left
\* alone; one in another list stays there; of the list of the tick, an entry loses
\* a revolution, moves, or runs and leaves timers.
LEMMA ScanKey ==
    ASSUME TypeOK, WheelInv, Tick, NEW k \in Keys
    PROVE  LET i == timers[k].item IN
           \/ timers[k] = None /\ timers'[k] = None /\ ~\E x \in Runs : entry[x].key = k
           \/ /\ timers[k] # None /\ timers'[k] = timers[k] /\ timers[k].pos # Now
              /\ i \in DOMAIN entry' /\ entry'[i] = entry[i] /\ i \notin LiveNow
              /\ i \in slots'[timers[k].pos] <=> i \in slots[timers[k].pos]
              /\ ~\E x \in Runs : entry[x].key = k
           \/ /\ timers[k] # None /\ timers'[k] = timers[k] /\ timers[k].pos = Now
              /\ i \in DOMAIN entry' /\ entry'[i] = entry[i] /\ i \notin LiveNow
              /\ i \notin slots'[timers[k].pos] /\ i \notin slots[timers[k].pos]
              /\ ~\E x \in Runs : entry[x].key = k
           \/ /\ i \in Stays /\ timers[k] = [pos |-> Now, item |-> i] /\ timers'[k] = timers[k]
              /\ i \in DOMAIN entry' /\ entry'[i] = [entry[i] EXCEPT !.circle = @ - 1]
              /\ i \in slots'[Now]
              /\ ~\E x \in Runs : entry[x].key = k
           \/ /\ i \in Moves /\ timers[k] = [pos |-> Now, item |-> i]
              /\ timers'[k] = [pos |-> To(i), item |-> i]
              /\ i \in DOMAIN entry' /\ entry'[i] = [entry[i] EXCEPT !.diff = 0]
              /\ i \in slots'[To(i)]
              /\ ~\E x \in Runs : entry[x].key = k
           \/ i \in Runs /\ timers[k] = [pos |-> Now, item |-> i] /\ timers'[k] = None
  <1> DEFINE i == timers[k].item
  <1>1. /\ Runs \subseteq LiveNow /\ Moves \subseteq LiveNow /\ Runs \cap Moves = {}
        /\ Stays \subseteq LiveNow /\ LiveNow \subseteq slots[Now]
        /\ Stays \cap (Runs \cup Moves) = {}
        /\ LiveNow = Stays \cup Moves \cup Runs
    BY Zenon DEF Runs, Moves, Stays, LiveNow
  <1>2. \A x \in LiveNow : entry[x].key = k =>
             timers[k] = [pos |-> Now, item |-> x] /\ timers[k] # None /\ i = x
    BY Zenon, Scanned
  <1>3. CASE timers[k] = None
    BY Zenon, <1>1, <1>2, <1>3, ScanEffect
  <1>4. CASE timers[k] # None /\ i \notin LiveNow
    <2>1. ~\E x \in LiveNow : entry[x].key = k
      BY Zenon, <1>2, <1>4
    <2>2. timers'[k] = timers[k]
      BY Zenon, <1>1, <2>1, ScanEffect
    <2>3. i \in DOMAIN entry /\ ~entry[i].removed /\ timers[k].pos \in Slots
      BY Zenon, <1>4 DEF WheelInv, WheelTypes, TimerInv, Position
    <2>4. i \notin slots[Now]
      BY Zenon, <1>4, <2>3 DEF LiveNow
    <2>5. i \in DOMAIN entry' /\ entry'[i] = entry[i]
      BY Zenon, <1>1, <1>4, <2>3, <2>4, ScanEffect
    <2>6. \A s \in Slots : i \in slots'[s] <=> i \in slots[s]
      BY Zenon, <1>1, <1>4, <2>4, ScanEffect
    <2> QED  BY Zenon, <1>1, <1>4, <2>1, <2>2, <2>3, <2>4, <2>5, <2>6
  <1>5. CASE timers[k] # None /\ i \in LiveNow
    <2>1. entry[i].key = k /\ timers[k] = [pos |-> Now, item |-> i] /\ i \in DOMAIN entry
      BY Zenon, <1>2, <1>5 DEF WheelInv, TimerInv
    <2>2. i \notin Runs => i \in DOMAIN entry'
      BY Zenon, <1>1, <1>5, <2>1, ScanEffect
    <2>3. CASE i \in Runs
      BY <2>1, <2>3, ScanEffect
    <2>4. CASE i \in Stays
      <3>1. ~\E x \in Runs \cup Moves : entry[x].key = k
        BY Zenon, <1>1, <1>2, <2>4
      <3>2. entry'[i] = [entry[i] EXCEPT !.circle = @ - 1]
        BY <1>1, <2>2, <2>4, ScanEffect
      <3>3. i \in slots'[Now]
        BY Zenon, <2>4, ScanEffect, Scanned
      <3>4. timers'[k] = timers[k]
        BY Zenon, <3>1, ScanEffect
      <3> QED  BY Zenon, <1>1, <2>1, <2>2, <2>4, <3>1, <3>2, <3>3, <3>4
    <2>5. CASE i \in Moves
      <3>1. ~\E x \in Runs : entry[x].key = k
        BY Zenon, <1>1, <1>2, <2>5
      <3>2. entry'[i] = [entry[i] EXCEPT !.diff = 0]
        BY Zenon, <1>1, <2>2, <2>5, ScanEffect
      <3>3. i \in slots'[To(i)]
        <4>1. To(i) # Now /\ To(i) \in Slots
          BY Zenon, <1>1, <2>5, Scanned DEF Moves
        <4> QED  BY Zenon, <2>5, <4>1, ScanEffect
      <3>4. timers'[k] = [pos |-> To(i), item |-> i]
        BY Zenon, <2>1, <2>5, ScanEffect
      <3> QED  BY Zenon, <1>1, <2>1, <2>2, <2>5, <3>1, <3>2, <3>3, <3>4
    <2> QED  BY Zenon, <1>1, <1>5, <2>3, <2>4, <2>5
  <1> QED  BY Zenon, <1>3, <1>4, <1>5

\* After the scan timers knows the live entries again.
LEMMA TickInv ==
    ASSUME TypeOK, WheelInv, Tick PROVE WheelInv' /\ tickedPos' \in Slots
  <1>1. /\ Runs \subseteq LiveNow /\ Moves \subseteq LiveNow /\ Runs \cap Moves = {}
        /\ Stays \subseteq LiveNow /\ LiveNow \subseteq slots[Now]
        /\ Stays \cap (Runs \cup Moves) = {}
    BY Zenon DEF Runs, Moves, Stays, LiveNow
  <1>2. /\ Now \in Slots
        /\ \A i \in LiveNow : i \in DOMAIN entry
    BY Zenon, Scanned
  <1>3. DOMAIN entry' = DOMAIN entry \ (Runs \cup (slots[Now] \ LiveNow))
    BY Zenon, ScanEffect
  <1>4. \A s \in Slots : \A i : i \in slots'[s] <=>
            IF s = Now THEN i \in Stays ELSE i \in slots[s] \/ (i \in Moves /\ To(i) = s)
    BY Zenon, ScanEffect
  <1>5. \A s, t \in Slots, i \in Items : i \in slots[s] /\ i \in slots[t] => s = t
    BY Zenon DEF WheelInv, HeapInv
  <1>6. \A s \in Slots : slots[s] \subseteq DOMAIN entry /\ slots[s] \subseteq Items
    BY Zenon DEF WheelInv, HeapInv, WheelTypes
  <1>7. ASSUME NEW i \in DOMAIN entry'
        PROVE  /\ entry'[i] \in Entry /\ entry'[i].key = entry[i].key
               /\ entry'[i].removed = entry[i].removed /\ entry'[i].diff < NumSlots
    <2>1. entry[i] \in Entry /\ entry[i].diff < NumSlots
      BY Zenon, <1>3 DEF WheelInv, WheelTypes, HeapInv
    <2>2. CASE i \in Stays
      <3>1. entry'[i] = [entry[i] EXCEPT !.circle = @ - 1]
        BY Zenon, <2>2, ScanEffect
      <3>2. entry[i].circle \in Nat /\ entry[i].circle > 0
        BY Zenon, <2>1, <2>2 DEF Stays, Entry
      <3> QED  BY <2>1, <3>1, <3>2 DEF Entry
    <2>3. CASE i \in Moves
      <3>1. entry'[i] = [entry[i] EXCEPT !.diff = 0]
        BY Zenon, <1>1, <2>3, ScanEffect
      <3> QED  BY <2>1, <3>1, WheelAssumption DEF Entry
    <2>4. CASE i \notin Stays /\ i \notin Moves
      <3>1. entry'[i] = entry[i]
        BY Zenon, <2>4, ScanEffect
      <3> QED  BY Zenon, <2>1, <3>1
    <2> QED  BY Zenon, <2>2, <2>3, <2>4
  <1>8. ASSUME NEW k \in Keys
         PROVE  LET i == timers[k].item IN
                \/ timers'[k] = None /\ (timers[k] = None \/ i \in Runs)
                \/ /\ timers[k] # None /\ i \in DOMAIN entry'
                   /\ timers'[k] \in Position /\ timers'[k].item = i
                   /\ i \in slots[timers[k].pos] => i \in slots'[timers'[k].pos]
    <2> DEFINE i == timers[k].item
    <2>1. timers[k] # None => timers[k] \in Position
      BY Zenon DEF WheelInv, WheelTypes
    <2>2. CASE timers'[k] = None /\ (timers[k] = None \/ i \in Runs)
      BY Zenon, <2>2
    <2>3. CASE /\ timers[k] # None /\ timers'[k] = timers[k] /\ i \in DOMAIN entry'
               /\ i \in slots'[timers[k].pos] <=> i \in slots[timers[k].pos]
      BY Zenon, <2>1, <2>3
    <2>4. CASE /\ i \in Stays /\ timers[k] = [pos |-> Now, item |-> i] /\ timers'[k] = timers[k]
               /\ i \in DOMAIN entry' /\ i \in slots'[Now]
      <3>1. i \in Items
        BY Zenon, <2>4, <1>1, <1>2, <1>6
      <3>2. timers[k] \in Position /\ timers[k].pos = Now
        BY <2>4, <3>1, <1>2 DEF Position
      <3> QED  BY Zenon, <2>4, <3>2, WheelAssumption
    <2>5. CASE /\ i \in Moves /\ timers[k] = [pos |-> Now, item |-> i]
               /\ timers'[k] = [pos |-> To(i), item |-> i]
               /\ i \in DOMAIN entry' /\ i \in slots'[To(i)]
      <3>1. i \in Items /\ To(i) \in Slots
        BY Zenon, <2>5, <1>1, <1>2, <1>6, Scanned
      <3>2. /\ timers'[k] \in Position /\ timers'[k].pos = To(i) /\ timers'[k].item = i
            /\ timers[k] \in Position
        BY <2>5, <3>1, <1>2 DEF Position
      <3> QED  BY Zenon, <2>5, <3>2, WheelAssumption
    <2> QED  BY Zenon, <2>2, <2>3, <2>4, <2>5, ScanKey
  <1>9. WheelTypes'
    <2>1. entry' \in [DOMAIN entry' -> Entry] /\ DOMAIN entry' \subseteq Items
      <3>1. entry' = [i \in DOMAIN entry' |-> entry'[i]]
        BY Zenon DEF Tick
      <3> QED  BY Zenon, <1>3, <1>7, <3>1 DEF WheelInv, WheelTypes
    <2>2. timers' \in [Keys -> Position \cup {None}]
      <3>1. \A k \in Keys : timers'[k] \in Position \cup {None}
        BY Zenon, <1>8
      <3> QED  BY Zenon, <3>1, ScanEffect
    <2> QED  BY Zenon, <2>1, <2>2, ScanEffect DEF WheelTypes
  <1>10. HeapInv'
    <2>1. \A s \in Slots : slots'[s] \subseteq DOMAIN entry'
      <3> SUFFICES ASSUME NEW s \in Slots, NEW i, i \in slots'[s] PROVE i \in DOMAIN entry'
        OBVIOUS
      <3>1. CASE i \in LiveNow
        BY Zenon, <3>1, <1>1, <1>2, <1>3, <1>4, <1>5, <1>6
      <3>2. CASE i \notin LiveNow
        BY Zenon, <3>2, <1>1, <1>2, <1>3, <1>4, <1>5, <1>6
      <3> QED  BY Zenon, <3>1, <3>2
    <2>2. ASSUME NEW s \in Slots, NEW t \in Slots, NEW i \in Items, i \in slots'[s], i \in slots'[t]
          PROVE  s = t
      <3>1. CASE i \in LiveNow
        BY Zenon, <3>1, <2>2, <1>1, <1>2, <1>4, <1>5
      <3>2. CASE i \notin LiveNow
        BY Zenon, <3>2, <2>2, <1>1, <1>2, <1>4, <1>5
      <3> QED  BY Zenon, <3>1, <3>2
    <2>3. \A i \in DOMAIN entry' : entry'[i].diff < NumSlots
      BY Zenon, <1>7
    <2> QED  BY Zenon, <2>1, <2>2, <2>3 DEF HeapInv
  <1>11. TimerInv'
    <2> SUFFICES ASSUME NEW k \in Keys, timers'[k] # None
                 PROVE  /\ timers'[k].item \in DOMAIN entry'
                        /\ entry'[timers'[k].item].key = k
                        /\ ~entry'[timers'[k].item].removed
      BY Zenon DEF TimerInv
    <2>1. timers[k] # None /\ timers'[k].item = timers[k].item /\ timers[k].item \in DOMAIN entry'
      BY Zenon, <1>8
    <2> QED  BY Zenon, <2>1, <1>7 DEF WheelInv, TimerInv
  <1>12. TimersKnowLive'
    <2> SUFFICES ASSUME NEW x \in DOMAIN entry', NEW j \in Keys, Live(x, j)'
                 PROVE  /\ timers'[j] # None /\ timers'[j].item = x
                        /\ \A s \in Slots : x \in slots'[s] <=> s = timers'[j].pos
      BY Zenon DEF TimersKnowLive
    <2>1. Live(x, j) /\ x \in DOMAIN entry
      BY Zenon, <1>1, <1>2, <1>3, <1>4, <1>7 DEF Live, InWheel
    <2>2. /\ timers[j] # None /\ timers[j].item = x /\ x \in slots[timers[j].pos]
          /\ timers[j].pos \in Slots
      BY <2>1 DEF WheelInv, WheelTypes, TimersKnowLive, Position
    <2>3. x \notin Runs /\ x \in Items
      BY Zenon, <1>3, <1>9 DEF WheelTypes
    <2>4. timers'[j] # None /\ timers'[j].item = x /\ x \in slots'[timers'[j].pos]
      BY Zenon, <2>2, <2>3, <1>8, WheelAssumption
    <2>5. timers'[j].pos \in Slots
      BY Zenon, <2>4, <1>9 DEF WheelTypes, Position
    <2> QED  BY Zenon, <2>3, <2>4, <2>5, <1>10 DEF HeapInv
  <1> QED  BY Zenon, <1>2, <1>9, <1>10, <1>11, <1>12, ScanEffect DEF WheelInv

-----------------------------------------------------------------------------
(* Ticks that are left, before and after a move *)

\* A product of naturals is a natural number.
LEMMA Revolutions ==
    ASSUME NEW c \in Nat PROVE c * NumSlots \in Nat
  BY WheelAssumption

\* An alarm has ticks left exactly when a list holds its entry.
LEMMA LeftPositive ==
    ASSUME TypeOK, WheelInv, NEW k \in Keys, timers[k] # None
    PROVE  /\ Left(k) \in Nat
           /\ Left(k) > 0 <=> timers[k].item \in slots[timers[k].pos]
  <1> DEFINE e == entry[timers[k].item]
  <1>1. timers[k].pos \in Slots /\ tickedPos \in Slots /\ NumSlots \in Nat \ {0}
    BY Zenon, WheelAssumption DEF WheelInv, WheelTypes, Position, TypeOK
  <1>2. Distance(timers[k].pos) \in 1..NumSlots
    BY <1>1 DEF Distance, Slots
  <1>3. e.circle \in Nat /\ e.diff \in Nat
    BY Zenon DEF WheelInv, WheelTypes, TimerInv, Entry
  <1>4. e.circle * NumSlots \in Nat
    BY Zenon, <1>3, Revolutions
  <1> QED  BY <1>1, <1>2, <1>3, <1>4 DEF Left

\* The new deadline of an entry that stays in its list, whose new position is not
\* behind its slot: right, or a revolution late.
LEMMA MovedAhead ==
    ASSUME tickedPos \in Slots, NEW p \in Slots, NEW q \in Slots, q >= p, NEW c \in Nat,
           NEW s \in Nat, Distance(q) + c * NumSlots = s
    PROVE  Distance(p) + c * NumSlots + (q - p) \in {s, s + NumSlots}
  <1>1. c * NumSlots \in Nat /\ NumSlots \in Nat \ {0}
    BY Zenon, Revolutions, WheelAssumption
  <1> DEFINE m == c * NumSlots
  <1> HIDE DEF m
  <1>2. m \in Nat /\ Distance(q) + m = s
    BY Zenon, <1>1 DEF m
  <1>3. Distance(p) + m + (q - p) \in {s, s + NumSlots}
    BY <1>1, <1>2 DEF Distance, Slots
  <1> QED  BY Zenon, <1>3 DEF m

\* The same for a new position behind its slot: right, or a revolution early.
LEMMA MovedBehind ==
    ASSUME tickedPos \in Slots, NEW p \in Slots, NEW q \in Slots, q < p, NEW c \in Nat, c > 0,
           NEW s \in Nat, Distance(q) + c * NumSlots = s
    PROVE  LET d == Distance(p) + (c - 1) * NumSlots + (NumSlots + q - p)
           IN  d = s \/ (d \in 1..s /\ d + NumSlots = s)
  <1> DEFINE m == (c - 1) * NumSlots
  <1>1. m \in Nat /\ NumSlots \in Nat \ {0}
    BY Revolutions, WheelAssumption
  <1>2. c * NumSlots = m + NumSlots
    BY WheelAssumption
  <1> HIDE DEF m
  <1>3. Distance(q) + m + NumSlots = s
    BY <1>1, <1>2 DEF Distance, Slots
  <1>4. LET d == Distance(p) + m + (NumSlots + q - p)
        IN  d = s \/ (d \in 1..s /\ d + NumSlots = s)
    BY <1>1, <1>3 DEF Distance, Slots
  <1> QED  BY Zenon, <1>4 DEF m

\* moveTask: the value is stored, the new deadline is right up to a revolution,
\* and no other key is touched.
LEMMA MoveTaskStep ==
    ASSUME TypeOK, WheelInv, NEW k \in Keys, timers[k] # None, NEW v \in Values,
           NEW s \in 1..MaxSteps, MoveTask(k, v, s), tickedPos' = tickedPos
    PROVE  /\ WheelInv'
           /\ timers'[k] # None /\ entry'[timers'[k].item].value = v
           /\ IF Left(k) > 0
              THEN Left(k)' \in {s, s + NumSlots} \cup {d \in 1..s : d + NumSlots = s}
              ELSE Left(k)' \in {0, s}
           /\ \A j \in Keys \ {k} :
                /\ timers'[j] = timers[j]
                /\ timers[j] # None => /\ Left(j)' = Left(j)
                                       /\ entry'[timers[j].item].value = entry[timers[j].item].value
  <1> DEFINE p == timers[k].pos
             q == Pos(s)
             c == Circle(s)
  <1>1. /\ s \in Nat \ {0} /\ tickedPos \in Slots /\ NumSlots \in Nat \ {0}
        /\ timers[k] \in Position /\ p \in Slots
    BY WheelAssumption DEF TypeOK, WheelInv, WheelTypes, Position
  <1>2. /\ q \in Slots /\ c \in Nat
        /\ Distance(q) \in 1..NumSlots /\ Distance(q) + c * NumSlots = s
    BY Zenon, <1>1, PositionAndCircle
  <1>3. \A x \in Slots : Distance(x)' = Distance(x)
    BY Zenon DEF Distance
  <1>4. Left(k) > 0 <=> timers[k].item \in slots[p]
    BY Zenon, LeftPositive
  <1> HIDE DEF p, q, c
  <1>5. ASSUME NEW x \in Nat, NEW d \in 0..(NumSlots - 1), Adjust(k, v, x, d)
        PROVE  /\ WheelInv' /\ timers' = timers /\ slots' = slots
               /\ entry'[timers[k].item].circle = x /\ entry'[timers[k].item].diff = d
               /\ entry'[timers[k].item].value = v
               /\ \A j \in Keys \ {k} : timers[j] # None =>
                     entry'[timers[j].item] = entry[timers[j].item]
    BY ZenonT(40), <1>5, AdjustInv
  <1>6. CASE q >= p /\ Adjust(k, v, c, q - p)
    <2>1. q - p \in 0..(NumSlots - 1)
      BY <1>1, <1>2, <1>6 DEF Slots
    <2>2. /\ WheelInv' /\ timers' = timers /\ slots' = slots
          /\ entry'[timers[k].item].circle = c /\ entry'[timers[k].item].diff = q - p
          /\ entry'[timers[k].item].value = v
          /\ \A j \in Keys \ {k} : timers[j] # None => entry'[timers[j].item] = entry[timers[j].item]
      BY Zenon, <1>2, <1>6, <2>1, <1>5
    <2>3. Left(k)' = IF timers[k].item \in slots[p] THEN Distance(p) + c * NumSlots + (q - p) ELSE 0
      BY Zenon, <2>2, <1>1, <1>3 DEF Left, p
    <2>4. \A j \in Keys \ {k} : timers[j] # None => Left(j)' = Left(j)
      BY Zenon, <2>2, <1>3, InItsList DEF Left
    <2>5. Distance(p) + c * NumSlots + (q - p) \in {s, s + NumSlots}
      BY Zenon, <1>1, <1>2, <1>6, MovedAhead
    <2> QED  BY Zenon, <1>4, <2>2, <2>3, <2>4, <2>5
  <1>7. CASE q < p /\ c > 0 /\ Adjust(k, v, c - 1, NumSlots + q - p)
    <2>1. NumSlots + q - p \in 0..(NumSlots - 1) /\ c - 1 \in Nat
      BY <1>1, <1>2, <1>7 DEF Slots
    <2>2. /\ WheelInv' /\ timers' = timers /\ slots' = slots
          /\ entry'[timers[k].item].circle = c - 1 /\ entry'[timers[k].item].diff = NumSlots + q - p
          /\ entry'[timers[k].item].value = v
          /\ \A j \in Keys \ {k} : timers[j] # None => entry'[timers[j].item] = entry[timers[j].item]
      BY Zenon, <1>2, <1>7, <2>1, <1>5
    <2>3. Left(k)' = IF timers[k].item \in slots[p]
                     THEN Distance(p) + (c - 1) * NumSlots + (NumSlots + q - p) ELSE 0
      BY Zenon, <2>2, <1>1, <1>3 DEF Left, p
    <2>4. \A j \in Keys \ {k} : timers[j] # None => Left(j)' = Left(j)
      BY Zenon, <2>2, <1>3, InItsList DEF Left
    <2>5. LET d == Distance(p) + (c - 1) * NumSlots + (NumSlots + q - p)
          IN  d = s \/ (d \in 1..s /\ d + NumSlots = s)
      BY <1>1, <1>2, <1>7, MovedBehind
    <2> QED  BY Zenon, <1>4, <2>2, <2>3, <2>4, <2>5
  <1>8. CASE c = 0 /\ \E i \in Items : Push(i, q, NewEntry(k, v, 0))
    <2>1. PICK i \in Items : Push(i, q, NewEntry(k, v, 0))
      BY Zenon, <1>8
    <2>2. /\ WheelInv'
          /\ timers' = [timers EXCEPT ![k] = [pos |-> q, item |-> i]]
          /\ entry'[i] = NewEntry(k, v, 0) /\ i \in slots'[q]
          /\ \A j \in Keys \ {k} : timers[j] # None =>
                /\ entry'[timers[j].item] = entry[timers[j].item]
                /\ timers[j].item \in slots'[timers[j].pos] <=> timers[j].item \in slots[timers[j].pos]
      BY Zenon, <1>2, <2>1, PushInv
    <2>3. /\ timers'[k] = [pos |-> q, item |-> i]
          /\ \A j \in Keys \ {k} : timers'[j] = timers[j]
      BY Zenon, <2>2 DEF WheelInv, WheelTypes
    <2>4. timers'[k] # None /\ timers'[k].item = i /\ timers'[k].pos = q
      BY <2>3, <1>2, WheelAssumption DEF Position
    <2>5. entry'[i].value = v /\ entry'[i].circle = 0 /\ entry'[i].diff = 0
      BY <2>2, SMTT(30) DEF NewEntry
    <2>6. Left(k)' = s
      BY <2>2, <2>4, <2>5, <1>1, <1>2, <1>3, <1>8, SMTT(30) DEF Left
    <2>7. \A j \in Keys \ {k} : timers[j] # None => Left(j)' = Left(j)
      BY <2>2, <2>3, <1>3, InItsList, SMTT(30) DEF Left
    <2> QED  BY Zenon, <2>2, <2>3, <2>4, <2>5, <2>6, <2>7
  <1> QED  BY SMTT(40), <1>6, <1>7, <1>8, <1>1, <1>2 DEF MoveTask, Ahead, p, q, c, Slots

-----------------------------------------------------------------------------
(* The invariant is inductive *)

\* SetTimer of a key without a timer puts one entry into the list of its position.
LEMMA NewTimerStep ==
    ASSUME TypeOK, WheelInv, NEW k \in Keys, NEW v \in Values, NEW s \in 1..MaxSteps,
           \E i \in Items : Push(i, Pos(s), NewEntry(k, v, Circle(s))), tickedPos' = tickedPos
    PROVE  /\ WheelInv'
           /\ timers'[k] # None /\ entry'[timers'[k].item].value = v
           /\ Left(k)' = s
           /\ \A j \in Keys \ {k} :
                /\ timers'[j] = timers[j]
                /\ timers[j] # None => /\ Left(j)' = Left(j)
                                       /\ entry'[timers[j].item].value = entry[timers[j].item].value
  <1> DEFINE q == Pos(s)
             c == Circle(s)
  <1>1. s \in Nat \ {0} /\ tickedPos \in Slots /\ NumSlots \in Nat \ {0}
    BY WheelAssumption DEF TypeOK
  <1>2. /\ q \in Slots /\ c \in Nat
        /\ Distance(q) \in 1..NumSlots /\ Distance(q) + c * NumSlots = s
    BY Zenon, <1>1, PositionAndCircle
  <1>3. \A x \in Slots : Distance(x)' = Distance(x)
    BY Zenon DEF Distance
  <1>4. PICK i \in Items : Push(i, q, NewEntry(k, v, c))
    OBVIOUS
  <1> HIDE DEF q, c
  <1>5. /\ WheelInv'
        /\ timers' = [timers EXCEPT ![k] = [pos |-> q, item |-> i]]
        /\ entry'[i] = NewEntry(k, v, c) /\ i \in slots'[q]
        /\ \A j \in Keys \ {k} : timers[j] # None =>
              /\ entry'[timers[j].item] = entry[timers[j].item]
              /\ timers[j].item \in slots'[timers[j].pos] <=> timers[j].item \in slots[timers[j].pos]
    BY Zenon, <1>2, <1>4, PushInv
  <1>6. /\ timers'[k] = [pos |-> q, item |-> i]
        /\ \A j \in Keys \ {k} : timers'[j] = timers[j]
    BY Zenon, <1>5 DEF WheelInv, WheelTypes
  <1>7. timers'[k] # None /\ timers'[k].item = i /\ timers'[k].pos = q
    BY <1>6, <1>2, WheelAssumption DEF Position
  <1>8. entry'[i].value = v /\ entry'[i].circle = c /\ entry'[i].diff = 0
    BY <1>5 DEF NewEntry
  <1>9. Left(k)' = s
    <2>1. Left(k)' = Distance(q) + c * NumSlots + 0
      BY Zenon, <1>5, <1>7, <1>8, <1>2, <1>3 DEF Left
    <2> QED  BY <2>1, <1>1, <1>2
  <1>10. \A j \in Keys \ {k} : timers[j] # None => Left(j)' = Left(j)
    BY <1>5, <1>6, <1>3, InItsList, SMTT(30) DEF Left
  <1> QED  BY Zenon, <1>5, <1>6, <1>7, <1>8, <1>9, <1>10

\* SetTimer, whose delay is at least an interval after it was rounded up.
LEMMA SetTimerStep ==
    ASSUME TypeOK, WheelInv, NEW k \in Keys, NEW v \in Values, NEW delay \in 0..MaxSteps,
           SetTimer(k, v, delay)
    PROVE  \E s \in 1..MaxSteps :
           /\ WheelInv' /\ fired' = {}
           /\ timers'[k] # None /\ entry'[timers'[k].item].value = v
           /\ IF timers[k] = None THEN Left(k)' = s
              ELSE IF Left(k) > 0
              THEN Left(k)' \in {s, s + NumSlots} \cup {d \in 1..s : d + NumSlots = s}
              ELSE Left(k)' \in {0, s}
           /\ \A j \in Keys \ {k} :
                /\ timers'[j] = timers[j]
                /\ timers[j] # None => /\ Left(j)' = Left(j)
                                       /\ entry'[timers[j].item].value = entry[timers[j].item].value
  <1> DEFINE s == IF delay = 0 THEN 1 ELSE delay
  <1>1. s \in 1..MaxSteps
    BY WheelAssumption
  <1>2. /\ fired' = {} /\ tickedPos' = tickedPos
        /\ timers[k] # None => MoveTask(k, v, s)
        /\ timers[k] = None => \E i \in Items : Push(i, Pos(s), NewEntry(k, v, Circle(s)))
    BY Zenon DEF SetTimer
  <1> HIDE DEF s
  <1> WITNESS s \in 1..MaxSteps
  <1>3. CASE timers[k] # None
    BY Zenon, <1>1, <1>2, <1>3, MoveTaskStep
  <1>4. CASE timers[k] = None
    BY Zenon, <1>1, <1>2, <1>4, NewTimerStep
  <1> QED  BY Zenon, <1>3, <1>4

\* The wheel starts empty.
LEMMA InitIInv == Init => IInv
  <1> SUFFICES ASSUME Init PROVE IInv
    OBVIOUS
  <1> USE DEF Init
  <1>1. TypeOK
    <2>1. tickedPos \in Slots
      BY WheelAssumption DEF Slots
    <2>2. DOMAIN entry = {} /\ entry \in [DOMAIN entry -> Entry]
      OBVIOUS
    <2> QED  BY Zenon, <2>1, <2>2 DEF TypeOK
  <1>2. WheelInv
    BY Zenon, <1>1 DEF TypeOK, WheelInv, WheelTypes, HeapInv, TimerInv, TimersKnowLive
  <1> QED  BY Zenon, <1>1, <1>2 DEF IInv

\* Every case of the select of run preserves the invariant.
LEMMA StepIInv == IInv /\ [Next]_vars => IInv'
  <1> SUFFICES ASSUME IInv, [Next]_vars PROVE IInv'
    OBVIOUS
  <1> USE DEF IInv
  <1>1. ASSUME WheelInv', tickedPos' \in Slots, fired' \subseteq Keys \X Values,
               UNCHANGED <<stopped, running>>
        PROVE  IInv'
    BY Zenon, <1>1 DEF TypeOK, WheelInv, WheelTypes
  <1>2. \A i \in DOMAIN entry : <<entry[i].key, entry[i].value>> \in Keys \X Values
    BY Zenon DEF WheelInv, WheelTypes, Entry
  <1>3. tickedPos \in Slots
    BY Zenon DEF TypeOK
  <1>4. CASE Tick
    <2>1. fired' = {<<entry[i].key, entry[i].value>> : i \in Runs}
      BY Zenon, <1>4 DEF Tick, Now, To, LiveNow, Stays, Moves, Runs
    <2>2. Runs \subseteq DOMAIN entry
      BY Zenon, Scanned DEF Runs
    <2>3. UNCHANGED <<stopped, running>>
      BY Zenon, <1>4 DEF Tick
    <2> QED  BY Zenon, <1>1, <1>2, <1>4, <2>1, <2>2, <2>3, TickInv
  <1>5. CASE Drain
    BY <1>1, <1>2, <1>3, <1>5, DrainInv DEF Drain
  <1>6. CASE Stop
    BY Zenon, <1>6, StutterInv DEF Stop, TypeOK, wheel
  <1>7. CASE RunReturns
    BY Zenon, <1>7, StutterInv DEF RunReturns, TypeOK, wheel
  <1>8. ASSUME NEW k \in Keys, Client(k) PROVE IInv'
    <2>1. CASE RemoveTimer(k)
      BY Zenon, <1>1, <1>3, <2>1, RemoveInv DEF RemoveTimer, wheel
    <2>2. ASSUME NEW delay \in 0..MaxSteps, NEW v \in Values, SetTimer(k, v, delay) PROVE IInv'
      BY Zenon, <1>1, <1>3, <2>2, SetTimerStep DEF SetTimer
    <2>3. ASSUME NEW delay \in 0..MaxSteps, MoveTimer(k, delay) PROVE IInv'
      <3>1. CASE UNCHANGED wheel /\ fired' = {}
        BY Zenon, <1>1, <1>3, <2>3, <3>1, StutterInv DEF MoveTimer, wheel
      <3>2. CASE /\ timers[k] # None /\ UNCHANGED wheel
                 /\ fired' = {<<k, entry[timers[k].item].value>>}
        <4>1. entry[timers[k].item].value \in Values
          BY Zenon, <3>2 DEF WheelInv, WheelTypes, TimerInv, Entry
        <4> QED  BY <1>1, <1>3, <2>3, <3>2, <4>1, StutterInv, SMTT(30) DEF MoveTimer, wheel
      <3>3. CASE /\ timers[k] # None /\ delay > 0
                 /\ MoveTask(k, entry[timers[k].item].value, delay)
                 /\ fired' = {} /\ UNCHANGED tickedPos
        <4>1. entry[timers[k].item].value \in Values /\ delay \in 1..MaxSteps
          BY <3>3, WheelAssumption DEF WheelInv, WheelTypes, TimerInv, Entry
        <4>2. WheelInv'
          BY Zenon, <3>3, <4>1, MoveTaskStep
        <4> QED  BY Zenon, <1>1, <1>3, <2>3, <3>3, <4>2 DEF MoveTimer
      <3> QED  BY Zenon, <2>3, <3>1, <3>2, <3>3 DEF MoveTimer
    <2> QED  BY Zenon, <1>8, <2>1, <2>2, <2>3 DEF Client
  <1>9. CASE UNCHANGED vars
    BY Zenon, <1>1, <1>3, <1>9, StutterInv DEF vars, wheel, TypeOK
  <1> QED  BY Zenon, <1>4, <1>5, <1>6, <1>7, <1>8, <1>9 DEF Next

\* The inductive invariant holds in every reachable state.
LEMMA Inductive == Spec => []IInv
  BY InitIInv, StepIInv, PTL DEF Spec

\* The fields of the wheel keep their types: every slot that getPositionAndCircle
\* and scanAndRunTasks compute is a slot.
THEOREM TypeCorrect == Spec => []TypeOK
  BY Inductive, PTL DEF IInv

\* timers knows every entry that will still run, so that moveTask and removeTask
\* never miss one.
THEOREM LiveEntries == Spec => []TimersKnowLive
  <1>1. IInv => TimersKnowLive
    BY Zenon DEF IInv, WheelInv
  <1> QED  BY <1>1, Inductive, PTL

\* An entry with a diff goes to a list other than the one that is scanned, as the
\* comment in scanAndRunTasks says.
THEOREM OtherList == Spec => []NeverSameSlot
  <1>1. IInv => NeverSameSlot
    <2> SUFFICES ASSUME IInv, NEW i \in DOMAIN entry, entry[i].diff > 0, NEW s \in Slots
                 PROVE  (s + entry[i].diff) % NumSlots # s
      BY Zenon DEF NeverSameSlot
    <2>1. entry[i].diff \in 1..(NumSlots - 1)
      BY WheelAssumption DEF IInv, WheelInv, WheelTypes, HeapInv, Entry
    <2> QED  BY Zenon, <2>1, OtherSlot
  <1> QED  BY <1>1, Inductive, PTL

-----------------------------------------------------------------------------
(* The wheel implements the alarms *)

\* The alarm of a key in terms of timers.
LEMMA AlarmOf ==
    ASSUME TypeOK, WheelInv, NEW k \in Keys
    PROVE  /\ Alarm[k] = None <=> timers[k] = None
           /\ timers[k] # None =>
                /\ Alarm[k] = [left |-> Left(k), value |-> entry[timers[k].item].value]
                /\ Alarm[k].left = Left(k) /\ Alarm[k].value = entry[timers[k].item].value
                /\ entry[timers[k].item].value \in Values /\ Left(k) \in Nat
  <1>1. timers[k] # None => Left(k) \in Nat /\ entry[timers[k].item].value \in Values
    BY Zenon, LeftPositive DEF WheelInv, WheelTypes, TimerInv, Entry
  <1>2. timers[k] # None => [left |-> Left(k), value |-> entry[timers[k].item].value] # None
    BY <1>1, WheelAssumption
  <1> QED  BY Zenon, <1>1, <1>2 DEF Alarm

\* A step that gives one key a new alarm and leaves the others alone.
LEMMA OneAlarm ==
    ASSUME NEW k \in Keys, NEW v, timers'[k] # None, entry'[timers'[k].item].value = v,
           \A j \in Keys \ {k} :
                /\ timers'[j] = timers[j]
                /\ timers[j] # None => /\ Left(j)' = Left(j)
                                       /\ entry'[timers[j].item].value = entry[timers[j].item].value
    PROVE  Alarm' = [Alarm EXCEPT ![k] = [left |-> Left(k)', value |-> v]]
  <1>1. \A j \in Keys \ {k} : Alarm'[j] = Alarm[j]
    BY Zenon DEF Alarm
  <1>2. Alarm'[k] = [left |-> Left(k)', value |-> v]
    BY Zenon DEF Alarm
  <1>3. /\ Alarm = [j \in Keys |-> Alarm[j]]
        /\ Alarm' = [j \in Keys |-> Alarm'[j]]
    BY Zenon DEF Alarm
  <1> HIDE DEF Alarm
  <1> QED  BY <1>1, <1>2, <1>3

\* SetTimer arms the alarm of its key.
LEMMA SetTimerArms ==
    ASSUME TypeOK, WheelInv, NEW k \in Keys, NEW v \in Values, NEW delay \in 0..MaxSteps,
           SetTimer(k, v, delay)
    PROVE  \E s \in 1..MaxSteps : Clock!Set(k, s, v)
  <1>1. PICK s \in 1..MaxSteps :
           /\ fired' = {}
           /\ timers'[k] # None /\ entry'[timers'[k].item].value = v
           /\ IF timers[k] = None THEN Left(k)' = s
              ELSE IF Left(k) > 0
              THEN Left(k)' \in {s, s + NumSlots} \cup {d \in 1..s : d + NumSlots = s}
              ELSE Left(k)' \in {0, s}
           /\ \A j \in Keys \ {k} :
                /\ timers'[j] = timers[j]
                /\ timers[j] # None => /\ Left(j)' = Left(j)
                                       /\ entry'[timers[j].item].value = entry[timers[j].item].value
    BY Zenon, SetTimerStep
  <1>2. Alarm' = [Alarm EXCEPT ![k] = [left |-> Left(k)', value |-> v]]
    BY Zenon, <1>1, OneAlarm
  <1>3. Left(k)' \in Clock!Delays(k, s)
    BY Zenon, <1>1, AlarmOf DEF Clock!Delays, Clock!Around, Clock!Running
  <1> QED  BY Zenon, <1>1, <1>2, <1>3 DEF Clock!Set, Clock!Arm

\* MoveTimer arms it with the same value, sets it off, or finds no timer.
LEMMA MoveTimerArms ==
    ASSUME TypeOK, WheelInv, NEW k \in Keys, NEW delay \in 0..MaxSteps, MoveTimer(k, delay)
    PROVE  \/ Clock!Idle \/ Clock!MoveToNow(k)
           \/ \E s \in 1..MaxSteps : Clock!Move(k, s)
  <1>1. CASE UNCHANGED wheel /\ fired' = {}
    BY Zenon, <1>1 DEF Clock!Idle, Alarm, Left, Distance, wheel
  <1>2. CASE timers[k] # None /\ UNCHANGED wheel /\ fired' = {<<k, entry[timers[k].item].value>>}
    <2>1. Alarm' = Alarm
      BY Zenon, <1>2 DEF Alarm, Left, Distance, wheel
    <2>2. Alarm[k] # None /\ Alarm[k].value = entry[timers[k].item].value
      BY Zenon, <1>2, AlarmOf
    <2>3. fired' = {<<x, Alarm[x].value>> : x \in {k}}
      BY Zenon, <1>2, <2>2
    <2> QED  BY Zenon, <2>1, <2>2, <2>3 DEF Clock!MoveToNow, Clock!FiredBy
  <1>3. CASE /\ timers[k] # None /\ delay > 0
             /\ MoveTask(k, entry[timers[k].item].value, delay)
             /\ fired' = {} /\ UNCHANGED tickedPos
    <2> DEFINE v == entry[timers[k].item].value
    <2>1. /\ v \in Values /\ Alarm[k] # None /\ Alarm[k].left = Left(k) /\ Alarm[k].value = v
          /\ delay \in 1..MaxSteps
      <3>1. delay \in 1..MaxSteps
        BY <1>3, WheelAssumption
      <3> QED  BY Zenon, <1>3, <3>1, AlarmOf
    <2> HIDE DEF v
    <2>2. /\ timers'[k] # None /\ entry'[timers'[k].item].value = v
          /\ IF Left(k) > 0
             THEN Left(k)' \in {delay, delay + NumSlots} \cup {d \in 1..delay : d + NumSlots = delay}
             ELSE Left(k)' \in {0, delay}
          /\ \A j \in Keys \ {k} :
                /\ timers'[j] = timers[j]
                /\ timers[j] # None => /\ Left(j)' = Left(j)
                                       /\ entry'[timers[j].item].value = entry[timers[j].item].value
      BY Zenon, <1>3, <2>1, MoveTaskStep DEF v
    <2>3. Alarm' = [Alarm EXCEPT ![k] = [left |-> Left(k)', value |-> v]]
      BY Zenon, <2>2, OneAlarm
    <2>4. Left(k)' \in Clock!Delays(k, delay)
      BY Zenon, <2>1, <2>2 DEF Clock!Delays, Clock!Around, Clock!Running
    <2>5. Clock!Move(k, delay)
      BY Zenon, <1>3, <2>1, <2>3, <2>4 DEF Clock!Move, Clock!Arm
    <2> QED  BY Zenon, <2>1, <2>5
  <1> QED  BY Zenon, <1>1, <1>2, <1>3 DEF MoveTimer

\* RemoveTimer clears the alarm of its key.
LEMMA RemoveTimerClears ==
    ASSUME TypeOK, WheelInv, NEW k \in Keys, RemoveTimer(k) PROVE Clock!Remove(k)
  <1>1. /\ timers' = [timers EXCEPT ![k] = None] /\ slots' = slots
        /\ \A j \in Keys \ {k} : timers[j] # None => entry'[timers[j].item] = entry[timers[j].item]
        /\ fired' = {} /\ tickedPos' = tickedPos
    BY Zenon, RemoveInv DEF RemoveTimer, wheel
  <1>2. timers'[k] = None /\ \A j \in Keys \ {k} : timers'[j] = timers[j]
    BY Zenon, <1>1 DEF WheelInv, WheelTypes
  <1>3. \A j \in Keys \ {k} : timers[j] # None => Left(j)' = Left(j)
    BY <1>1, <1>2, SMTT(30) DEF Left, Distance
  <1>4. Alarm'[k] = None /\ \A j \in Keys \ {k} : Alarm'[j] = Alarm[j]
    BY <1>1, <1>2, <1>3 DEF Alarm
  <1>5. /\ Alarm = [j \in Keys |-> Alarm[j]]
        /\ Alarm' = [j \in Keys |-> Alarm'[j]]
    BY Zenon DEF Alarm
  <1> HIDE DEF Alarm
  <1>6. Alarm' = [Alarm EXCEPT ![k] = None]
    BY Zenon, <1>4, <1>5
  <1> QED  BY Zenon, <1>1, <1>6 DEF Clock!Remove

\* Drain sets off the alarms with ticks left, and leaves them without any.
LEMMA DrainSetsOff ==
    ASSUME TypeOK, WheelInv, Drain PROVE Clock!Drain
  <1> DEFINE live == {x \in DOMAIN entry : InWheel(x) /\ ~entry[x].removed}
             ringing == {k \in Keys : Clock!Running(k)}
  <1>1. fired' = {<<entry[i].key, entry[i].value>> : i \in live}
    BY Zenon DEF Drain
  <1>2. ASSUME NEW k \in Keys
        PROVE  /\ k \in ringing <=> timers[k] # None /\ Left(k) > 0
               /\ k \in ringing => timers[k].item \in live /\ entry[timers[k].item].key = k
    <2>1. k \in ringing <=> timers[k] # None /\ Left(k) > 0
      BY Zenon, AlarmOf DEF Clock!Running
    <2>2. timers[k] # None /\ Left(k) > 0 =>
             timers[k].item \in live /\ entry[timers[k].item].key = k
      BY Zenon, LeftPositive, InItsList DEF WheelInv, TimerInv
    <2> QED  BY Zenon, <2>1, <2>2
  <1>3. ASSUME NEW i \in live
        PROVE  /\ entry[i].key \in ringing
               /\ timers[entry[i].key].item = i /\ timers[entry[i].key] # None
    <2>1. entry[i].key \in Keys /\ Live(i, entry[i].key)
      BY Zenon DEF WheelInv, WheelTypes, Entry, Live
    <2>2. /\ timers[entry[i].key] # None /\ timers[entry[i].key].item = i
          /\ InWheel(timers[entry[i].key].item)
      BY Zenon, <2>1 DEF WheelInv, TimersKnowLive
    <2>3. Left(entry[i].key) > 0
      BY Zenon, <2>1, <2>2, LeftPositive, InItsList
    <2> QED  BY Zenon, <2>1, <2>2, <2>3, <1>2
  <1>4. Clock!FiredBy(ringing)
    <2>1. ASSUME NEW z \in fired' PROVE z \in {<<k, Alarm[k].value>> : k \in ringing}
      <3>1. PICK i \in live : z = <<entry[i].key, entry[i].value>>
        BY Zenon, <1>1, <2>1
      <3>2. entry[i].key \in Keys /\ Alarm[entry[i].key].value = entry[i].value
        BY Zenon, <1>3, AlarmOf
      <3> HIDE DEF ringing, live
      <3> QED  BY Zenon, <1>3, <3>1, <3>2
    <2>2. ASSUME NEW k \in ringing PROVE <<k, Alarm[k].value>> \in fired'
      <3>1. /\ timers[k].item \in live /\ entry[timers[k].item].key = k
            /\ Alarm[k].value = entry[timers[k].item].value
        BY Zenon, <1>2, AlarmOf
      <3> HIDE DEF live
      <3> QED  BY Zenon, <1>1, <3>1
    <2> QED  BY Zenon, <2>1, <2>2 DEF Clock!FiredBy
  <1>5. /\ timers' = timers
        /\ \A s \in Slots : slots'[s] = {}
        /\ \A k \in Keys : timers[k] # None => entry'[timers[k].item] = entry[timers[k].item]
    BY Zenon, DrainInv
  <1>6. ASSUME NEW k \in Keys
        PROVE  Alarm'[k] = IF Clock!Running(k) THEN [Alarm[k] EXCEPT !.left = 0] ELSE Alarm[k]
    <2>1. CASE timers[k] = None
      BY Zenon, <2>1, <1>2, <1>5 DEF Alarm
    <2>2. CASE timers[k] # None
      <3>1. Left(k)' = 0
        BY Zenon, <2>2, <1>5, InItsList DEF Left
      <3>2. Alarm'[k] = [left |-> 0, value |-> entry[timers[k].item].value]
        BY Zenon, <2>2, <1>5, <3>1 DEF Alarm
      <3>3. /\ Alarm[k] = [left |-> Left(k), value |-> entry[timers[k].item].value]
            /\ Left(k) \in Nat
        BY Zenon, <2>2, AlarmOf
      <3>4. Clock!Running(k) <=> Left(k) > 0
        BY Zenon, <2>2, <1>2
      <3> QED  BY <3>2, <3>3, <3>4
    <2> QED  BY Zenon, <2>1, <2>2
  <1>7. Alarm' = [k \in Keys |-> Alarm'[k]]
    BY ZenonT(40) DEF Alarm
  <1> QED  BY Zenon, <1>4, <1>6, <1>7 DEF Clock!Drain

\* Distance, from the position t.
From(t, s) == IF s > t THEN s - t ELSE s + NumSlots - t

\* What a tick does to the alarm of one key.
LEMMA TickOfKey ==
    ASSUME TypeOK, WheelInv, Tick, NEW k \in Keys
    PROVE  \/ timers[k] = None /\ timers'[k] = None
           \/ /\ timers[k] # None /\ timers'[k] # None
              /\ entry'[timers'[k].item].value = entry[timers[k].item].value
              /\ \/ Left(k) = 0 /\ Left(k)' = 0
                 \/ Left(k) > 1 /\ Left(k)' = Left(k) - 1
              /\ ~\E x \in Runs : entry[x].key = k
           \/ /\ timers[k] # None /\ timers'[k] = None
              /\ Left(k) = 1 /\ timers[k].item \in Runs
  <1> DEFINE i == timers[k].item
             e == entry[i]
             p == timers[k].pos
  <1>1. /\ Now \in Slots /\ tickedPos \in Slots /\ NumSlots \in Nat \ {0} /\ tickedPos' = Now
        /\ Now = IF tickedPos + 1 < NumSlots THEN tickedPos + 1 ELSE 0
    <2>1. tickedPos \in Slots /\ NumSlots \in Nat \ {0}
      BY Zenon, WheelAssumption DEF TypeOK
    <2>2. tickedPos + 1 \in 0..(2 * NumSlots - 1)
      BY <2>1 DEF Slots
    <2>3. Now = IF tickedPos + 1 < NumSlots THEN tickedPos + 1 ELSE tickedPos + 1 - NumSlots
      BY <2>1, <2>2, ModWrap DEF Now, Slots
    <2> QED  BY <2>1, <2>3, Scanned, ScanEffect DEF Slots
  <1>2. /\ From(tickedPos, Now) = 1 /\ From(Now, Now) = NumSlots
        /\ \A s \in Slots \ {Now} :
              From(tickedPos, s) > 1 /\ From(Now, s) = From(tickedPos, s) - 1
        /\ \A s \in Slots : From(tickedPos, s) \in Nat
    <2> HIDE DEF Now
    <2> QED  BY <1>1 DEF From, Slots
  <1>3. timers[k] # None => /\ timers[k] \in Position /\ p \in Slots /\ i \in Items
                            /\ e.circle \in Nat /\ e.diff \in Nat /\ e.diff < NumSlots
                            /\ i \in DOMAIN entry /\ e \in Entry /\ Left(k) \in Nat
    BY LeftPositive DEF WheelInv, WheelTypes, TimerInv, HeapInv, Position, Entry
  <1>4. CASE /\ timers[k] # None /\ timers'[k] = timers[k] /\ p # Now /\ entry'[i] = entry[i]
             /\ i \in slots'[p] <=> i \in slots[p]
             /\ ~\E x \in Runs : entry[x].key = k
    <2> DEFINE m == e.circle * NumSlots
    <2>1. m \in Nat
      BY Zenon, <1>3, <1>4, Revolutions
    <2>2. Left(k) = IF i \in slots[p] THEN From(tickedPos, p) + m + e.diff ELSE 0
      BY Zenon DEF Left, Distance, From
    <2>3. Left(k)' = IF i \in slots[p] THEN From(Now, p) + m + e.diff ELSE 0
      BY Zenon, <1>1, <1>4 DEF Left, Distance, From
    <2> HIDE DEF m, e, i, p
    <2>4. \/ Left(k) = 0 /\ Left(k)' = 0
          \/ Left(k) > 1 /\ Left(k)' = Left(k) - 1
      BY <1>2, <1>3, <1>4, <2>1, <2>2, <2>3
    <2> QED  BY Zenon, <1>4, <2>4 DEF i
  <1>5. CASE /\ timers[k] # None /\ timers'[k] = timers[k] /\ entry'[i] = entry[i]
             /\ i \notin slots'[p] /\ i \notin slots[p]
             /\ ~\E x \in Runs : entry[x].key = k
    BY Zenon, <1>5 DEF Left
  <1>6. CASE /\ i \in Stays /\ timers[k] = [pos |-> Now, item |-> i] /\ timers'[k] = timers[k]
             /\ entry'[i] = [entry[i] EXCEPT !.circle = @ - 1]
             /\ i \in slots'[Now]
             /\ ~\E x \in Runs : entry[x].key = k
    <2>1. timers[k] # None /\ p = Now /\ i \in slots[Now] /\ e.circle > 0
      <3>1. i \in slots[Now] /\ e.circle > 0 /\ i \in LiveNow
        BY Zenon, <1>6 DEF Stays, LiveNow
      <3>2. i \in Items
        BY Zenon, <3>1, <1>1 DEF WheelInv, WheelTypes
      <3> QED  BY <3>1, <3>2, <1>1, <1>6, WheelAssumption DEF Position
    <2>2. /\ entry'[i].circle = e.circle - 1 /\ entry'[i].diff = e.diff
          /\ entry'[i].value = e.value
      BY Zenon, <1>3, <1>6, <2>1 DEF Entry
    <2> DEFINE m == (e.circle - 1) * NumSlots
    <2>3. m \in Nat /\ e.circle * NumSlots = m + NumSlots
      <3>1. e.circle - 1 \in Nat
        BY <1>3, <2>1
      <3>2. m \in Nat
        BY Zenon, <3>1, Revolutions
      <3>3. e.circle * NumSlots = m + NumSlots
        BY <1>1, <1>3, <2>1, SMTT(30)
      <3> QED  BY Zenon, <3>2, <3>3
    <2>4. Left(k) = 1 + e.circle * NumSlots + e.diff
      BY Zenon, <1>2, <2>1 DEF Left, Distance, From
    <2>5. Left(k)' = NumSlots + m + e.diff
      BY Zenon, <1>1, <1>2, <1>6, <2>1, <2>2 DEF Left, Distance, From
    <2> HIDE DEF m, e, i, p
    <2>6. Left(k) > 1 /\ Left(k)' = Left(k) - 1
      BY <1>1, <1>3, <2>1, <2>3, <2>4, <2>5
    <2> QED  BY Zenon, <1>6, <2>1, <2>2, <2>6 DEF i, e
  <1>7. CASE /\ i \in Moves /\ timers[k] = [pos |-> Now, item |-> i]
             /\ timers'[k] = [pos |-> To(i), item |-> i]
             /\ entry'[i] = [entry[i] EXCEPT !.diff = 0]
             /\ i \in slots'[To(i)]
             /\ ~\E x \in Runs : entry[x].key = k
    <2>1. i \in slots[Now] /\ i \in LiveNow /\ To(i) # Now /\ ~(e.circle > 0) /\ i \in Items
      BY Zenon, <1>1, <1>7 DEF Moves, Stays, LiveNow, WheelInv, WheelTypes
    <2>2. To(i) \in Slots
      BY Zenon, <2>1, Scanned
    <2>3. /\ timers[k] # None /\ p = Now
          /\ timers'[k] # None /\ timers'[k].item = i /\ timers'[k].pos = To(i)
      BY <1>1, <1>7, <2>1, <2>2, WheelAssumption DEF Position
    <2>4. e.circle = 0 /\ e.diff \in 0..(NumSlots - 1)
      BY <1>1, <1>3, <2>1, <2>3, SMTT(30)
    <2>5. /\ entry'[i].circle = 0 /\ entry'[i].diff = 0 /\ entry'[i].value = e.value
      BY Zenon, <1>3, <1>7, <2>3, <2>4 DEF Entry
    <2>6. Left(k) = 1 + 0 * NumSlots + e.diff
      BY Zenon, <1>2, <2>1, <2>3, <2>4 DEF Left, Distance, From
    <2>7. Left(k)' = From(Now, To(i)) + 0 * NumSlots + 0
      BY Zenon, <1>1, <1>7, <2>3, <2>5 DEF Left, Distance, From
    <2>8. To(i) = IF Now + e.diff < NumSlots THEN Now + e.diff ELSE Now + e.diff - NumSlots
      <3>1. Now + e.diff \in 0..(2 * NumSlots - 1)
        BY <1>1, <2>4 DEF Slots
      <3> QED  BY <1>1, <2>4, <3>1, ModWrap, SMTT(30) DEF To, Slots
    <2>9. From(Now, To(i)) = e.diff /\ e.diff > 0
      <3> HIDE DEF e, i, p
      <3> QED  BY <1>1, <2>1, <2>2, <2>4, <2>8 DEF Slots, From
    <2> HIDE DEF e, i, p
    <2>10. Left(k) > 1 /\ Left(k)' = Left(k) - 1
      BY <1>1, <2>4, <2>6, <2>7, <2>9
    <2> QED  BY Zenon, <1>7, <2>3, <2>5, <2>10 DEF i, e
  <1>8. CASE i \in Runs /\ timers[k] = [pos |-> Now, item |-> i] /\ timers'[k] = None
    <2>1. /\ i \in slots[Now] /\ i \in LiveNow /\ i \in Items
          /\ ~(e.circle > 0) /\ To(i) = Now
      BY Zenon, <1>1, <1>8 DEF Runs, Moves, Stays, LiveNow, WheelInv, WheelTypes
    <2>2. timers[k] # None /\ p = Now
      BY SMTT(40), <1>1, <1>8, <2>1, WheelAssumption DEF Position
    <2>3. e.circle = 0 /\ e.diff \in 0..(NumSlots - 1)
      BY <1>1, <1>3, <2>1, <2>2, SMTT(30)
    <2>4. e.diff = 0
      <3>1. (Now + e.diff) % NumSlots = Now
        BY Zenon, <2>1 DEF To
      <3> HIDE DEF e, Now
      <3>2. e.diff \notin 1..(NumSlots - 1)
        BY Zenon, <1>1, <3>1, OtherSlot
      <3> QED  BY <1>1, <2>3, <3>2
    <2>5. Left(k) = 1 + 0 * NumSlots + 0
      BY Zenon, <1>2, <2>1, <2>2, <2>3, <2>4 DEF Left, Distance, From
    <2> QED  BY <1>1, <1>8, <2>2, <2>5
  <1> QED  BY <1>4, <1>5, <1>6, <1>7, <1>8, ScanKey

\* A tick of the wheel is a tick of the clock.
LEMMA TickTicks ==
    ASSUME TypeOK, WheelInv, Tick PROVE Clock!Tick
  <1> DEFINE ringing == {k \in Keys : Clock!Ringing(k, 1)}
  <1>1. fired' = {<<entry[i].key, entry[i].value>> : i \in Runs}
    BY Zenon DEF Tick, Now, To, LiveNow, Stays, Moves, Runs
  <1>2. ASSUME NEW k \in Keys
        PROVE  /\ k \in ringing <=> timers[k] # None /\ Left(k) = 1
               /\ k \in ringing => timers[k].item \in Runs /\ entry[timers[k].item].key = k
    <2>1. k \in ringing <=> timers[k] # None /\ Left(k) = 1
      BY Zenon, AlarmOf DEF Clock!Ringing
    <2>2. timers[k] # None /\ Left(k) = 1 =>
             timers[k].item \in Runs /\ entry[timers[k].item].key = k
      BY TickOfKey, SMTT(30) DEF WheelInv, TimerInv
    <2> QED  BY Zenon, <2>1, <2>2
  <1>3. ASSUME NEW i \in Runs
        PROVE  /\ entry[i].key \in ringing
               /\ timers[entry[i].key] # None /\ timers[entry[i].key].item = i
    <2>1. i \in LiveNow
      BY Zenon DEF Runs
    <2>2. /\ entry[i].key \in Keys
          /\ timers[entry[i].key] # None /\ timers[entry[i].key].item = i
      BY Zenon, <2>1, Scanned
    <2>3. Left(entry[i].key) = 1
      BY Zenon, <2>2, TickOfKey
    <2> QED  BY Zenon, <2>2, <2>3, <1>2
  <1>4. Clock!FiredBy(ringing)
    <2>1. ASSUME NEW z \in fired' PROVE z \in {<<k, Alarm[k].value>> : k \in ringing}
      <3>1. PICK i \in Runs : z = <<entry[i].key, entry[i].value>>
        BY Zenon, <1>1, <2>1
      <3>2. entry[i].key \in Keys /\ Alarm[entry[i].key].value = entry[i].value
        BY Zenon, <1>3, AlarmOf
      <3> HIDE DEF ringing
      <3> QED  BY Zenon, <1>3, <3>1, <3>2
    <2>2. ASSUME NEW k \in ringing PROVE <<k, Alarm[k].value>> \in fired'
      <3>1. /\ timers[k].item \in Runs /\ entry[timers[k].item].key = k
            /\ Alarm[k].value = entry[timers[k].item].value
        BY Zenon, <1>2, AlarmOf
      <3> QED  BY Zenon, <1>1, <3>1
    <2> QED  BY Zenon, <2>1, <2>2 DEF Clock!FiredBy
  <1>5. ASSUME NEW k \in Keys
        PROVE  Alarm'[k] = IF Clock!Ringing(k, 1) THEN None
                           ELSE IF Clock!Running(k) THEN [Alarm[k] EXCEPT !.left = @ - 1]
                           ELSE Alarm[k]
    <2>1. CASE timers[k] = None /\ timers'[k] = None
      BY Zenon, <2>1, AlarmOf DEF Alarm, Clock!Ringing, Clock!Running
    <2>2. CASE timers[k] # None /\ timers'[k] = None /\ Left(k) = 1
      BY Zenon, <2>2, <1>2 DEF Alarm
    <2>3. CASE /\ timers[k] # None /\ timers'[k] # None
               /\ entry'[timers'[k].item].value = entry[timers[k].item].value
               /\ \/ Left(k) = 0 /\ Left(k)' = 0
                  \/ Left(k) > 1 /\ Left(k)' = Left(k) - 1
      <3>1. /\ Alarm[k] = [left |-> Left(k), value |-> entry[timers[k].item].value]
            /\ Alarm[k] # None /\ Left(k) \in Nat /\ Alarm[k].left = Left(k)
        BY Zenon, <2>3, AlarmOf
      <3>2. Alarm'[k] = [left |-> Left(k)', value |-> entry[timers[k].item].value]
        BY Zenon, <2>3 DEF Alarm
      <3>3. ~Clock!Ringing(k, 1) /\ (Clock!Running(k) <=> Left(k) > 0)
        BY <2>3, <3>1, SMTT(30) DEF Clock!Ringing, Clock!Running
      <3> QED  BY <2>3, <3>1, <3>2, <3>3
    <2> QED  BY Zenon, <2>1, <2>2, <2>3, TickOfKey
  <1>6. Alarm' = [k \in Keys |-> Alarm'[k]]
    BY DEF Alarm
  <1> QED  BY Zenon, <1>4, <1>5, <1>6 DEF Clock!Tick

\* Every step of the wheel is a step of the alarm clock.
LEMMA ClockStep == IInv /\ [Next]_vars => [Clock!Next]_(Clock!vars)
  <1> SUFFICES ASSUME IInv, [Next]_vars PROVE Clock!Next \/ UNCHANGED Clock!vars
    OBVIOUS
  <1> USE DEF IInv
  <1>1. CASE Tick
    BY Zenon, <1>1, TickTicks DEF Clock!Next
  <1>2. CASE Drain
    BY Zenon, <1>2, DrainSetsOff DEF Clock!Next
  <1>3. CASE Stop \/ RunReturns
    <2>1. Clock!Idle
      BY Zenon, <1>3 DEF Stop, RunReturns, Clock!Idle, Alarm, Left, Distance, wheel
    <2> QED  BY Zenon, <2>1 DEF Clock!Next
  <1>4. ASSUME NEW k \in Keys, Client(k) PROVE Clock!Next
    <2>1. CASE RemoveTimer(k)
      BY Zenon, <2>1, RemoveTimerClears DEF Clock!Next
    <2>2. ASSUME NEW delay \in 0..MaxSteps, NEW v \in Values, SetTimer(k, v, delay)
          PROVE  Clock!Next
      BY Zenon, <2>2, SetTimerArms DEF Clock!Next
    <2>3. ASSUME NEW delay \in 0..MaxSteps, MoveTimer(k, delay) PROVE Clock!Next
      BY Zenon, <2>3, MoveTimerArms DEF Clock!Next
    <2> QED  BY Zenon, <1>4, <2>1, <2>2, <2>3 DEF Client
  <1>5. CASE UNCHANGED vars
    BY Zenon, <1>5 DEF vars, wheel, Clock!vars, Alarm, Left, Distance
  <1> QED  BY Zenon, <1>1, <1>2, <1>3, <1>4, <1>5 DEF Next

\* For every number of slots, keys and delays the wheel is an alarm clock: a key
\* that SetTimer sets runs on the tick it was set to, once, with its last value,
\* and not after RemoveTimer; one that is moved is off by at most one revolution.
THEOREM Refinement == Spec => ImplementsAlarms
  <1>1. Init => Clock!Init
    BY Zenon DEF Init, Clock!Init, Alarm
  <1> QED  BY <1>1, ClockStep, Inductive, PTL DEF Spec, ImplementsAlarms, Clock!Spec
=============================================================================
