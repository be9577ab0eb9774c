------------------------------- MODULE Bloom -------------------------------
(***************************************************************************)
(* The filter of core/bloom.  getLocations hashes append(data, byte(i))    *)
(* for each i: where the slice of the caller has room for one byte more,   *)
(* append writes it there, and goroutines that pass the same slice share   *)
(* this byte.  The scripts on the bit set run atomically in Redis.         *)
(***************************************************************************)
EXTENDS Naturals, FiniteSets

CONSTANTS
    Callers, Elements,  \* model values
    Maps,               \* maps, 14 in the code
    Bits,               \* bits of the filter
    HashOf,             \* [Elements -> [0..Maps-1 -> Nat]]
    MaxCalls

\* There is a map, and so a hash to take.
BloomAssumption == Maps \in Nat \ {0}

VARIABLE bf

\* spare[e] is the byte behind the slices of e that have room; op what a caller does, and room
\* whether its slice has room; locs the locations so far.  Ghosts: added, what an Add without mixed
\* locations has returned for; must, the caller's Exists has to find its element.
Init ==
    bf = [bits |-> {}, spare |-> [e \in Elements |-> 0], calls |-> 0, added |-> {},
          pc |-> [c \in Callers |-> "idle"], op |-> [c \in Callers |-> "none"],
          elem |-> [c \in Callers |-> CHOOSE e \in Elements : TRUE],
          room |-> [c \in Callers |-> FALSE], i |-> [c \in Callers |-> 0],
          locs |-> [c \in Callers |-> {}], must |-> [c \in Callers |-> FALSE],
          mixed |-> [c \in Callers |-> FALSE], lost |-> FALSE]

Start(c, op, e, room) ==
    /\ bf.pc[c] = "idle" /\ bf.calls < MaxCalls
    /\ bf' = [bf EXCEPT !.pc[c] = "append", !.op[c] = op, !.elem[c] = e, !.room[c] = room,
                        !.i[c] = 0, !.locs[c] = {}, !.mixed[c] = FALSE, !.calls = @ + 1,
                        !.must[c] = op = "Exists" /\ e \in bf.added]

\* append: into the slice, or into a copy.
AppendByte(c) ==
    /\ bf.pc[c] = "append"
    /\ bf' = [bf EXCEPT !.pc[c] = "hash",
                        !.spare[bf.elem[c]] = IF bf.room[c] THEN bf.i[c] ELSE @]

\* The byte that Hash reads behind the data.
Suffix(c) == IF bf.room[c] THEN bf.spare[bf.elem[c]] ELSE bf.i[c]

\* Mutant of Location: the locations of an Add are off by one.
LocationOff(c) == (HashOf[bf.elem[c]][Suffix(c)] + (IF bf.op[c] = "Add" THEN 1 ELSE 0)) % Bits

\* hash.Hash of the data and the byte, modulo the bits.
At(e, n) == HashOf[e][n] % Bits

Location(c) == At(bf.elem[c], Suffix(c))

HashByte(c) ==
    /\ bf.pc[c] = "hash"
    /\ bf' = [bf EXCEPT !.locs[c] = @ \cup {Location(c)}, !.mixed[c] = @ \/ Suffix(c) # bf.i[c],
                        !.i[c] = @ + 1,
                        !.pc[c] = IF bf.i[c] + 1 = Maps THEN "eval" ELSE "append"]

Clear(b, c) == [b EXCEPT !.pc[c] = "idle", !.locs[c] = {}, !.must[c] = FALSE, !.mixed[c] = FALSE,
                         !.i[c] = 0, !.op[c] = "none", !.room[c] = FALSE,
                         !.elem[c] = CHOOSE e \in Elements : TRUE]

\* set: every location is below bits, so buildOffsetArgs has no error; setScript.
Set(c) ==
    /\ bf.pc[c] = "eval" /\ bf.op[c] = "Add"
    /\ bf' = Clear([bf EXCEPT !.bits = @ \cup bf.locs[c],
                              !.added = IF bf.mixed[c] THEN @ ELSE @ \cup {bf.elem[c]}], c)

\* check: testScript.  lost, as a ghost: the answer is no for an element that was added.
Check(c) ==
    /\ bf.pc[c] = "eval" /\ bf.op[c] = "Exists"
    /\ bf' = Clear([bf EXCEPT !.lost = @ \/ (bf.must[c] /\ ~bf.mixed[c]
                                             /\ ~(bf.locs[c] \subseteq bf.bits))], c)

\* An error of Redis is returned.
EvalFails(c) ==
    /\ bf.pc[c] = "eval"
    /\ bf' = Clear(bf, c)

Next ==
    \E c \in Callers :
        \/ \E op \in {"Add", "Exists"}, e \in Elements, room \in BOOLEAN : Start(c, op, e, room)
        \/ AppendByte(c) \/ HashByte(c) \/ Set(c) \/ Check(c) \/ EvalFails(c)

Spec == Init /\ [][Next]_bf

TypeOK ==
    /\ bf.bits \subseteq 0..(Bits - 1)
    /\ \A c \in Callers : bf.i[c] <= Maps /\ Cardinality(bf.locs[c]) <= bf.i[c]
-----------------------------------------------------------------------------
\* The filter has no false negatives: an element whose Add has returned is found by every later
\* Exists, unless two goroutines hashed one slice with room at the same time and one read the byte
\* of the other.
OnlySharedSliceIsLost == ~bf.lost
=============================================================================
