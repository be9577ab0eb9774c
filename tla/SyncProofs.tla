----------------------------- MODULE SyncProofs -----------------------------
(***************************************************************************)
(* The parts of core/syncx, core/collection and core/bloom that share      *)
(* calls, resources or entries among goroutines, and proofs about each of  *)
(* them for every value of its constants: SingleFlight with LockedCalls,   *)
(* whose module is extended, SafeMap, Bloom, Pool and TimeoutLimit.        *)
(***************************************************************************)
EXTENDS SingleFlight, Sequences, TLAPS

CONSTANTS
    Users,                  \* more goroutines
    ThreeKeys, Absent,      \* the keys of SafeMap, and what it has for one that was deleted
    Two, BloomElements, BloomHashes,     \* the callers of Bloom, the elements and their hashes
    \* the parameters of the parts, and their bounds
    Limit,
    CopyThreshold, MaxDeletion, MaxDeletions,
    Maps, Bits, MaxCalls

VARIABLES
    idle, created, holding, waiting, woken,             \* of Pool
    dirtyOld, dirtyNew, deletionOld, deletionNew,       \* of SafeMap
    tl, bf                                              \* of TimeoutLimit and Bloom
-----------------------------------------------------------------------------
\* The filter of core/bloom, for any callers, elements, hashes and bits and any number of maps.

BF == INSTANCE Bloom WITH Callers <- Two, Elements <- BloomElements, HashOf <- BloomHashes

BFType ==
    /\ DOMAIN bf = {"bits", "spare", "calls", "added", "pc", "op", "elem", "room", "i", "locs",
                    "must", "mixed", "lost"}
    /\ bf.pc \in [Two -> {"idle", "append", "hash", "eval"}]
    /\ bf.i \in [Two -> Nat]
    /\ bf.added \subseteq BloomElements
    /\ DOMAIN bf.op = Two /\ DOMAIN bf.elem = Two /\ DOMAIN bf.room = Two /\ DOMAIN bf.locs = Two
    /\ DOMAIN bf.must = Two /\ DOMAIN bf.mixed = Two

\* What was added has all its bits set.
BFKept == \A e \in bf.added, j \in 0..(Maps - 1) : BF!At(e, j) \in bf.bits

\* A call whose bytes were not mixed up has the locations of its element, as many as it has hashed.
BFOwn(c) ==
    /\ bf.pc[c] \in {"append", "hash"} => bf.i[c] < Maps
    /\ bf.pc[c] = "eval" => bf.i[c] = Maps
    /\ bf.pc[c] # "idle" => bf.elem[c] \in BloomElements
    /\ bf.pc[c] # "idle" /\ ~bf.mixed[c] =>
        /\ \A j \in 0..(bf.i[c] - 1) : BF!At(bf.elem[c], j) \in bf.locs[c]
        /\ \A l \in bf.locs[c] : \E j \in 0..(bf.i[c] - 1) : l = BF!At(bf.elem[c], j)

\* An Exists that has to find its element is about one that was added.
BFMust(c) == bf.pc[c] # "idle" /\ bf.must[c] => bf.elem[c] \in bf.added

BFInv ==
    /\ BFType /\ BFKept /\ ~bf.lost
    /\ \A c \in Two : BFOwn(c) /\ BFMust(c)

\* Nothing is added at first, and nobody is in a call.
LEMMA BFInit ==
    ASSUME BF!Init
    PROVE  BFInv
BY Zenon DEF BF!Init, BFInv, BFType, BFKept, BFOwn, BFMust

\* Add or Exists begins with no location computed.
LEMMA BFStart ==
    ASSUME BF!BloomAssumption, BFInv, NEW c \in Two, NEW op, NEW e \in BloomElements, NEW room,
           BF!Start(c, op, e, room)
    PROVE  BFInv'
<1>1. /\ bf'.pc = [bf.pc EXCEPT ![c] = "append"] /\ bf'.elem = [bf.elem EXCEPT ![c] = e]
      /\ bf'.i = [bf.i EXCEPT ![c] = 0] /\ bf'.locs = [bf.locs EXCEPT ![c] = {}]
      /\ bf'.mixed = [bf.mixed EXCEPT ![c] = FALSE] /\ bf'.added = bf.added
      /\ bf'.must = [bf.must EXCEPT ![c] = (op = "Exists" /\ e \in bf.added)]
      /\ bf'.bits = bf.bits /\ bf'.lost = bf.lost
  BY DEF BF!Start, BFInv, BFType
<1>2. BFType'
  BY ZenonT(40) DEF BF!Start, BFInv, BFType
<1>3. BFKept' /\ ~bf'.lost
  BY Zenon, <1>1 DEF BFInv, BFKept
<1>4. ASSUME NEW d \in Two PROVE BFOwn(d)' /\ BFMust(d)'
  <2>1. CASE d = c
    <3>1. /\ bf'.pc[c] = "append" /\ bf'.elem[c] = e /\ bf'.i[c] = 0 /\ bf'.locs[c] = {}
          /\ bf'.must[c] => e \in bf'.added
      BY ZenonT(40), <1>1 DEF BFInv, BFType
    <3> QED
      BY <2>1, <3>1 DEF BF!BloomAssumption, BFOwn, BFMust
  <2>2. CASE d # c
    BY <1>1, <2>2 DEF BFInv, BFType, BFOwn, BFMust
  <2> QED
    BY Zenon, <2>1, <2>2
<1> QED
  BY Zenon, <1>2, <1>3, <1>4 DEF BFInv

\* Writing the byte changes no location that is computed already.
LEMMA BFAppend ==
    ASSUME BFInv, NEW c \in Two, BF!AppendByte(c)
    PROVE  BFInv'
<1>1. /\ bf'.pc = [bf.pc EXCEPT ![c] = "hash"] /\ bf'.elem = bf.elem /\ bf'.i = bf.i
      /\ bf'.locs = bf.locs /\ bf'.mixed = bf.mixed /\ bf'.added = bf.added
      /\ bf'.must = bf.must /\ bf'.bits = bf.bits /\ bf'.lost = bf.lost /\ bf.pc[c] = "append"
  BY Zenon DEF BF!AppendByte, BFInv, BFType
<1>2. BFType'
  BY Zenon DEF BF!AppendByte, BFInv, BFType
<1>3. BFKept' /\ ~bf'.lost
  BY Zenon, <1>1 DEF BFInv, BFKept
<1>4. ASSUME NEW d \in Two PROVE BFOwn(d)' /\ BFMust(d)'
  BY <1>1 DEF BFInv, BFType, BFOwn, BFMust
<1> QED
  BY Zenon, <1>2, <1>3, <1>4 DEF BFInv

\* One location more; the call stays unmixed only if the byte was its own.
LEMMA BFHash ==
    ASSUME BF!BloomAssumption, BFInv, NEW c \in Two, BF!HashByte(c)
    PROVE  BFInv'
<1>1. /\ bf'.pc = [bf.pc EXCEPT ![c] = IF bf.i[c] + 1 = Maps THEN "eval" ELSE "append"]
      /\ bf'.elem = bf.elem /\ bf'.i = [bf.i EXCEPT ![c] = bf.i[c] + 1]
      /\ bf'.locs = [bf.locs EXCEPT ![c] = bf.locs[c] \cup {BF!Location(c)}]
      /\ bf'.mixed = [bf.mixed EXCEPT ![c] = bf.mixed[c] \/ BF!Suffix(c) # bf.i[c]]
      /\ bf'.added = bf.added /\ bf'.must = bf.must /\ bf'.bits = bf.bits /\ bf'.lost = bf.lost
      /\ bf.pc[c] = "hash"
  BY Zenon DEF BF!HashByte, BFInv, BFType
<1>2. BFType'
  BY DEF BF!HashByte, BFInv, BFType
<1>3. BFKept' /\ ~bf'.lost
  BY Zenon, <1>1 DEF BFInv, BFKept
<1>4. \A d \in Two : BFMust(d)'
  BY <1>1 DEF BFInv, BFType, BFMust
<1>5. ASSUME NEW d \in Two, d # c PROVE BFOwn(d)'
  BY <1>1, <1>5 DEF BFInv, BFType, BFOwn
<1>6. BFOwn(c)'
  <2>1. bf.i[c] \in Nat /\ bf.i[c] < Maps /\ bf.elem[c] \in BloomElements /\ Maps \in Nat
    BY <1>1 DEF BF!BloomAssumption, BFInv, BFType, BFOwn
  <2>2. /\ bf'.i[c] = bf.i[c] + 1 /\ bf'.elem[c] = bf.elem[c]
        /\ bf'.locs[c] = bf.locs[c] \cup {BF!Location(c)}
        /\ bf'.mixed[c] = (bf.mixed[c] \/ BF!Suffix(c) # bf.i[c])
        /\ bf'.pc[c] = IF bf.i[c] + 1 = Maps THEN "eval" ELSE "append"
    BY <1>1 DEF BFInv, BFType
  <2>3. ASSUME ~bf'.mixed[c]
        PROVE  /\ \A j \in 0..bf.i[c] : BF!At(bf.elem[c], j) \in bf'.locs[c]
               /\ \A l \in bf'.locs[c] : \E j \in 0..bf.i[c] : l = BF!At(bf.elem[c], j)
    <3>1. ~bf.mixed[c] /\ BF!Location(c) = BF!At(bf.elem[c], bf.i[c])
      BY Zenon, <2>2, <2>3 DEF BF!Location
    <3>2. /\ \A j \in 0..(bf.i[c] - 1) : BF!At(bf.elem[c], j) \in bf.locs[c]
          /\ \A l \in bf.locs[c] : \E j \in 0..(bf.i[c] - 1) : l = BF!At(bf.elem[c], j)
      BY Zenon, <1>1, <3>1 DEF BFInv, BFOwn
    <3> QED
      BY <2>1, <2>2, <3>1, <3>2
  <2>4. /\ bf'.i[c] - 1 = bf.i[c]
        /\ bf'.pc[c] \in {"append", "hash"} => bf'.i[c] < Maps
        /\ bf'.pc[c] = "eval" => bf'.i[c] = Maps
    BY <2>1, <2>2
  <2> QED
    BY Zenon, <2>1, <2>2, <2>3, <2>4 DEF BFOwn
<1> QED
  BY Zenon, <1>2, <1>3, <1>4, <1>5, <1>6 DEF BFInv

\* A call that ends leaves the others as they are.
LEMMA BFCleared ==
    ASSUME BFType, \A d \in Two : BFOwn(d) /\ BFMust(d), NEW c \in Two,
           NEW b, DOMAIN b = DOMAIN bf, b.pc = bf.pc, b.i = bf.i, b.op = bf.op, b.elem = bf.elem,
           b.room = bf.room, b.locs = bf.locs, b.must = bf.must, b.mixed = bf.mixed,
           bf.added \subseteq b.added, b.added \subseteq BloomElements, bf' = BF!Clear(b, c)
    PROVE  BFType' /\ (\A d \in Two : BFOwn(d)' /\ BFMust(d)')
           /\ bf'.added = b.added /\ bf'.bits = b.bits /\ bf'.lost = b.lost
<1>1. /\ bf'.pc = [bf.pc EXCEPT ![c] = "idle"] /\ bf'.i = [bf.i EXCEPT ![c] = 0]
      /\ \A d \in Two : d # c => /\ bf'.elem[d] = bf.elem[d] /\ bf'.locs[d] = bf.locs[d]
                                 /\ bf'.must[d] = bf.must[d] /\ bf'.mixed[d] = bf.mixed[d]
      /\ bf'.added = b.added /\ bf'.bits = b.bits /\ bf'.lost = b.lost
  BY DEF BF!Clear, BFType
<1>2. BFType'
  BY DEF BF!Clear, BFType
<1>3. ASSUME NEW d \in Two PROVE BFOwn(d)' /\ BFMust(d)'
  BY <1>1 DEF BFType, BFOwn, BFMust
<1> QED
  BY Zenon, <1>1, <1>2, <1>3

\* The script of Add sets the bits of its locations, and that of Exists finds those of an element
\* that was added; one that fails leaves the bits alone.
LEMMA BFEnds ==
    ASSUME BF!BloomAssumption, BFInv, NEW c \in Two, BF!Set(c) \/ BF!Check(c) \/ BF!EvalFails(c)
    PROVE  BFInv'
<1>1. CASE BF!Set(c)
  <2> DEFINE b == [bf EXCEPT !.bits = @ \cup bf.locs[c],
                             !.added = IF bf.mixed[c] THEN @ ELSE @ \cup {bf.elem[c]}]
  <2>1. bf.pc[c] = "eval" /\ bf' = BF!Clear(b, c)
    BY Zenon, <1>1 DEF BF!Set
  <2>2. /\ DOMAIN b = DOMAIN bf /\ b.pc = bf.pc /\ b.i = bf.i /\ b.op = bf.op /\ b.elem = bf.elem
        /\ b.room = bf.room /\ b.locs = bf.locs /\ b.must = bf.must /\ b.mixed = bf.mixed
        /\ b.lost = bf.lost /\ b.bits = bf.bits \cup bf.locs[c]
        /\ b.added = IF bf.mixed[c] THEN bf.added ELSE bf.added \cup {bf.elem[c]}
    BY Zenon DEF BFInv, BFType
  <2> HIDE DEF b
  <2>3. bf.added \subseteq b.added /\ b.added \subseteq BloomElements
    BY <2>1, <2>2 DEF BFInv, BFType, BFOwn
  <2>4. /\ BFType' /\ (\A d \in Two : BFOwn(d)' /\ BFMust(d)')
        /\ bf'.added = b.added /\ bf'.bits = b.bits /\ bf'.lost = b.lost
    BY Zenon, <2>1, <2>2, <2>3, BFCleared DEF BFInv
  <2>5. ~bf.mixed[c] => \A j \in 0..(Maps - 1) : BF!At(bf.elem[c], j) \in bf.locs[c]
    BY Zenon, <2>1 DEF BFInv, BFOwn
  <2>6. BFKept' /\ ~bf'.lost
    BY Zenon, <2>2, <2>4, <2>5 DEF BFInv, BFKept
  <2> QED
    BY Zenon, <2>4, <2>6 DEF BFInv
<1>2. CASE BF!Check(c)
  <2> DEFINE miss == bf.must[c] /\ ~bf.mixed[c] /\ ~(bf.locs[c] \subseteq bf.bits)
             b == [bf EXCEPT !.lost = @ \/ miss]
  <2>1. bf.pc[c] = "eval" /\ bf' = BF!Clear(b, c)
    BY Zenon, <1>2 DEF BF!Check
  <2>2. ~miss
    <3> SUFFICES ASSUME bf.must[c], ~bf.mixed[c], NEW l \in bf.locs[c] PROVE l \in bf.bits
      OBVIOUS
    <3>1. \E j \in 0..(Maps - 1) : l = BF!At(bf.elem[c], j)
      BY Zenon, <2>1 DEF BFInv, BFOwn
    <3>2. bf.elem[c] \in bf.added
      BY Zenon, <2>1 DEF BFInv, BFMust
    <3> QED
      BY Zenon, <3>1, <3>2 DEF BFInv, BFKept
  <2> HIDE DEF miss
  <2>3. /\ DOMAIN b = DOMAIN bf /\ b.pc = bf.pc /\ b.i = bf.i /\ b.op = bf.op /\ b.elem = bf.elem
        /\ b.room = bf.room /\ b.locs = bf.locs /\ b.must = bf.must /\ b.mixed = bf.mixed
        /\ b.bits = bf.bits /\ b.added = bf.added
    BY Zenon DEF BFInv, BFType
  <2>4. ~b.lost
    BY Zenon, <2>2 DEF BFInv, BFType
  <2> HIDE DEF b
  <2>5. bf.added \subseteq b.added /\ b.added \subseteq BloomElements
    BY Zenon, <2>3 DEF BFInv, BFType
  <2>6. /\ BFType' /\ (\A d \in Two : BFOwn(d)' /\ BFMust(d)')
        /\ bf'.added = b.added /\ bf'.bits = b.bits /\ bf'.lost = b.lost
    BY Zenon, <2>1, <2>3, <2>5, BFCleared DEF BFInv
  <2> QED
    BY Zenon, <2>3, <2>4, <2>6 DEF BFInv, BFKept
<1>3. CASE BF!EvalFails(c)
  <2>1. bf' = BF!Clear(bf, c) /\ bf.added \subseteq bf.added /\ bf.added \subseteq BloomElements
    BY Zenon, <1>3 DEF BF!EvalFails, BFInv, BFType
  <2>2. /\ BFType' /\ (\A d \in Two : BFOwn(d)' /\ BFMust(d)')
        /\ bf'.added = bf.added /\ bf'.bits = bf.bits /\ bf'.lost = bf.lost
    BY Zenon, <2>1, BFCleared DEF BFInv
  <2> QED
    BY Zenon, <2>2 DEF BFInv, BFKept
<1> QED
  BY Zenon, <1>1, <1>2, <1>3

\* An element that was added is found, unless two callers shared a slice.
OnlySharedSliceIsLost == BF!OnlySharedSliceIsLost

\* The filter has no false negatives, but for calls whose bytes were mixed up in a shared slice.
THEOREM AddedIsFound ==
    ASSUME BF!BloomAssumption
    PROVE  BF!Spec => []OnlySharedSliceIsLost
<1>1. BFInv /\ [BF!Next]_bf => BFInv'
  <2> SUFFICES ASSUME BFInv, [BF!Next]_bf PROVE BFInv'
    OBVIOUS
  <2>1. CASE UNCHANGED bf
    BY <2>1 DEF BFInv, BFType, BFKept, BFOwn, BFMust
  <2> QED
    BY Zenon, <2>1, BFStart, BFAppend, BFHash, BFEnds DEF BF!Next
<1>2. BF!Init => BFInv
  BY Zenon, BFInit
<1>3. BFInv => BF!OnlySharedSliceIsLost
  BY Zenon DEF BFInv, BF!OnlySharedSliceIsLost
<1> QED
  BY <1>1, <1>2, <1>3, PTL DEF OnlySharedSliceIsLost, BF!Spec
-----------------------------------------------------------------------------
\* SafeMap of core/collection/safemap.go implements a map, for any keys, values and thresholds:
\* the two Go maps and the copies between them cannot be seen.

SM == INSTANCE SafeMap WITH Keys <- ThreeKeys, Nil <- Absent

GoMaps == [ThreeKeys -> Values \cup {Absent}]

\* What Get returns when the two maps are old and new.
Visible(old, new) == [k \in ThreeKeys |-> IF SM!In(k, old) THEN old[k] ELSE new[k]]

MapsApart(old, new) == \A k \in ThreeKeys : ~(SM!In(k, old) /\ SM!In(k, new))

\* The two maps o and n hold entries of the same keys and values as old and new.
SameMap(o, n, old, new) ==
    /\ o \in GoMaps /\ n \in GoMaps /\ MapsApart(o, n)
    /\ Visible(o, n) = Visible(old, new)

SafeMapInv == SM!TypeOK /\ MapsApart(dirtyOld, dirtyNew)

\* The first copy of Del changes nothing that Get returns.
LEMMA SwapKeeps ==
    ASSUME SM!SafeMapAssumption, NEW old \in GoMaps, NEW new \in GoMaps, MapsApart(old, new),
           NEW dOld \in Nat, NEW dNew \in Nat,
           NEW s, s = SM!Swap(old, new, dOld, dNew)
    PROVE  SameMap(s[1], s[2], old, new) /\ s[3] \in Nat /\ s[4] \in Nat
<1>1. CASE s = <<old, new, dOld, dNew>>
  BY <1>1 DEF SameMap
<1>2. CASE s = <<SM!Copied(old, new), SM!Empty, dNew, 0>>
  BY <1>2 DEF SameMap, SM!Copied, SM!Empty, Visible, MapsApart, SM!In, GoMaps
<1> QED
  BY Zenon, <1>1, <1>2 DEF SM!Swap

\* Nor does the second one, which goes the other way: the maps have no key in common.
LEMMA MergeKeeps ==
    ASSUME SM!SafeMapAssumption, NEW old \in GoMaps, NEW new \in GoMaps, MapsApart(old, new),
           NEW dOld \in Nat, NEW dNew \in Nat,
           NEW s, s = SM!Merge(old, new, dOld, dNew)
    PROVE  SameMap(s[1], s[2], old, new) /\ s[3] \in Nat /\ s[4] \in Nat
<1>1. CASE s = <<old, new, dOld, dNew>>
  BY <1>1 DEF SameMap
<1>2. CASE s = <<SM!Copied(new, old), SM!Empty, dOld, 0>>
  BY <1>2 DEF SameMap, SM!Copied, SM!Empty, Visible, MapsApart, SM!In, GoMaps
<1> QED
  BY Zenon, <1>1, <1>2 DEF SM!Merge

\* o and n are old and new, with v for k in one of them and nothing in the other.
Writes(o, n, old, new, k, v) ==
    /\ old \in GoMaps /\ new \in GoMaps /\ o \in GoMaps /\ n \in GoMaps /\ k \in ThreeKeys
    /\ \/ o = [old EXCEPT ![k] = v] /\ n = [new EXCEPT ![k] = Absent]
       \/ o = [old EXCEPT ![k] = Absent] /\ n = [new EXCEPT ![k] = v]

\* That is an update of what Get returns.
LEMMA UpdateIsSeen ==
    ASSUME NEW old, NEW new, NEW k, NEW v, NEW o, NEW n, Writes(o, n, old, new, k, v)
    PROVE  Visible(o, n) = [Visible(old, new) EXCEPT ![k] = v]
<1>1. \A j \in ThreeKeys : j # k => o[j] = old[j] /\ n[j] = new[j]
  BY Zenon DEF GoMaps, Writes
<1>2. (o[k] = v /\ n[k] = Absent) \/ (o[k] = Absent /\ n[k] = v)
  BY Zenon DEF GoMaps, Writes
<1>3. \A j \in ThreeKeys : (IF SM!In(j, o) THEN o[j] ELSE n[j])
                        = IF j = k THEN v ELSE IF SM!In(j, old) THEN old[j] ELSE new[j]
  BY Zenon, <1>1, <1>2 DEF SM!In
<1> QED
  BY Zenon, <1>3 DEF Visible

\* The deletion that Del begins with.
LEMMA DeletedKeeps ==
    ASSUME SM!SafeMapAssumption, SafeMapInv, NEW k \in ThreeKeys, NEW d, d = SM!Deleted(k)
    PROVE  /\ d[1] \in GoMaps /\ d[2] \in GoMaps /\ MapsApart(d[1], d[2])
           /\ Visible(d[1], d[2]) = [SM!Get EXCEPT ![k] = Absent]
           /\ d[3] \in Nat /\ d[4] \in Nat
<1>1. dirtyOld \in GoMaps /\ dirtyNew \in GoMaps /\ deletionOld \in Nat /\ deletionNew \in Nat
  BY Zenon DEF SafeMapInv, SM!TypeOK, GoMaps
<1>2. d[1] = [dirtyOld EXCEPT ![k] = Absent] /\ d[2] = [dirtyNew EXCEPT ![k] = Absent]
  BY Zenon, <1>1 DEF SM!Deleted, SafeMapInv, MapsApart, SM!In, GoMaps
<1>3. d[1] \in GoMaps /\ d[2] \in GoMaps /\ MapsApart(d[1], d[2])
  BY Zenon, <1>1, <1>2 DEF SafeMapInv, MapsApart, SM!In, GoMaps
<1>4. d[3] \in Nat /\ d[4] \in Nat
  BY <1>1 DEF SM!Deleted
<1>5. SM!Get = Visible(dirtyOld, dirtyNew)
  BY Zenon DEF SM!Get, Visible
<1>6. Visible(d[1], d[2]) = [Visible(dirtyOld, dirtyNew) EXCEPT ![k] = Absent]
  <2>1. Writes(d[1], d[2], dirtyOld, dirtyNew, k, Absent)
    BY Zenon, <1>1, <1>2, <1>3 DEF Writes
  <2> QED
    BY <2>1, UpdateIsSeen
<1> QED
  BY Zenon, <1>3, <1>4, <1>5, <1>6

\* Del is the Del of a map.
LEMMA DelIsDel ==
    ASSUME SM!SafeMapAssumption, SafeMapInv, NEW k \in ThreeKeys, SM!Del(k)
    PROVE  SafeMapInv' /\ SM!Get' = [SM!Get EXCEPT ![k] = Absent]
<1> DEFINE d == SM!Deleted(k)
           s == SM!Swap(d[1], d[2], d[3], d[4])
           t == SM!Merge(s[1], s[2], s[3], s[4])
<1>1. dirtyOld' = t[1] /\ dirtyNew' = t[2] /\ deletionOld' = t[3] /\ deletionNew' = t[4]
  BY Zenon DEF SM!Del
<1>2. /\ d[1] \in GoMaps /\ d[2] \in GoMaps /\ MapsApart(d[1], d[2])
      /\ Visible(d[1], d[2]) = [SM!Get EXCEPT ![k] = Absent]
      /\ d[3] \in Nat /\ d[4] \in Nat
  BY Zenon, DeletedKeeps
<1> HIDE DEF d
<1>3. SameMap(s[1], s[2], d[1], d[2]) /\ s[3] \in Nat /\ s[4] \in Nat
  BY Zenon, <1>2, SwapKeeps
<1> HIDE DEF s
<1>4. SameMap(t[1], t[2], s[1], s[2]) /\ t[3] \in Nat /\ t[4] \in Nat
  BY Zenon, <1>3, MergeKeeps DEF SameMap
<1> HIDE DEF t
<1>5. Visible(t[1], t[2]) = [SM!Get EXCEPT ![k] = Absent] /\ MapsApart(t[1], t[2])
  BY Zenon, <1>2, <1>3, <1>4 DEF SameMap
<1>6. SM!Get' = Visible(dirtyOld', dirtyNew')
  BY Zenon DEF SM!Get, Visible, SM!In
<1>7. SM!TypeOK'
  BY Zenon, <1>1, <1>4 DEF SameMap, SM!TypeOK, GoMaps
<1>8. MapsApart(dirtyOld, dirtyNew)'
  BY Zenon, <1>1, <1>5 DEF MapsApart, SM!In
<1> QED
  BY Zenon, <1>1, <1>5, <1>6, <1>7, <1>8 DEF SafeMapInv

\* Set is the Set of a map.
LEMMA SetIsSet ==
    ASSUME SM!SafeMapAssumption, SafeMapInv, NEW k \in ThreeKeys, NEW v \in Values, SM!Set(k, v)
    PROVE  SafeMapInv' /\ SM!Get' = [SM!Get EXCEPT ![k] = v]
<1>1. dirtyOld \in GoMaps /\ dirtyNew \in GoMaps /\ deletionOld \in Nat /\ deletionNew \in Nat
  BY Zenon DEF SafeMapInv, SM!TypeOK, GoMaps
<1>2. \/ dirtyOld' = [dirtyOld EXCEPT ![k] = v] /\ dirtyNew' = [dirtyNew EXCEPT ![k] = Absent]
      \/ dirtyOld' = [dirtyOld EXCEPT ![k] = Absent] /\ dirtyNew' = [dirtyNew EXCEPT ![k] = v]
  BY Zenon DEF SM!Set
<1>3. dirtyOld' \in GoMaps /\ dirtyNew' \in GoMaps
  BY Zenon, <1>1, <1>2 DEF GoMaps
<1>4. deletionOld' \in Nat /\ deletionNew' \in Nat
  BY <1>1 DEF SM!Set
<1>5. MapsApart(dirtyOld, dirtyNew)'
  BY Zenon, <1>1, <1>2 DEF SafeMapInv, MapsApart, SM!In, GoMaps
<1>6. SM!Get = Visible(dirtyOld, dirtyNew) /\ SM!Get' = Visible(dirtyOld', dirtyNew')
  BY Zenon DEF SM!Get, Visible, SM!In
<1>7. SM!Get' = [SM!Get EXCEPT ![k] = v]
  <2>1. Writes(dirtyOld', dirtyNew', dirtyOld, dirtyNew, k, v)
    BY Zenon, <1>1, <1>2, <1>3 DEF Writes
  <2> QED
    BY <1>6, <2>1, UpdateIsSeen
<1> QED
  BY Zenon, <1>3, <1>4, <1>5, <1>7 DEF SafeMapInv, SM!TypeOK, GoMaps

\* The facts that both theorems rest on.
LEMMA SafeMapInvariant ==
    ASSUME SM!SafeMapAssumption
    PROVE  SM!Spec => []SafeMapInv
<1>1. SM!Init => SafeMapInv
  BY DEF SM!SafeMapAssumption, SM!Init, SafeMapInv, SM!TypeOK, MapsApart, SM!Empty, SM!In
<1>2. SafeMapInv /\ [SM!Next]_(SM!smVars) => SafeMapInv'
  <2> SUFFICES ASSUME SafeMapInv, [SM!Next]_(SM!smVars) PROVE SafeMapInv'
    OBVIOUS
  <2>1. CASE UNCHANGED SM!smVars
    BY Zenon, <2>1 DEF SM!smVars, SafeMapInv, SM!TypeOK, MapsApart, SM!In
  <2>2. CASE SM!Next
    BY Zenon, <2>2, DelIsDel, SetIsSet DEF SM!Next
  <2> QED
    BY Zenon, <2>1, <2>2
<1> QED
  BY <1>1, <1>2, PTL DEF SM!Spec

\* No key ever has an entry in both Go maps.
THEOREM EntriesAreUnique ==
    ASSUME SM!SafeMapAssumption
    PROVE  SM!Spec => []SM!OneEntryPerKey
<1>1. SafeMapInv => SM!OneEntryPerKey
  BY Zenon DEF SafeMapInv, MapsApart, SM!OneEntryPerKey
<1> QED
  BY <1>1, SafeMapInvariant, PTL

\* What Get returns changes as Set and Del say; copies from map to map change nothing.
IsAMap == SM!IsAMap

\* SafeMap implements a map with Set and Del, for every value of the two thresholds.
THEOREM SafeMapIsAMap ==
    ASSUME SM!SafeMapAssumption
    PROVE  SM!Spec => IsAMap
<1>1. SM!Init => SM!M!Init
  BY Zenon DEF SM!SafeMapAssumption, SM!Init, SM!M!Init, SM!Get, SM!In, SM!Empty
<1>2. SafeMapInv /\ [SM!Next]_(SM!smVars) => [SM!M!Next]_(SM!Get)
  <2> SUFFICES ASSUME SafeMapInv, [SM!Next]_(SM!smVars) PROVE [SM!M!Next]_(SM!Get)
    OBVIOUS
  <2>1. CASE UNCHANGED SM!smVars
    BY Zenon, <2>1 DEF SM!smVars, SM!Get, SM!In
  <2>2. CASE SM!Next
    BY Zenon, <2>2, DelIsDel, SetIsSet DEF SM!Next, SM!M!Next, SM!M!Del, SM!M!Set
  <2> QED
    BY Zenon, <2>1, <2>2
<1> QED
  BY <1>1, <1>2, SafeMapInvariant, PTL DEF SM!Spec, IsAMap, SM!IsAMap, SM!M!Spec
-----------------------------------------------------------------------------
\* SingleFlight of core/syncx/singleflight.go, for every set of goroutines, keys and values.

Owner(c) == pc[c] \in {"run", "delete", "done"}

\* What a goroutine's program counter says about its local variables.
LocalInv ==
    \A c \in Callers :
        /\ pc[c] \in {"idle", "create"} <=> ref[c] = None
        /\ pc[c] # "idle" => key[c] \in Keys
        /\ ref[c] # None => ref[c] \in 1..flights /\ flight[ref[c]].key = key[c]
        /\ Owner(c) => flight[ref[c]].wg = 1
        /\ Executing(c) => calls[key[c]] = ref[c]

\* A flight has one owner, and as long as its WaitGroup is held it has one.
OwnerInv ==
    /\ \A c, d \in Callers : Owner(c) /\ Owner(d) /\ ref[c] = ref[d] => c = d
    /\ \A f \in 1..flights : flight[f].wg = 1 => \E c \in Callers : Owner(c) /\ ref[c] = f

\* The calls map holds only flights whose owner has not deleted them yet.
CallsInv ==
    \A k \in Keys : calls[k] # None =>
        /\ calls[k] \in 1..flights
        /\ flight[calls[k]].key = k
        /\ \E c \in Callers : Executing(c) /\ ref[c] = calls[k]

\* A flight that had landed stays landed.
EndedInv ==
    \A c \in Callers :
        /\ \A f \in ended[c] : f \in 1..flights /\ flight[f].wg = 0
        /\ ref[c] \notin ended[c]

\* Results are read from flights that have landed and will not change.
ResultInv ==
    /\ \A c \in Callers : result[c].from # None =>
          /\ result[c].from \in 1..flights
          /\ flight[result[c].from].wg = 0
          /\ result[c].val = flight[result[c].from].val
    /\ \A c, d \in Callers : /\ c # d
                             /\ result[c].from # None
                             /\ result[c].from = result[d].from
                             => ~(result[c].fresh /\ result[d].fresh)

IInv == TypeOK /\ LocalInv /\ OwnerInv /\ CallsInv /\ EndedInv /\ ResultInv

-----------------------------------------------------------------------------
\* The initial state satisfies the invariant.
LEMMA InitIInv == Init => IInv
  BY SingleFlightAssumption
  DEF Init, IInv, TypeOK, LocalInv, OwnerInv, CallsInv, EndedInv, ResultInv, Owner,
      Executing, NewFlight, NoResult, Flight, Result, Results, Flights, Labels

\* Invoke preserves the invariant.
LEMMA InvokePreserves ==
    ASSUME IInv, NEW c \in Callers, NEW k \in Keys, Invoke(c, k)
    PROVE  IInv'
  <1> USE SingleFlightAssumption DEF Flights, Results, IInv, Goto
  <1>1. TypeOK'
    BY SMTT(40) DEF Invoke, TypeOK, LocalInv, Owner, Flight, Result, NewFlight, NoResult, Labels
  <1>2. LocalInv'
    BY SMTT(40) DEF Invoke, TypeOK, LocalInv, OwnerInv, CallsInv, Owner, Executing, Flight, Result, NewFlight, NoResult, Labels
  <1>3. OwnerInv'
    BY SMTT(40) DEF Invoke, TypeOK, OwnerInv, LocalInv, CallsInv, Owner, Executing, Flight, Result, NewFlight, NoResult, Labels
  <1>4. CallsInv'
    BY SMTT(40) DEF Invoke, TypeOK, CallsInv, LocalInv, OwnerInv, Owner, Executing, Flight, Result, NewFlight, NoResult, Labels
  <1>5. EndedInv'
    BY SMTT(40) DEF Invoke, TypeOK, EndedInv, LocalInv, OwnerInv, CallsInv, Owner, Executing, Flight, Result, NewFlight, NoResult, Labels
  <1>6. ResultInv'
    BY DEF Invoke, TypeOK, ResultInv, LocalInv, OwnerInv, CallsInv, Owner, Executing, Flight, Result, NewFlight, NoResult, Labels
  <1> QED  BY Zenon, <1>1, <1>2, <1>3, <1>4, <1>5, <1>6

\* JoinCall preserves the invariant.
LEMMA JoinCallPreserves ==
    ASSUME IInv, NEW c \in Callers, JoinCall(c)
    PROVE  IInv'
  <1> USE SingleFlightAssumption DEF Flights, Results, IInv, Goto
  <1>1. TypeOK'
    BY Zenon DEF JoinCall, TypeOK, LocalInv, Owner, Flight, Result, NewFlight, NoResult, Labels
  <1>2. LocalInv'
    BY SMTT(40) DEF JoinCall, TypeOK, LocalInv, OwnerInv, CallsInv, Owner, Executing, Flight, Result, NewFlight, NoResult, Labels
  <1>3. OwnerInv'
    BY SMTT(40) DEF JoinCall, TypeOK, OwnerInv, LocalInv, CallsInv, Owner, Executing, Flight, Result, NewFlight, NoResult, Labels
  <1>4. CallsInv'
    BY Zenon DEF JoinCall, TypeOK, CallsInv, LocalInv, OwnerInv, Owner, Executing, Flight, Result, NewFlight, NoResult, Labels
  <1>5. EndedInv'
    BY SMTT(40) DEF JoinCall, TypeOK, EndedInv, LocalInv, OwnerInv, CallsInv, Owner, Executing, Flight, Result, NewFlight, NoResult, Labels
  <1>6. ResultInv'
    BY Zenon DEF JoinCall, TypeOK, ResultInv, LocalInv, OwnerInv, CallsInv, Owner, Executing, Flight, Result, NewFlight, NoResult, Labels
  <1> QED  BY Zenon, <1>1, <1>2, <1>3, <1>4, <1>5, <1>6

\* CreateCall preserves the invariant.
LEMMA CreateCallPreserves ==
    ASSUME IInv, NEW c \in Callers, CreateCall(c)
    PROVE  IInv'
  <1> USE SingleFlightAssumption DEF Flights, Results, IInv, Goto
  <1>1. TypeOK'
    <2>1. [NewFlight EXCEPT !.wg = 1, !.key = key[c]] \in Flight
      BY Zenon DEF NewFlight, Flight, CreateCall, LocalInv
    <2>2. flights + 1 \in 1..MaxFlights
      BY DEF CreateCall, TypeOK
    <2> QED  BY <2>1, <2>2 DEF CreateCall, TypeOK, LocalInv, Labels
  <1>2. LocalInv'
    BY DEF CreateCall, TypeOK, LocalInv, OwnerInv, CallsInv, Owner, Executing, Flight, Result, NewFlight, NoResult, Labels
  <1>3. OwnerInv'
    <2>1. /\ flights \in Nat /\ flights' = flights + 1
          /\ ref'[c] = flights + 1
          /\ \A d \in Callers \ {c} : ref'[d] = ref[d] /\ pc'[d] = pc[d]
          /\ \A f \in 1..flights : flight'[f] = flight[f]
      BY DEF CreateCall, TypeOK
    <2>2. pc'[c] = "run" /\ pc[c] = "create"
      BY Zenon DEF CreateCall, TypeOK
    <2>3. \A d \in Callers : ref[d] # None => ref[d] \in 1..flights
      BY Zenon DEF LocalInv
    <2>4. \A d \in Callers : Owner(d) => ref[d] # None
      BY Zenon DEF LocalInv, Owner, TypeOK, Labels
    <2>5. \A d, e \in Callers : Owner(d)' /\ Owner(e)' /\ ref'[d] = ref'[e] => d = e
      BY SMTT(40), <2>1, <2>3, <2>4 DEF OwnerInv, Owner
    <2>6. ASSUME NEW f \in 1..flights', flight'[f].wg = 1
          PROVE  \E d \in Callers : Owner(d)' /\ ref'[d] = f
      <3>1. CASE f = flights + 1
        BY Zenon, <3>1, <2>1, <2>2 DEF Owner
      <3>2. CASE f \in 1..flights
        <4>1. PICK d \in Callers : Owner(d) /\ ref[d] = f
          BY Zenon, <3>2, <2>1, <2>6 DEF OwnerInv
        <4>2. d # c
          BY Zenon, <4>1, <2>2 DEF Owner
        <4> QED  BY Zenon, <4>1, <4>2, <2>1 DEF Owner
      <3> QED  BY SMTT(40), <3>1, <3>2, <2>1
    <2> QED  BY Zenon, <2>5, <2>6 DEF OwnerInv
  <1>4. CallsInv'
    BY SMTT(40) DEF CreateCall, TypeOK, CallsInv, LocalInv, OwnerInv, Owner, Executing, Flight, Result, NewFlight, NoResult, Labels
  <1>5. EndedInv'
    BY DEF CreateCall, TypeOK, EndedInv, LocalInv, OwnerInv, CallsInv, Owner, Executing, Flight, Result, NewFlight, NoResult, Labels
  <1>6. ResultInv'
    BY DEF CreateCall, TypeOK, ResultInv, LocalInv, OwnerInv, CallsInv, Owner, Executing, Flight, Result, NewFlight, NoResult, Labels
  <1> QED  BY <1>1, <1>2, <1>3, <1>4, <1>5, <1>6

\* FnReturns preserves the invariant.
LEMMA FnReturnsPreserves ==
    ASSUME IInv, NEW c \in Callers, NEW v \in Values, FnReturns(c, v)
    PROVE  IInv'
  <1> USE SingleFlightAssumption DEF Flights, Results, IInv, Goto
  <1>1. TypeOK'
    <2>1. ref[c] \in Flights /\ flight[ref[c]] \in Flight
      BY Zenon DEF FnReturns, TypeOK, LocalInv
    <2>2. [flight[ref[c]] EXCEPT !.val = v, !.returned = TRUE] \in Flight
      BY Zenon, <2>1 DEF Flight
    <2>3. flight' \in [Flights -> Flight]
      BY Zenon, <2>1, <2>2 DEF FnReturns, TypeOK
    <2> QED  BY Zenon, <2>3 DEF FnReturns, TypeOK, Labels
  <1>2. LocalInv'
    BY DEF FnReturns, TypeOK, LocalInv, OwnerInv, CallsInv, Owner, Executing, Flight, Result, NewFlight, NoResult, Labels
  <1>3. OwnerInv'
    BY DEF FnReturns, TypeOK, OwnerInv, LocalInv, CallsInv, Owner, Executing, Flight, Result, NewFlight, NoResult, Labels
  <1>4. CallsInv'
    BY DEF FnReturns, TypeOK, CallsInv, LocalInv, OwnerInv, Owner, Executing, Flight, Result, NewFlight, NoResult, Labels
  <1>5. EndedInv'
    BY SMTT(40) DEF FnReturns, TypeOK, EndedInv, LocalInv, OwnerInv, CallsInv, Owner, Executing, Flight, Result, NewFlight, NoResult, Labels
  <1>6. ResultInv'
    BY SMTT(40) DEF FnReturns, TypeOK, ResultInv, LocalInv, OwnerInv, CallsInv, Owner, Executing, Flight, Result, NewFlight, NoResult, Labels
  <1> QED  BY Zenon, <1>1, <1>2, <1>3, <1>4, <1>5, <1>6

\* FnPanics preserves the invariant.
LEMMA FnPanicsPreserves ==
    ASSUME IInv, NEW c \in Callers, FnPanics(c)
    PROVE  IInv'
  <1> USE SingleFlightAssumption DEF Flights, Results, IInv, Goto
  <1>1. TypeOK'
    BY Zenon DEF FnPanics, TypeOK, LocalInv, Owner, Flight, Result, NewFlight, NoResult, Labels
  <1>2. LocalInv'
    BY SMTT(40) DEF FnPanics, TypeOK, LocalInv, OwnerInv, CallsInv, Owner, Executing, Flight, Result, NewFlight, NoResult, Labels
  <1>3. OwnerInv'
    BY SMTT(40) DEF FnPanics, TypeOK, OwnerInv, LocalInv, CallsInv, Owner, Executing, Flight, Result, NewFlight, NoResult, Labels
  <1>4. CallsInv'
    BY SMTT(40) DEF FnPanics, TypeOK, CallsInv, LocalInv, OwnerInv, Owner, Executing, Flight, Result, NewFlight, NoResult, Labels
  <1>5. EndedInv'
    BY SMTT(40) DEF FnPanics, TypeOK, EndedInv, LocalInv, OwnerInv, CallsInv, Owner, Executing, Flight, Result, NewFlight, NoResult, Labels
  <1>6. ResultInv'
    BY Zenon DEF FnPanics, TypeOK, ResultInv, LocalInv, OwnerInv, CallsInv, Owner, Executing, Flight, Result, NewFlight, NoResult, Labels
  <1> QED  BY <1>1, <1>2, <1>3, <1>4, <1>5, <1>6

\* DeleteCall preserves the invariant.
LEMMA DeleteCallPreserves ==
    ASSUME IInv, NEW c \in Callers, DeleteCall(c)
    PROVE  IInv'
  <1> USE SingleFlightAssumption DEF Flights, Results, IInv, Goto
  <1>1. TypeOK'
    BY Zenon DEF DeleteCall, TypeOK, LocalInv, Owner, Flight, Result, NewFlight, NoResult, Labels
  <1>2. LocalInv'
    BY SMTT(40) DEF DeleteCall, TypeOK, LocalInv, OwnerInv, CallsInv, Owner, Executing, Flight, Result, NewFlight, NoResult, Labels
  <1>3. OwnerInv'
    BY SMTT(40) DEF DeleteCall, TypeOK, OwnerInv, LocalInv, CallsInv, Owner, Executing, Flight, Result, NewFlight, NoResult, Labels
  <1>4. CallsInv'
    BY SMTT(40) DEF DeleteCall, TypeOK, CallsInv, LocalInv, OwnerInv, Owner, Executing, Flight, Result, NewFlight, NoResult, Labels
  <1>5. EndedInv'
    BY SMTT(40) DEF DeleteCall, TypeOK, EndedInv, LocalInv, OwnerInv, CallsInv, Owner, Executing, Flight, Result, NewFlight, NoResult, Labels
  <1>6. ResultInv'
    BY Zenon DEF DeleteCall, TypeOK, ResultInv, LocalInv, OwnerInv, CallsInv, Owner, Executing, Flight, Result, NewFlight, NoResult, Labels
  <1> QED  BY <1>1, <1>2, <1>3, <1>4, <1>5, <1>6

\* WgDone preserves the invariant.
LEMMA WgDonePreserves ==
    ASSUME IInv, NEW c \in Callers, WgDone(c)
    PROVE  IInv'
  <1> USE SingleFlightAssumption DEF Flights, Results, IInv, Goto, Return, LeaveDo
  <1>1. TypeOK'
    <2>1. ref[c] \in Flights /\ flight[ref[c]] \in Flight
      BY Zenon DEF WgDone, TypeOK, LocalInv
    <2>2. [flight[ref[c]] EXCEPT !.wg = 0] \in Flight
      BY Zenon, <2>1 DEF Flight
    <2>3. flight' \in [Flights -> Flight]
      BY Zenon, <2>1, <2>2 DEF WgDone, TypeOK
    <2>4. [val |-> flight[ref[c]].val, fresh |-> TRUE, from |-> ref[c]] \in Result
      BY Zenon, <2>1 DEF Flight, Result
    <2>5. result' \in [Callers -> Result]
      BY Zenon, <2>4 DEF WgDone, TypeOK
    <2> QED  BY Zenon, <2>3, <2>5 DEF WgDone, TypeOK, Labels
  <1>2. LocalInv'
    BY DEF WgDone, TypeOK, LocalInv, OwnerInv, CallsInv, Owner, Executing, Flight, Result, NewFlight, NoResult, Labels
  <1>3. OwnerInv'
    BY DEF WgDone, TypeOK, OwnerInv, LocalInv, CallsInv, Owner, Executing, Flight, Result, NewFlight, NoResult, Labels
  <1>4. CallsInv'
    BY DEF WgDone, TypeOK, CallsInv, LocalInv, OwnerInv, Owner, Executing, Flight, Result, NewFlight, NoResult, Labels
  <1>5. EndedInv'
    BY SMTT(40) DEF WgDone, TypeOK, EndedInv, LocalInv, OwnerInv, CallsInv, Owner, Executing, Flight, Result, NewFlight, NoResult, Labels
  <1>6. ResultInv'
    <2>1. ref[c] \in 1..flights /\ flight[ref[c]].wg = 1 /\ flight[ref[c]] \in Flight
      BY Zenon DEF WgDone, TypeOK, LocalInv, Owner
    <2>2. \A d \in Callers : result[d].from # ref[c]
      BY <2>1 DEF ResultInv
    <2>3. flight'[ref[c]].wg = 0 /\ flight'[ref[c]].val = flight[ref[c]].val
      BY <2>1 DEF WgDone, TypeOK, Flight
    <2>4. \A f \in 1..flights : f # ref[c] => flight'[f] = flight[f]
      BY DEF WgDone, TypeOK
    <2>5. flights' = flights
      BY Zenon DEF WgDone
    <2>6. \A d \in Callers : d # c => result'[d] = result[d]
      BY Zenon DEF WgDone, TypeOK
    <2>7. \/ result'[c] = [val |-> flight[ref[c]].val, fresh |-> TRUE, from |-> ref[c]]
          \/ result'[c] = result[c]
      BY ZenonT(40) DEF WgDone, TypeOK
    <2>8. ASSUME NEW d \in Callers, result'[d].from # None
          PROVE  /\ result'[d].from \in 1..flights'
                 /\ flight'[result'[d].from].wg = 0
                 /\ result'[d].val = flight'[result'[d].from].val
      <3>1. CASE result'[d] = result[d]
        BY SMTT(40), <3>1, <2>2, <2>4, <2>5, <2>8 DEF ResultInv
      <3>2. CASE d = c /\ result'[c] # result[c]
        BY SMTT(40), <3>2, <2>1, <2>3, <2>5, <2>7
      <3> QED  BY Zenon, <3>1, <3>2, <2>6
    <2>9. ASSUME NEW d \in Callers, NEW e \in Callers, d # e,
                 result'[d].from # None, result'[d].from = result'[e].from
          PROVE  ~(result'[d].fresh /\ result'[e].fresh)
      BY SMTT(40), <2>2, <2>6, <2>7, <2>9 DEF ResultInv
    <2> QED  BY Zenon, <2>8, <2>9 DEF ResultInv
  <1> QED  BY <1>1, <1>2, <1>3, <1>4, <1>5, <1>6

\* WgWait preserves the invariant.
LEMMA WgWaitPreserves ==
    ASSUME IInv, NEW c \in Callers, WgWait(c)
    PROVE  IInv'
  <1> USE SingleFlightAssumption DEF Flights, Results, IInv, Goto, Return, LeaveDo
  <1>1. TypeOK'
    BY SMTT(30) DEF WgWait, TypeOK, LocalInv, Owner, Flight, Result, NewFlight, NoResult, Labels
  <1>2. LocalInv'
    BY SMTT(40) DEF WgWait, TypeOK, LocalInv, OwnerInv, CallsInv, Owner, Executing, Flight, Result, NewFlight, NoResult, Labels
  <1>3. OwnerInv'
    BY SMTT(40) DEF WgWait, TypeOK, OwnerInv, LocalInv, CallsInv, Owner, Executing, Flight, Result, NewFlight, NoResult, Labels
  <1>4. CallsInv'
    BY Zenon DEF WgWait, TypeOK, CallsInv, LocalInv, OwnerInv, Owner, Executing, Flight, Result, NewFlight, NoResult, Labels
  <1>5. EndedInv'
    BY SMTT(40) DEF WgWait, TypeOK, EndedInv, LocalInv, OwnerInv, CallsInv, Owner, Executing, Flight, Result, NewFlight, NoResult, Labels
  <1>6. ResultInv'
    BY DEF WgWait, TypeOK, ResultInv, LocalInv, OwnerInv, CallsInv, Owner, Executing, Flight, Result, NewFlight, NoResult, Labels
  <1> QED  BY <1>1, <1>2, <1>3, <1>4, <1>5, <1>6

\* Every step preserves the invariant.
LEMMA NextIInv == IInv /\ [Next]_vars => IInv'
  <1> SUFFICES ASSUME IInv, [Next]_vars
               PROVE  IInv'
    BY ZenonT(40)
  <1>1. CASE UNCHANGED vars
    BY SMTT(40), <1>1 DEF vars, IInv, TypeOK, LocalInv, OwnerInv, CallsInv, EndedInv, ResultInv, Owner,
               Executing
  <1>2. ASSUME NEW c \in Callers, NEW k \in Keys, Invoke(c, k)
        PROVE  IInv'
    BY Zenon, <1>2, InvokePreserves
  <1>3. ASSUME NEW c \in Callers, Step(c)
        PROVE  IInv'
    BY Zenon, <1>3, JoinCallPreserves, CreateCallPreserves, FnReturnsPreserves, FnPanicsPreserves,
       DeleteCallPreserves, WgDonePreserves, WgWaitPreserves DEF Step
  <1> QED  BY Zenon, <1>1, <1>2, <1>3 DEF Next

\* The invariant holds in every reachable state.
LEMMA Inductive == Spec => []IInv
  BY InitIInv, NextIInv, PTL DEF Spec

\* Every variable of the flight group keeps its type.
THEOREM TypeCorrect == Spec => []TypeOK
  BY Inductive, PTL DEF IInv

\* createCall lets at most one goroutine into makeCall per key.
THEOREM SingleExecution == Spec => []OneExecutionPerKey
  <1>1. IInv => OneExecutionPerKey
    BY SMTT(40) DEF IInv, LocalInv, OwnerInv, OneExecutionPerKey, Owner, Executing
  <1> QED  BY <1>1, Inductive, PTL

\* The delete of makeCall comes before wg.Done, so Do never returns a result that
\* was there before it was called.
THEOREM Freshness == Spec => []NoStaleResult
  <1>1. IInv => NoStaleResult
    BY Zenon DEF IInv, EndedInv, NoStaleResult
  <1> QED  BY <1>1, Inductive, PTL

\* Nobody sits in wg.Wait for a flight without an owner.
THEOREM NoAbandonedFlight == Spec => []WaiterHasOwner
  <1>1. IInv => WaiterHasOwner
    BY SMTT(40) DEF IInv, TypeOK, LocalInv, OwnerInv, WaiterHasOwner, Owner, Labels
  <1> QED  BY <1>1, Inductive, PTL

\* Goroutines that share a flight return the same values, one of them as fresh.
THEOREM Sharing == Spec => []SharersAgree
  <1>1. IInv => SharersAgree
    BY Zenon DEF IInv, ResultInv, SharersAgree
  <1> QED  BY <1>1, Inductive, PTL

\* Together: what Do and DoEx promise, for any number of goroutines and keys.
THEOREM FlightsShared == Spec => []FlightsAreShared
  BY SingleExecution, Freshness, NoAbandonedFlight, Sharing, PTL DEF FlightsAreShared
-----------------------------------------------------------------------------
\* LockedCalls of core/syncx/lockedcalls.go runs the calls of a key one after the other, for any
\* number of callers and keys.

\* A caller has a key from its call to its return.
HasKey == \A c \in Callers : lockedPc[c] # "idle" => lockedKey[c] \in Keys

\* The WaitGroup in lg.m is that of the caller that runs fn with the key,
OwnerRuns ==
    \A k \in Keys : locked[k] # None => lockedPc[locked[k]] \in {"fn", "delete"} /\ lockedKey[locked[k]] = k

\* and a caller that runs fn has its WaitGroup there: two of them have different keys.
RunnerOwns == \A c \in Callers : lockedPc[c] \in {"fn", "delete"} => locked[lockedKey[c]] = c

\* WaiterHasCall, and only callers in wg.Wait wait.
WaitsForOwner ==
    \A c \in Callers :
        on[c] # None => /\ lockedPc[c] = "wait"
                        /\ lockedPc[on[c]] \in {"fn", "delete", "done"} /\ lockedKey[on[c]] = lockedKey[c]

LCInv == LockedTypeOK /\ HasKey /\ OwnerRuns /\ RunnerOwns /\ WaitsForOwner

\* The steps of a caller of Do keep the invariant, one conjunct at a time.
LEMMA CallsStepKeeps ==
    ASSUME LockedCallsAssumption, LCInv, NEW c \in Callers, LockedStep(c)
    PROVE  LCInv'
<1> USE DEF LockedCallsAssumption, LCInv, LockedTypeOK, HasKey, OwnerRuns, RunnerOwns, WaitsForOwner, LockedGo
<1>1. CASE LockedJoin(c)
  BY SMTT(40), <1>1 DEF LockedJoin
<1>2. CASE LockedMakeCall(c)
  BY SMTT(40), <1>2 DEF LockedMakeCall
<1>3. CASE LockedAwake(c)
  BY SMTT(40), <1>3 DEF LockedAwake
<1>4. CASE LockedFnReturns(c)
  BY SMTT(40), <1>4 DEF LockedFnReturns
<1>5. CASE LockedDelete(c)
  BY SMTT(40), <1>5 DEF LockedDelete
<1>6. CASE LockedDone(c)
  BY SMTT(40), <1>6 DEF LockedDone
<1> QED
  BY ZenonT(40), <1>1, <1>2, <1>3, <1>4, <1>5, <1>6 DEF LockedStep

\* So does a new call: nobody waits for a caller that is idle.
LEMMA NewCallKeeps ==
    ASSUME LockedCallsAssumption, LCInv, NEW c \in Callers, NEW k \in Keys, LockedCall(c, k)
    PROVE  LCInv'
  BY DEF LockedCallsAssumption, LCInv, LockedTypeOK, HasKey, OwnerRuns, RunnerOwns, WaitsForOwner, LockedGo, LockedCall

\* Do runs the calls of a key one after the other, and who waits waits for a call of its own key
\* that has still to release it, for any number of callers and keys.
THEOREM CallsAreSequential ==
    ASSUME LockedCallsAssumption
    PROVE  LockedSpec => [](Sequential /\ WaiterHasCall)
<1>1. LockedInit => LCInv
  BY Zenon DEF LockedCallsAssumption, LockedInit, LCInv, LockedTypeOK, HasKey, OwnerRuns, RunnerOwns, WaitsForOwner
<1>2. LCInv /\ [LockedNext]_(lockedVars) => LCInv'
  <2> SUFFICES ASSUME LCInv, [LockedNext]_(lockedVars) PROVE LCInv'
    OBVIOUS
  <2>1. CASE UNCHANGED lockedVars
    BY Zenon, <2>1 DEF lockedVars, LCInv, LockedTypeOK, HasKey, OwnerRuns, RunnerOwns, WaitsForOwner
  <2>2. CASE LockedNext
    BY Zenon, <2>2, CallsStepKeeps, NewCallKeeps DEF LockedNext
  <2> QED
    BY <2>1, <2>2
<1>3. LCInv => Sequential /\ WaiterHasCall
  BY DEF LCInv, LockedTypeOK, HasKey, RunnerOwns, WaitsForOwner, Sequential, WaiterHasCall
<1> QED
  BY <1>1, <1>2, <1>3, PTL DEF LockedSpec
-----------------------------------------------------------------------------
\* Facts about finite sets and what they count.
INSTANCE FiniteSetTheorems

\* The parts count subsets of a finite set W of goroutines or tasks.  What Cardinality is of such a
\* set, and after u has joined it,
LEMMA CountJoin ==
    ASSUME NEW W, IsFiniteSet(W), NEW S \in SUBSET W, NEW u \in W
    PROVE  /\ Cardinality(S) \in Nat
           /\ Cardinality(S \cup {u}) = IF u \in S THEN Cardinality(S) ELSE Cardinality(S) + 1
  BY Zenon, FS_Subset, FS_CardinalityType, FS_AddElement

\* or left it.
LEMMA CountLeave ==
    ASSUME NEW W, IsFiniteSet(W), NEW S \in SUBSET W, NEW u \in W
    PROVE  /\ Cardinality(S \ {u}) \in Nat
           /\ Cardinality(S \ {u}) = IF u \in S THEN Cardinality(S) - 1 ELSE Cardinality(S)
  BY Zenon, FS_Subset, FS_CardinalityType, FS_RemoveElement

\* What the proofs use of the two.
LEMMA Count ==
    ASSUME NEW W, IsFiniteSet(W), NEW S \in SUBSET W, NEW u \in W
    PROVE  /\ Cardinality(S) \in Nat /\ Cardinality(S \ {u}) \in Nat
           /\ u \in S => Cardinality(S \ {u}) = Cardinality(S) - 1
           /\ u \notin S => Cardinality(S \cup {u}) = Cardinality(S) + 1
           /\ u \notin S => S \ {u} = S
           /\ Cardinality(S \ {u}) >= Cardinality(S) - 1
<1>1. /\ Cardinality(S) \in Nat
      /\ Cardinality(S \cup {u}) = IF u \in S THEN Cardinality(S) ELSE Cardinality(S) + 1
  BY Zenon, CountJoin
<1>2. /\ Cardinality(S \ {u}) \in Nat
      /\ Cardinality(S \ {u}) = IF u \in S THEN Cardinality(S) - 1 ELSE Cardinality(S)
  BY Zenon, CountLeave
<1> QED
  BY <1>1, <1>2

\* Two sets together.
LEMMA CountUnion ==
    ASSUME NEW S, IsFiniteSet(S), NEW T, IsFiniteSet(T)
    PROVE  /\ Cardinality(S) \in Nat /\ Cardinality(T) \in Nat
           /\ Cardinality(S \cup T) \in Nat
           /\ Cardinality(S \cup T) <= Cardinality(S) + Cardinality(T)
           /\ S \cap T = {} => Cardinality(S \cup T) = Cardinality(S) + Cardinality(T)
<1>1. IsFiniteSet(S \cup T) /\ IsFiniteSet(S \cap T)
  BY Zenon, FS_Union, FS_Intersection
<1>2. /\ Cardinality(S) \in Nat /\ Cardinality(T) \in Nat
      /\ Cardinality(S \cup T) \in Nat /\ Cardinality(S \cap T) \in Nat
  BY Zenon, <1>1, FS_CardinalityType
<1>3. Cardinality(S \cup T) = Cardinality(S) + Cardinality(T) - Cardinality(S \cap T)
  BY Zenon, FS_Union
<1>4. S \cap T = {} => Cardinality(S \cap T) = 0
  BY Zenon, FS_EmptySet
<1> QED
  BY <1>2, <1>3, <1>4
-----------------------------------------------------------------------------
\* TimeoutLimit of core/syncx/timeoutlimit.go, for any number of users and any limit.

TL == INSTANCE TimeoutLimit

\* Cardinality and IsFiniteSet are those of the part.
LEMMA TLSameCount ==
    ASSUME NEW S
    PROVE  TL!Cardinality(S) = Cardinality(S) /\ TL!IsFiniteSet(S) = IsFiniteSet(S)
  BY Zenon DEF Cardinality, TL!Cardinality, IsFiniteSet, TL!IsFiniteSet

TLPlaces == {"idle", "enter", "wait", "signalled", "holding", "signal"}
TLType ==
    /\ DOMAIN tl = {"pc", "pool", "dropped"}
    /\ tl.pc \in [Users -> TLPlaces] /\ tl.pool \in Nat /\ tl.dropped \in BOOLEAN

TLHolders  == {u \in Users : tl.pc[u] = "holding"}
TLSignals  == {u \in Users : tl.pc[u] \in {"signal", "signalled"}}
TLSleepers == {u \in Users : tl.pc[u] \in {"enter", "wait"}}

\* While somebody is on the way to the select or in it, there are as many signals under way as
\* tokens are free, unless one was dropped: a borrower comes this way only when no token is free,
\* and each token that comes back brings its signal.
TLSignalled ==
    TLSleepers # {} => tl.dropped \/ Limit - tl.pool <= Cardinality(TLSignals)

TLInv ==
    /\ TLType /\ tl.pool <= Limit
    /\ tl.pool = Cardinality(TLHolders)
    /\ TLSignalled

\* Nobody has a token at first, and the pool is empty.
LEMMA TLInit ==
    ASSUME TL!TimeoutLimitAssumption, TL!Init
    PROVE  TLInv
<1>1. TLHolders = {} /\ TLSleepers = {}
  BY Zenon DEF TL!Init, TLHolders, TLSleepers
<1> QED
  BY <1>1, FS_EmptySet
  DEF TL!TimeoutLimitAssumption, TL!Init, TLInv, TLType, TLPlaces, TLSignalled

\* What a step counts for that takes user u to l.
LEMMA TLGoes ==
    ASSUME TL!TimeoutLimitAssumption, TLType, NEW u \in Users, NEW l \in TLPlaces,
           tl'.pc = [tl.pc EXCEPT ![u] = l]
    PROVE  /\ TLHolders' = IF l = "holding" THEN TLHolders \cup {u} ELSE TLHolders \ {u}
           /\ TLSignals' = IF l \in {"signal", "signalled"} THEN TLSignals \cup {u}
                           ELSE TLSignals \ {u}
           /\ TLSleepers' = IF l \in {"enter", "wait"} THEN TLSleepers \cup {u}
                            ELSE TLSleepers \ {u}
  BY DEF TLType, TLPlaces, TLHolders, TLSignals, TLSleepers

\* The numbers of borrowers and of signals when user u joins or leaves them.
LEMMA TLCount ==
    ASSUME TL!TimeoutLimitAssumption, NEW u \in Users
    PROVE  /\ Cardinality(TLHolders) \in Nat /\ Cardinality(TLHolders \ {u}) \in Nat
           /\ u \in TLHolders => Cardinality(TLHolders \ {u}) = Cardinality(TLHolders) - 1
           /\ u \notin TLHolders => Cardinality(TLHolders \cup {u}) = Cardinality(TLHolders) + 1
           /\ u \notin TLHolders => TLHolders \ {u} = TLHolders
           /\ Cardinality(TLSignals) \in Nat /\ Cardinality(TLSignals \ {u}) \in Nat
           /\ Cardinality(TLSignals \ {u}) >= Cardinality(TLSignals) - 1
           /\ u \notin TLSignals => Cardinality(TLSignals \cup {u}) = Cardinality(TLSignals) + 1
           /\ u \notin TLSignals => TLSignals \ {u} = TLSignals
<1>1. IsFiniteSet(Users)
  BY Zenon, TLSameCount DEF TL!TimeoutLimitAssumption
<1>2. ASSUME NEW S \in SUBSET Users
      PROVE  /\ Cardinality(S) \in Nat /\ Cardinality(S \ {u}) \in Nat
             /\ u \in S => Cardinality(S \ {u}) = Cardinality(S) - 1
             /\ u \notin S => Cardinality(S \cup {u}) = Cardinality(S) + 1
             /\ u \notin S => S \ {u} = S
             /\ Cardinality(S \ {u}) >= Cardinality(S) - 1
  BY Zenon, <1>1, Count
<1>3. TLHolders \in SUBSET Users /\ TLSignals \in SUBSET Users
  BY Zenon DEF TLHolders, TLSignals
<1> QED
  BY Zenon, <1>2, <1>3

\* A borrower takes a token: it had none, and one signal at most was for it.
LEMMA TLTake ==
    ASSUME TL!TimeoutLimitAssumption, TLInv, NEW u \in Users, TL!Take(u),
           tl.pc[u] \in {"idle", "signalled"}
    PROVE  TLInv'
<1>1. TLType' /\ tl'.pool = tl.pool + 1 /\ tl'.pc = [tl.pc EXCEPT ![u] = "holding"]
      /\ tl'.dropped = (tl.dropped /\ tl.pool + 1 < Limit) /\ tl.pool < Limit
  BY DEF TLInv, TLType, TLPlaces, TL!Take
<1>2. TLHolders' = TLHolders \cup {u} /\ TLSignals' = TLSignals \ {u}
      /\ TLSleepers' = TLSleepers \ {u}
  BY Zenon, <1>1, TLGoes DEF TLInv, TLPlaces
<1>3. u \notin TLHolders
  BY Zenon DEF TLHolders
<1>4. tl'.pool = Cardinality(TLHolders')
  BY Zenon, <1>1, <1>2, <1>3, TLCount DEF TLInv
<1>5. /\ Cardinality(TLSignals) \in Nat /\ Cardinality(TLSignals \ {u}) \in Nat
      /\ Cardinality(TLSignals \ {u}) >= Cardinality(TLSignals) - 1
      /\ u \notin TLSignals => Cardinality(TLSignals \ {u}) = Cardinality(TLSignals)
  BY ZenonT(40), TLCount
<1>6. TLSignalled'
  BY SMTT(40), <1>1, <1>2, <1>3, <1>5 DEF TLInv, TLType, TLSignalled, TL!TimeoutLimitAssumption
<1> QED
  BY <1>1, <1>4, <1>6 DEF TLInv, TLType, TL!TimeoutLimitAssumption

\* A borrower that finds no token free, or whose timer fires, changes nothing that is counted
\* while the pool is not full.
LEMMA TLMoves ==
    ASSUME TL!TimeoutLimitAssumption, TLInv, NEW u \in Users, NEW l \in {"idle", "enter", "wait"},
           tl' = [tl EXCEPT !.pc[u] = l],
           \/ tl.pool = Limit /\ tl.pc[u] \in {"idle", "signalled"}
           \/ tl.pc[u] \in {"enter", "wait"}
    PROVE  TLInv'
<1>1. TLType' /\ tl'.pool = tl.pool /\ tl'.pc = [tl.pc EXCEPT ![u] = l]
      /\ tl'.dropped = tl.dropped
  <2>1. DOMAIN tl = {"pc", "pool", "dropped"} /\ tl.pc \in [Users -> TLPlaces]
    BY Zenon DEF TLInv, TLType
  <2>2. /\ DOMAIN tl' = DOMAIN tl /\ tl'.pool = tl.pool /\ tl'.dropped = tl.dropped
        /\ tl'.pc = [tl.pc EXCEPT ![u] = l]
    BY Zenon, <2>1
  <2>3. l \in TLPlaces
    BY Zenon DEF TLPlaces
  <2>4. tl'.pc \in [Users -> TLPlaces]
    BY Zenon, <2>1, <2>2, <2>3
  <2> QED
    BY Zenon, <2>2, <2>4 DEF TLInv, TLType
<1>2. TLHolders' = TLHolders \ {u} /\ TLSignals' = TLSignals \ {u}
      /\ TLSleepers' \subseteq TLSleepers \cup {u}
  <2>1. TLType /\ l \in TLPlaces /\ tl'.pc = [tl.pc EXCEPT ![u] = l]
    BY Zenon, <1>1 DEF TLInv, TLPlaces
  <2>2. /\ TLHolders' = IF l = "holding" THEN TLHolders \cup {u} ELSE TLHolders \ {u}
        /\ TLSignals' = IF l \in {"signal", "signalled"} THEN TLSignals \cup {u}
                        ELSE TLSignals \ {u}
        /\ TLSleepers' = IF l \in {"enter", "wait"} THEN TLSleepers \cup {u}
                         ELSE TLSleepers \ {u}
    BY Zenon, <2>1, TLGoes
  <2>3. l # "holding" /\ l \notin {"signal", "signalled"}
    OBVIOUS
  <2> QED
    BY Zenon, <2>2, <2>3
<1>3. /\ u \notin TLHolders
      /\ tl.pool = Limit \/ (u \in TLSleepers /\ u \notin TLSignals)
  BY Zenon DEF TLHolders, TLSleepers, TLSignals
<1>4. tl'.pool = Cardinality(TLHolders')
  BY Zenon, <1>1, <1>2, <1>3, TLCount DEF TLInv
<1>5. /\ Cardinality(TLSignals) \in Nat /\ Cardinality(TLSignals \ {u}) \in Nat
      /\ Cardinality(TLSignals \ {u}) >= Cardinality(TLSignals) - 1
      /\ u \notin TLSignals => Cardinality(TLSignals \ {u}) = Cardinality(TLSignals)
  BY ZenonT(40), TLCount
<1>6. TLSignalled'
  BY SMTT(40), <1>1, <1>2, <1>3, <1>5 DEF TLInv, TLType, TLSignalled, TL!TimeoutLimitAssumption
<1> QED
  BY Zenon, <1>1, <1>4, <1>6 DEF TLInv, TLType, TL!TimeoutLimitAssumption

\* Return: one token less, one signal more.
LEMMA TLReturn ==
    ASSUME TL!TimeoutLimitAssumption, TLInv, NEW u \in Users, TL!Return(u)
    PROVE  TLInv'
<1>1. u \in TLHolders /\ u \notin TLSignals /\ u \notin TLSleepers
  BY Zenon DEF TL!Return, TL!At, TLHolders, TLSignals, TLSleepers
<1>2. Cardinality(TLHolders) \in Nat /\ Cardinality(TLHolders \ {u}) = tl.pool - 1
      /\ Cardinality(TLHolders \ {u}) \in Nat
  BY Zenon, <1>1, TLCount DEF TLInv
<1>3. TLType' /\ tl'.pool = tl.pool - 1 /\ tl'.pc = [tl.pc EXCEPT ![u] = "signal"]
      /\ tl'.dropped = tl.dropped
  BY Zenon, <1>2 DEF TLInv, TLType, TLPlaces, TL!Return, TL!At
<1>4. TLHolders' = TLHolders \ {u} /\ TLSignals' = TLSignals \cup {u}
      /\ TLSleepers' = TLSleepers \ {u}
  BY ZenonT(40), <1>3, TLGoes DEF TLInv, TLPlaces
<1> QED
  BY SMTT(40), <1>1, <1>2, <1>3, <1>4, TLCount
  DEF TLInv, TLType, TLSignalled, TL!TimeoutLimitAssumption

\* Signal: a goroutine in the select takes the signal over, or it is dropped.
LEMMA TLSignal ==
    ASSUME TL!TimeoutLimitAssumption, TLInv, NEW u \in Users, TL!Signal(u)
    PROVE  TLInv'
<1>1. u \in TLSignals /\ u \notin TLHolders
  BY Zenon DEF TL!Signal, TL!At, TLSignals, TLHolders
<1>2. CASE tl' = [tl EXCEPT !.pc[u] = "idle", !.dropped = TRUE]
  <2>1. TLType' /\ tl'.pool = tl.pool /\ tl'.pc = [tl.pc EXCEPT ![u] = "idle"] /\ tl'.dropped
    BY Zenon, <1>2 DEF TLInv, TLType, TLPlaces
  <2>2. TLHolders' = TLHolders \ {u}
    BY Zenon, <2>1, TLGoes DEF TLInv, TLPlaces
  <2> QED
    BY Zenon, <1>1, <2>1, <2>2, TLCount DEF TLInv, TLSignalled
<1>3. ASSUME NEW w \in Users, TL!At(w, "wait"),
             tl' = [tl EXCEPT !.pc[u] = "idle", !.pc[w] = "signalled"]
      PROVE  TLInv'
  <2>1. TLType' /\ tl'.pool = tl.pool /\ tl'.dropped = tl.dropped
        /\ tl'.pc = [tl.pc EXCEPT ![u] = "idle", ![w] = "signalled"]
    BY Zenon, <1>3 DEF TLInv, TLType, TLPlaces
  <2>2. TLHolders' = TLHolders /\ TLSignals' = (TLSignals \ {u}) \cup {w}
        /\ w \notin TLSignals /\ w \in TLSleepers
    BY <1>1, <1>3, <2>1 DEF TLInv, TLType, TLHolders, TLSignals, TLSleepers, TL!At
  <2>3. Cardinality((TLSignals \ {u}) \cup {w}) = Cardinality(TLSignals)
    <3>1. IsFiniteSet(Users) /\ TLSignals \ {u} \in SUBSET Users /\ TLSignals \in SUBSET Users
      BY Zenon, TLSameCount DEF TL!TimeoutLimitAssumption, TLSignals
    <3>2. Cardinality((TLSignals \ {u}) \cup {w}) = Cardinality(TLSignals \ {u}) + 1
      BY SMTT(40), <2>2, <3>1, CountJoin
    <3>3. Cardinality(TLSignals \ {u}) = Cardinality(TLSignals) - 1 /\ Cardinality(TLSignals) \in Nat
      BY SMTT(40), <1>1, <3>1, CountLeave, CountJoin
    <3> QED
      BY SMTT(40), <3>2, <3>3
  <2> QED
    BY Zenon, <2>1, <2>2, <2>3 DEF TLInv, TLSignalled
<1> QED
  BY Zenon, <1>2, <1>3 DEF TL!Signal

\* Every token in the pool belongs to a borrower, and nobody sleeps while a token is free unless a
\* signal is under way or was dropped, for any number of users and any limit.
THEOREM TokensAreHeld ==
    ASSUME TL!TimeoutLimitAssumption
    PROVE  TL!Spec => [](TL!TokensHeld /\ TL!OnlyDroppedSignalStrands)
<1>1. TLInv /\ [TL!Next]_tl => TLInv'
  <2> SUFFICES ASSUME TLInv, [TL!Next]_tl PROVE TLInv'
    OBVIOUS
  <2>1. CASE UNCHANGED tl
    BY Zenon, <2>1 DEF TLInv, TLType, TLSignalled, TLHolders, TLSignals, TLSleepers
  <2>2. ASSUME NEW u \in Users, TL!Borrow(u) \/ TL!Enter(u) \/ TL!TimesOut(u) \/ TL!Retry(u)
        PROVE  TLInv'
    BY SMTT(40), <2>2, TLTake, TLMoves DEF TL!Borrow, TL!Enter, TL!TimesOut, TL!Retry, TL!At
  <2> QED
    BY SMTT(40), <2>1, <2>2, TLReturn, TLSignal DEF TL!Next
<1>2. TLInv => TL!TokensHeld /\ TL!OnlyDroppedSignalStrands
  <2> SUFFICES ASSUME TLInv PROVE TL!TokensHeld /\ TL!OnlyDroppedSignalStrands
    OBVIOUS
  <2>1. TL!TokensHeld
    BY Zenon, TLSameCount DEF TLInv, TL!TokensHeld, TLHolders, TL!At
  <2>2. ASSUME NEW u \in Users, TL!At(u, "wait"), tl.pool < Limit, ~tl.dropped
        PROVE  \E w \in Users : TL!At(w, "signal") \/ TL!At(w, "signalled")
    <3>1. TLSleepers # {}
      BY Zenon, <2>2 DEF TLSleepers, TL!At
    <3>2. Cardinality(TLSignals) # 0
      BY <2>2, <3>1 DEF TLInv, TLType, TLSignalled, TL!TimeoutLimitAssumption
    <3>3. TLSignals # {}
      BY SMTT(40), <3>2, FS_EmptySet
    <3> QED
      BY Zenon, <3>3 DEF TLSignals, TL!At
  <2> QED
    BY Zenon, <2>1, <2>2 DEF TL!OnlyDroppedSignalStrands
<1> QED
  BY <1>1, <1>2, TLInit, PTL DEF TL!Spec
-----------------------------------------------------------------------------
\* The pool of core/syncx/pool.go neither creates more resources than its limit nor loses a
\* wakeup, for any number of users and any limit.

P == INSTANCE Pool

\* Cardinality and IsFiniteSet are those of the part.
LEMMA PSameCount ==
    ASSUME NEW S
    PROVE  P!Cardinality(S) = Cardinality(S) /\ P!IsFiniteSet(S) = IsFiniteSet(S)
  BY DEF Cardinality, P!Cardinality, IsFiniteSet, P!IsFiniteSet

\* A user holds a resource, waits, or has been woken, but not two of these.
PoolApart == /\ holding \cap waiting = {}
         /\ woken \cap holding = {}
         /\ woken \cap waiting = {}

\* The inductive invariant: Put signals a user that is not yet counted among the woken only
\* because waiting and woken are apart.
PoolInv == P!TypeOK /\ PoolApart /\ P!Conserved /\ P!NoLostWakeup

\* What is counted of the users.
LEMMA UsersCount ==
    ASSUME P!PoolAssumption, NEW S \in SUBSET Users, NEW u \in Users
    PROVE  /\ P!Cardinality(S) \in Nat
           /\ P!Cardinality(S \cup {u})
                = IF u \in S THEN P!Cardinality(S) ELSE P!Cardinality(S) + 1
           /\ P!Cardinality(S \ {u})
                = IF u \in S THEN P!Cardinality(S) - 1 ELSE P!Cardinality(S)
<1>1. IsFiniteSet(Users)
  BY Zenon, PSameCount DEF P!PoolAssumption
<1> QED
  BY SMTT(40), <1>1, CountJoin, CountLeave, PSameCount

\* An empty pool with nobody waiting.
LEMMA PoolInit ==
    ASSUME P!PoolAssumption
    PROVE  P!Init => PoolInv
  BY SMTT(40), FS_EmptySet, PSameCount DEF P!PoolAssumption, P!Init, PoolInv, P!TypeOK, PoolApart, P!Conserved, P!NoLostWakeup

\* Get keeps the invariant: it takes one of the resources that NoLostWakeup counts, and the
\* user that takes it leaves woken at most once; a user waits only when there is none.
LEMMA PoolGetKeeps ==
    ASSUME P!PoolAssumption, PoolInv, NEW u \in Users, P!Get(u)
    PROVE  PoolInv'
<1> USE DEF PoolInv, P!TypeOK, PoolApart, P!Conserved, P!NoLostWakeup
<1>1. u \notin holding /\ u \notin waiting
  BY Zenon DEF P!Get
<1>2. P!Cardinality(holding \cup {u}) = P!Cardinality(holding) + 1 /\ P!Cardinality(holding) \in Nat
  <2>1. holding \in SUBSET Users
    OBVIOUS
  <2> QED
    BY Zenon, <1>1, <2>1, UsersCount
<1>2a. /\ P!Cardinality(woken) \in Nat /\ P!Cardinality(woken \ {u}) \in Nat
      /\ P!Cardinality(woken \ {u}) >= P!Cardinality(woken) - 1
  <2>1. woken \in SUBSET Users /\ woken \ {u} \in SUBSET Users
    OBVIOUS
  <2>2. P!Cardinality(woken) \in Nat /\ P!Cardinality(woken \ {u}) \in Nat
    BY Zenon, <2>1, UsersCount
  <2>3. P!Cardinality(woken \ {u}) = IF u \in woken THEN P!Cardinality(woken) - 1
                                                  ELSE P!Cardinality(woken)
    BY ZenonT(40), <2>1, UsersCount
  <2> QED
    BY <2>2, <2>3
<1>3. CASE P!Reuse(u)
  <2>1. PICK e \in 0 .. idle - 1 : /\ idle' = idle - e - 1 /\ created' = created - e
                                   /\ holding' = holding \cup {u} /\ woken' = woken \ {u}
                                   /\ UNCHANGED waiting
    BY ZenonT(40), <1>3 DEF P!Reuse
  <2>2. P!TypeOK' /\ PoolApart'
    BY SMTT(40), <1>1, <1>2, <2>1
  <2>3. P!Conserved'
    BY SMTT(40), <1>2, <2>1 DEF P!PoolAssumption
  <2>4. P!NoLostWakeup'
    BY SMTT(40), <1>2a, <2>1 DEF P!PoolAssumption
  <2> QED
    BY SMTT(40), <2>2, <2>3, <2>4
<1>4. CASE P!Create(u)
  BY SMTT(40), <1>2a, <1>1, <1>2, <1>4 DEF P!Create, P!PoolAssumption
<1>5. CASE P!Wait(u)
  BY SMTT(40), <1>2a, <1>1, <1>2, <1>5 DEF P!Wait, P!PoolAssumption
<1> QED
  BY Zenon, <1>3, <1>4, <1>5 DEF P!Get

\* Put keeps it: the resource that comes back goes with a user that is woken, if one waits.
LEMMA PoolPutKeeps ==
    ASSUME P!PoolAssumption, PoolInv, NEW u \in Users, P!Put(u)
    PROVE  PoolInv'
<1> USE DEF PoolInv, P!TypeOK, PoolApart, P!Conserved, P!NoLostWakeup
<1>1. /\ P!Cardinality(holding \ {u}) = P!Cardinality(holding) - 1
      /\ P!Cardinality(holding) \in Nat /\ P!Cardinality(holding \ {u}) \in Nat
      /\ P!Cardinality(woken) \in Nat
  <2>1. holding \in SUBSET Users /\ holding \ {u} \in SUBSET Users /\ woken \in SUBSET Users
    OBVIOUS
  <2> QED
    BY Zenon, <2>1, UsersCount DEF P!Put
<1>2. CASE waiting = {}
  BY SMTT(40), <1>1, <1>2 DEF P!Put, P!PoolAssumption
<1>3. CASE waiting # {}
  <2>1. PICK w \in waiting : waiting' = waiting \ {w} /\ woken' = woken \cup {w}
    BY Zenon, <1>3 DEF P!Put
  <2>2. w \in Users /\ w \notin woken /\ woken \in SUBSET Users
    OBVIOUS
  <2>3. P!Cardinality(woken \cup {w}) = P!Cardinality(woken) + 1
    BY Zenon, <2>2, UsersCount
  <2> QED
    BY SMTT(40), <1>1, <2>1, <2>2, <2>3 DEF P!Put, P!PoolAssumption
<1> QED
  BY Zenon, <1>2, <1>3

\* The resource pool is safe for any number of users and any limit: created is the number of
\* resources and never above limit, and no signal of Put is lost.
THEOREM PoolIsSafe ==
    ASSUME P!PoolAssumption
    PROVE  P!Spec => [](P!Conserved /\ P!NoLostWakeup)
<1>1. P!Init => PoolInv
  BY SMTT(40), PoolInit
<1>2. PoolInv /\ [P!Next]_(P!vars) => PoolInv'
  <2> SUFFICES ASSUME PoolInv, [P!Next]_(P!vars) PROVE PoolInv'
    OBVIOUS
  <2>1. CASE UNCHANGED P!vars
    BY Zenon, <2>1 DEF P!vars, PoolInv, P!TypeOK, PoolApart, P!Conserved, P!NoLostWakeup
  <2>2. CASE P!Next
    BY SMTT(40), <2>2, PoolGetKeeps, PoolPutKeeps DEF P!Next
  <2> QED
    BY <2>1, <2>2
<1>3. PoolInv => P!Conserved /\ P!NoLostWakeup
  BY Zenon DEF PoolInv
<1> QED
  BY <1>1, <1>2, <1>3, PTL DEF P!Spec
-----------------------------------------------------------------------------
\* The three parts that make goroutines wait for their turn.

\* Pool: no more resources than the limit, and one that is free while users wait is on its way to a
\* user that Put has woken.  LockedCalls: calls with one key do not overlap, and a caller waits for
\* one that is going on.  TimeoutLimit: tokens belong to borrowers, and a borrower sleeps while one is
\* free only if a signal is on its way or was dropped before the borrower had reached its select.
TurnsAreKept ==
    /\ P!Conserved /\ P!NoLostWakeup
    /\ Sequential /\ WaiterHasCall
    /\ TL!TokensHeld /\ TL!OnlyDroppedSignalStrands

\* The waiting parts keep their turns, for any number of goroutines, keys and resources and any limit.
THEOREM TurnsAreAlwaysKept ==
    ASSUME P!PoolAssumption, LockedCallsAssumption, TL!TimeoutLimitAssumption
    PROVE  P!Spec /\ LockedSpec /\ TL!Spec => []TurnsAreKept
  BY PoolIsSafe, CallsAreSequential, TokensAreHeld, PTL DEF TurnsAreKept
=============================================================================
