------------------------------ MODULE SafeMap ------------------------------
(***************************************************************************)
(* core/collection/safemap.go: a map that moves its entries from one Go    *)
(* map to another once many keys were deleted, so that the memory of the   *)
(* first can be freed.  Every operation holds the lock.                    *)
(***************************************************************************)
EXTENDS Naturals, FiniteSets

CONSTANTS
    Keys, Values,
    Nil,                \* no entry for a key
    CopyThreshold,      \* copyThreshold, 1000 in the code
    MaxDeletion,        \* maxDeletion, 10000 in the code
    MaxDeletions        \* bound on the deletions counted, for model checking

SafeMapAssumption ==
    /\ Nil \notin Values
    /\ CopyThreshold \in Nat /\ MaxDeletion \in Nat /\ MaxDeletions \in Nat

VARIABLES dirtyOld, dirtyNew, deletionOld, deletionNew

smVars == <<dirtyOld, dirtyNew, deletionOld, deletionNew>>

Empty  == [k \in Keys |-> Nil]
In(k, m) == m[k] # Nil
Size(m)  == Cardinality({k \in Keys : In(k, m)})

\* for k, v := range from { to[k] = v }
Copied(from, to) == [k \in Keys |-> IF In(k, from) THEN from[k] ELSE to[k]]

Init ==
    /\ dirtyOld = Empty /\ dirtyNew = Empty
    /\ deletionOld = 0 /\ deletionNew = 0

\* Mutant of Swap: the new map starts without the entries of the old one.
SwapLosing(old, new, dOld, dNew) ==
    IF dOld >= MaxDeletion /\ Size(old) < CopyThreshold
    THEN <<new, Empty, dNew, 0>>
    ELSE <<old, new, dOld, dNew>>

\* The first if of Del after the deletion: the old map is given up.
Swap(old, new, dOld, dNew) ==
    IF dOld >= MaxDeletion /\ Size(old) < CopyThreshold
    THEN <<Copied(old, new), Empty, dNew, 0>>
    ELSE <<old, new, dOld, dNew>>

\* The second one: the new map is given up.
Merge(old, new, dOld, dNew) ==
    IF dNew >= MaxDeletion /\ Size(new) < CopyThreshold
    THEN <<Copied(new, old), Empty, dOld, 0>>
    ELSE <<old, new, dOld, dNew>>

\* The maps and counters of Del before the two copies.
Deleted(k) ==
    IF In(k, dirtyOld)
    THEN <<[dirtyOld EXCEPT ![k] = Nil], dirtyNew, deletionOld + 1, deletionNew>>
    ELSE IF In(k, dirtyNew)
    THEN <<dirtyOld, [dirtyNew EXCEPT ![k] = Nil], deletionOld, deletionNew + 1>>
    ELSE <<dirtyOld, dirtyNew, deletionOld, deletionNew>>

Del(k) ==
    /\ deletionOld + deletionNew < MaxDeletions
    /\ LET d == Deleted(k)
           s == Swap(d[1], d[2], d[3], d[4])
           m == Merge(s[1], s[2], s[3], s[4])
       IN  /\ dirtyOld' = m[1] /\ dirtyNew' = m[2]
           /\ deletionOld' = m[3] /\ deletionNew' = m[4]

Set(k, v) ==
    /\ deletionOld + deletionNew < MaxDeletions
    /\ IF deletionOld <= MaxDeletion
       THEN /\ dirtyOld' = [dirtyOld EXCEPT ![k] = v]
            /\ dirtyNew' = [dirtyNew EXCEPT ![k] = Nil]
            /\ deletionNew' = IF In(k, dirtyNew) THEN deletionNew + 1 ELSE deletionNew
            /\ UNCHANGED deletionOld
       ELSE /\ dirtyNew' = [dirtyNew EXCEPT ![k] = v]
            /\ dirtyOld' = [dirtyOld EXCEPT ![k] = Nil]
            /\ deletionOld' = IF In(k, dirtyOld) THEN deletionOld + 1 ELSE deletionOld
            /\ UNCHANGED deletionNew

Next ==
    \E k \in Keys : Del(k) \/ \E v \in Values : Set(k, v)

Spec == Init /\ [][Next]_smVars

\* Get, as a value, for every key.
Get == [k \in Keys |-> IF In(k, dirtyOld) THEN dirtyOld[k] ELSE dirtyNew[k]]

TypeOK ==
    /\ dirtyOld \in [Keys -> Values \cup {Nil}] /\ dirtyNew \in [Keys -> Values \cup {Nil}]
    /\ deletionOld \in Nat /\ deletionNew \in Nat

-----------------------------------------------------------------------------
\* No key has an entry in both maps: an entry that Get does not look at would come back when
\* the other one is deleted, and Size would count it twice.
OneEntryPerKey == \A k \in Keys : ~(In(k, dirtyOld) /\ In(k, dirtyNew))

\* SafeMap is a map: what Get returns changes as Set and Del say, and a copy changes nothing.
M == INSTANCE KeyMap WITH map <- Get
IsAMap == M!Spec
=============================================================================
