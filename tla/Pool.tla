-------------------------------- MODULE Pool --------------------------------
(***************************************************************************)
(* The resource pool of core/syncx/pool.go: Get and Put under one lock,    *)
(* with a condition variable.  Resources are interchangeable, so the list  *)
(* of idle ones is its length; whether a resource is past its maximum age  *)
(* is a choice.  sync.Cond is external: Signal moves one waiter to woken,  *)
(* which has to get the lock again.                                        *)
(***************************************************************************)
EXTENDS Naturals, FiniteSets

CONSTANTS Users, Limit

PoolAssumption == IsFiniteSet(Users) /\ Limit \in Nat \ {0}

VARIABLES
    idle,       \* length of the list that starts at p.head
    created,
    holding,    \* users that have a resource
    waiting,    \* users in cond.Wait
    woken       \* users that were signalled and do not have the lock yet

vars == <<idle, created, holding, waiting, woken>>

TypeOK ==
    /\ idle \in Nat /\ created \in Nat
    /\ holding \subseteq Users /\ waiting \subseteq Users /\ woken \subseteq Users

Init == idle = 0 /\ created = 0 /\ holding = {} /\ waiting = {} /\ woken = {}

-----------------------------------------------------------------------------
\* The loop of Get under the lock: the first e idle resources are destroyed, and the
\* next one is returned.
Reuse(u) ==
    \E e \in 0..idle - 1 :
        /\ idle' = idle - e - 1 /\ created' = created - e
        /\ holding' = holding \cup {u} /\ woken' = woken \ {u}
        /\ UNCHANGED waiting

\* All idle resources are destroyed and a new one is created.
Create(u) ==
    /\ created - idle < Limit
    /\ idle' = 0 /\ created' = created - idle + 1
    /\ holding' = holding \cup {u} /\ woken' = woken \ {u}
    /\ UNCHANGED waiting

\* There is none and none may be created.
Wait(u) ==
    /\ idle = 0 /\ created >= Limit
    /\ waiting' = waiting \cup {u} /\ woken' = woken \ {u}
    /\ UNCHANGED <<idle, created, holding>>

Get(u) ==
    /\ u \notin holding \cup waiting
    /\ Reuse(u) \/ Create(u) \/ Wait(u)

\* Mutant of Put: nobody is signalled.
PutSilently(u) ==
    /\ u \in holding
    /\ idle' = idle + 1 /\ holding' = holding \ {u}
    /\ UNCHANGED <<created, waiting, woken>>

Put(u) ==
    /\ u \in holding
    /\ idle' = idle + 1 /\ holding' = holding \ {u}
    /\ IF waiting = {} THEN UNCHANGED <<waiting, woken>>
       ELSE \E w \in waiting : waiting' = waiting \ {w} /\ woken' = woken \cup {w}
    /\ UNCHANGED created

Next == \E u \in Users : Get(u) \/ Put(u)

Spec == Init /\ [][Next]_vars

-----------------------------------------------------------------------------
\* The pool never has more than limit resources, idle or with a user, and created counts
\* them, also when Get destroys old ones.
Conserved == created = idle + Cardinality(holding) /\ created <= Limit

\* While users wait, each resource that a Get could have belongs to one that was woken:
\* no signal of Put is lost, though another Get may be faster than the one woken.
NoLostWakeup == waiting # {} => idle + (Limit - created) <= Cardinality(woken)
=============================================================================
