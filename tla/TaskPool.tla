------------------------------ MODULE TaskPool ------------------------------
(***************************************************************************)
(* What every executor of core/executors promises: a task handed to Add is *)
(* given to the execute callback at most once, in a batch with other tasks *)
(* that were added before and not yet executed.                            *)
(***************************************************************************)
EXTENDS Naturals

CONSTANT Tasks

VARIABLES
    added,       \* tasks handed to Add
    runs         \* how often each task was executed

vars == <<added, runs>>

Init == added = {} /\ runs = [t \in Tasks |-> 0]

Add(t) ==
    /\ t \notin added
    /\ added' = added \cup {t}
    /\ UNCHANGED runs

Waiting == {t \in added : runs[t] = 0}

Execute(batch) ==
    /\ batch # {}
    /\ runs' = [t \in Tasks |-> IF t \in batch THEN runs[t] + 1 ELSE runs[t]]
    /\ UNCHANGED added

Next ==
    \/ \E t \in Tasks : Add(t)
    \/ \E batch \in SUBSET Waiting : Execute(batch)

Spec == Init /\ [][Next]_vars
=============================================================================
