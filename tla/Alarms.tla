------------------------------- MODULE Alarms -------------------------------
(***************************************************************************)
(* What a timing wheel promises: per key an alarm, with a value, that goes *)
(* off when its number of ticks is over.  An alarm with no ticks left is   *)
(* one that was drained: it will not go off, but the key is still taken.   *)
(***************************************************************************)
EXTENDS Naturals

CONSTANTS
    Keys, Values,
    MaxSteps,   \* the longest delay
    None,       \* no alarm
    Slack       \* an alarm that is moved may be off by this number of ticks

VARIABLES
    alarm,   \* per key None, or the ticks that are left and the value
    fired    \* <<key, value>> of the alarms the last step set off

vars == <<alarm, fired>>

Init ==
    /\ alarm = [k \in Keys |-> None]
    /\ fired = {}

Ringing(k, d) == alarm[k] # None /\ alarm[k].left = d

Running(k) == alarm[k] # None /\ alarm[k].left > 0

FiredBy(ks) == fired' = {<<k, alarm[k].value>> : k \in ks}

Around(s) == {s, s + Slack} \cup {d \in 1..s : d + Slack = s}

\* The ticks that key k may get when it is set to s.
Delays(k, s) ==
    IF alarm[k] = None THEN {s} ELSE IF Running(k) THEN Around(s) ELSE {0, s}

Arm(k, s, v) ==
    /\ \E d \in Delays(k, s) : alarm' = [alarm EXCEPT ![k] = [left |-> d, value |-> v]]
    /\ fired' = {}

Set(k, s, v) == Arm(k, s, v)

Move(k, s) == alarm[k] # None /\ Arm(k, s, alarm[k].value)

\* An alarm that is moved to now goes off, and stays where it was.
MoveToNow(k) ==
    /\ alarm[k] # None
    /\ FiredBy({k})
    /\ UNCHANGED alarm

Remove(k) ==
    /\ alarm' = [alarm EXCEPT ![k] = None]
    /\ fired' = {}

Drain ==
    /\ FiredBy({k \in Keys : Running(k)})
    /\ alarm' = [k \in Keys |-> IF Running(k) THEN [alarm[k] EXCEPT !.left = 0] ELSE alarm[k]]

Tick ==
    /\ FiredBy({k \in Keys : Ringing(k, 1)})
    /\ alarm' = [k \in Keys |->
                    IF Ringing(k, 1) THEN None
                    ELSE IF Running(k) THEN [alarm[k] EXCEPT !.left = @ - 1]
                    ELSE alarm[k]]

\* A call without effect.
Idle == fired' = {} /\ UNCHANGED alarm

Next ==
    \/ \E k \in Keys, s \in 1..MaxSteps : Move(k, s) \/ \E v \in Values : Set(k, s, v)
    \/ \E k \in Keys : MoveToNow(k) \/ Remove(k)
    \/ Tick \/ Drain \/ Idle

Spec == Init /\ [][Next]_vars
=============================================================================
