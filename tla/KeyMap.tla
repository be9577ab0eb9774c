------------------------------- MODULE KeyMap -------------------------------
(***************************************************************************)
(* What a map with Set and Del promises.                                   *)
(***************************************************************************)
CONSTANTS Keys, Values, Nil

VARIABLE map

Init == map = [k \in Keys |-> Nil]

Set(k, v) == map' = [map EXCEPT ![k] = v]
Del(k)    == map' = [map EXCEPT ![k] = Nil]

Next ==
    \E k \in Keys : Del(k) \/ \E v \in Values : Set(k, v)

Spec == Init /\ [][Next]_map
=============================================================================
