---------------------------- MODULE TimeoutLimit ----------------------------
(***************************************************************************)
(* TimeoutLimit of core/syncx with the Limit and the Cond it is made of.   *)
(* The channel of Cond has no buffer: Signal reaches a goroutine in the    *)
(* select of WaitWithTimeout or is dropped.  How much of the timeout is    *)
(* left after a signal, and when the timer fires, is a choice.             *)
(***************************************************************************)
EXTENDS Naturals, FiniteSets

CONSTANTS Users, Limit

TimeoutLimitAssumption == IsFiniteSet(Users) /\ Limit \in Nat

VARIABLE tl     \* see TypeOK

TypeOK ==
    tl \in [pc      : [Users -> {"idle", "enter", "wait", "signalled", "holding", "signal"}],
            pool    : 0..Limit,      \* tokens in limit.pool
            dropped : BOOLEAN]       \* ghost: a Signal was dropped since the pool was full

Init == tl = [pc |-> [u \in Users |-> "idle"], pool |-> 0, dropped |-> FALSE]

At(u, l) == tl.pc[u] = l

\* TryBorrow succeeds.
Take(u) ==
    /\ tl.pool < Limit
    /\ tl' = [tl EXCEPT !.pool = @ + 1, !.pc[u] = "holding",
                        !.dropped = @ /\ tl.pool + 1 < Limit]

\* Borrow: at once, or the first TryBorrow fails and the borrower is about to wait.
Borrow(u) ==
    /\ At(u, "idle")
    /\ \/ Take(u)
       \/ tl.pool = Limit /\ tl' = [tl EXCEPT !.pc[u] = "enter"]

\* The goroutine reaches the select.
Enter(u) == At(u, "enter") /\ tl' = [tl EXCEPT !.pc[u] = "wait"]

\* The timer fires.
TimesOut(u) == At(u, "wait") /\ tl' = [tl EXCEPT !.pc[u] = "idle"]

\* A signal came: TryBorrow again, else give up or wait for what is left of the timeout.
Retry(u) ==
    /\ At(u, "signalled")
    /\ \/ Take(u)
       \/ tl.pool = Limit /\ \E l \in {"idle", "enter"} : tl' = [tl EXCEPT !.pc[u] = l]

\* Return gives the token back and then signals.
Return(u) ==
    /\ At(u, "holding")
    /\ tl' = [tl EXCEPT !.pool = @ - 1, !.pc[u] = "signal"]

Signal(u) ==
    /\ At(u, "signal")
    /\ \/ \E w \in Users :
            /\ At(w, "wait")
            /\ tl' = [tl EXCEPT !.pc[u] = "idle", !.pc[w] = "signalled"]
       \/ /\ \A w \in Users : ~At(w, "wait")
          /\ tl' = [tl EXCEPT !.pc[u] = "idle", !.dropped = TRUE]

Next == \E u \in Users :
    Borrow(u) \/ Enter(u) \/ TimesOut(u) \/ Retry(u) \/ Return(u) \/ Signal(u)

Spec == Init /\ [][Next]_tl

-----------------------------------------------------------------------------
\* Every token in the pool belongs to a borrower: Return never finds the pool empty.
TokensHeld == tl.pool = Cardinality({u \in Users : At(u, "holding")})

\* A borrower sleeps while a token is free only if a signal is on its way to a waiter or
\* was dropped because the borrower had not yet reached its select.
OnlyDroppedSignalStrands ==
    (\E u \in Users : At(u, "wait")) /\ tl.pool < Limit
        => tl.dropped \/ \E w \in Users : At(w, "signal") \/ At(w, "signalled")
=============================================================================
