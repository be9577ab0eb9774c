------------------------------ MODULE Shutdown ------------------------------
(***************************************************************************)
(* core/proc/shutdown.go and core/service/servicegroup.go: the listeners   *)
(* that run when the process is told to end, one of them the stop of a     *)
(* service group, which its owner may call as well.                        *)
(*                                                                         *)
(* One listenerManager is modelled (wrap-up and shutdown are two of them,  *)
(* started one after the other).  The time until the process is killed is  *)
(* a nondeterministic end of everything.                                   *)
(***************************************************************************)
EXTENDS Naturals, FiniteSets

CONSTANTS
    Listeners,      \* the callers of AddShutdownListener, model values
    Group,          \* the listener of the service group, one of them
    Owner,          \* the caller of ServiceGroup.Stop
    Services        \* how many services the group has: 1 was added last

ShutdownAssumption == IsFiniteSet(Listeners)

VARIABLE sd

Stoppers == {Group, Owner}

\* count is lm.waitGroup; pc of a listener's caller; once is sync.Once of the group (its runner, or
\* "free", "done"), at the service whose Stop is next, running the services whose Start has not
\* returned.
Init ==
    sd = [signal |-> "none", count |-> 0, listeners |-> {}, called |-> [l \in Listeners |-> 0],
          todo |-> {}, pc |-> [l \in Listeners |-> "new"], stop |-> [p \in Stoppers |-> "idle"],
          once |-> "free", at |-> 1, running |-> 1..Services, started |-> TRUE,
          late |-> FALSE, panicked |-> FALSE]

Alive  == sd.signal # "killed"
Locked == sd.signal = "notify"

\* addListener: the wait group,
Add(l) ==
    /\ Alive /\ sd.pc[l] = "new"
    /\ sd' = [sd EXCEPT !.count = @ + 1, !.pc[l] = "counted"]

\* then the list, under the lock that notifyListeners holds until all listeners have returned.
Append(l) ==
    /\ Alive /\ sd.pc[l] = "counted" /\ ~Locked
    /\ sd' = [sd EXCEPT !.listeners = @ \cup {l}, !.pc[l] = "wait",
                        !.late = @ \/ sd.signal = "notified"]

\* waitForCalled.
Called(l) ==
    /\ Alive /\ sd.pc[l] = "wait" /\ sd.count = 0
    /\ sd' = [sd EXCEPT !.pc[l] = "returned"]

\* gracefulStop starts notifyListeners.
Notify ==
    /\ sd.signal = "none"
    /\ sd' = [sd EXCEPT !.signal = "notify", !.todo = sd.listeners,
                        !.stop[Group] = IF Group \in sd.listeners THEN "called" ELSE @]

\* A listener runs and returns; that of the group when its stopOnce has.
Call(l) ==
    /\ Locked /\ l \in sd.todo /\ (l = Group => sd.stop[Group] = "returned")
    /\ sd' = [sd EXCEPT !.todo = @ \ {l}, !.called[l] = @ + 1, !.count = @ - 1]

Notified ==
    /\ Locked /\ sd.todo = {}
    /\ sd' = [sd EXCEPT !.signal = "notified"]

Kill ==
    /\ sd.signal \in {"notify", "notified"}
    /\ sd' = [sd EXCEPT !.signal = "killed"]
-----------------------------------------------------------------------------
\* ServiceGroup.Stop.
Stop ==
    /\ Alive /\ sd.stop[Owner] = "idle"
    /\ sd' = [sd EXCEPT !.stop[Owner] = "called"]

\* stopOnce: the first caller runs doStop, the others wait until it is over.
Enter(p) ==
    /\ Alive /\ sd.stop[p] = "called" /\ sd.once = "free"
    /\ sd' = [sd EXCEPT !.once = "taken", !.stop[p] = "doStop"]

Leave(p) ==
    /\ Alive /\ sd.stop[p] = "called" /\ sd.once = "done"
    /\ sd' = [sd EXCEPT !.stop[p] = "returned"]

\* doStop stops one service after the other; a panic of one ends it, and RunSafe recovers it (in
\* the owner's goroutine it ends the process).
DoStop(p) ==
    /\ Alive /\ sd.stop[p] = "doStop"
    /\ IF sd.at <= Services
       THEN \/ sd' = [sd EXCEPT !.at = @ + 1, !.running = @ \ {sd.at}]
            \/ sd' = [sd EXCEPT !.panicked = TRUE, !.once = "done", !.stop[p] = "returned",
                                !.signal = IF p = Owner THEN "killed" ELSE @]
       ELSE sd' = [sd EXCEPT !.once = "done", !.stop[p] = "returned"]

\* The Start of the group returns when those of all services have.
StartReturns ==
    /\ Alive /\ sd.started /\ sd.running = {}
    /\ sd' = [sd EXCEPT !.started = FALSE]

Step ==
    \/ \E l \in Listeners : Append(l) \/ Called(l) \/ Call(l)
    \/ \E p \in Stoppers : Enter(p) \/ Leave(p) \/ DoStop(p)
    \/ Notified \/ StartReturns

Next == Step \/ (\E l \in Listeners : Add(l)) \/ Notify \/ Kill \/ Stop

Spec == Init /\ [][Next]_sd

\* Every goroutine goes on for as long as the process lives.
FairSpec == Spec /\ WF_sd(Step)

\* The wait group counts the listeners that have been added and not called.
TypeOK ==
    /\ sd.count <= Cardinality(Listeners)
    /\ \A l \in Listeners : sd.called[l] <= 1
-----------------------------------------------------------------------------
\* Once a caller of waitForCalled returns, its listener has been called: "The returned func can be
\* used to wait for fn getting called."
WaitedIsCalled ==
    \A l \in Listeners : sd.pc[l] = "returned" => sd.called[l] = 1

\* After a signal, every wait returns or the process is killed, unless a listener was counted and
\* not yet in the list when the listeners were notified: nobody calls it, and all others that wait
\* for the group wait with it.
OnlyLateListenerBlocksWait ==
    \A l \in Listeners :
        sd.signal # "none" /\ sd.pc[l] = "wait" ~>
            sd.pc[l] = "returned" \/ ~Alive \/ \E m \in Listeners : sd.called[m] = 0 /\ sd.count > 0
                                                                   /\ sd.signal = "notified"

\* A stop of the group, by a signal or by its owner, stops every service and lets Start return,
\* unless a service's Stop panics: the once is spent and the services after it are never stopped.
OnlyPanicLeavesService ==
    (\E p \in Stoppers : sd.stop[p] # "idle") ~> ~sd.started \/ ~Alive \/ sd.panicked
=============================================================================
