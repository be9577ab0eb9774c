------------------------------ MODULE Cleaner ------------------------------
(***************************************************************************)
(* The clean tasks of core/stores/cache/cleaner.go: a delete that failed   *)
(* is tried again by a timer of the timing wheel, later each time.  Three  *)
(* parts wait for one another here: the loop of the wheel, the task runner *)
(* of drainAll, which that loop schedules on, and the task runner of       *)
(* clean, whose tasks set timers that only the loop accepts.  What is left *)
(* of the wheel is which tasks have an entry in it; when a timer fires is  *)
(* a choice (see TimingWheel).                                             *)
(***************************************************************************)
EXTENDS Naturals, FiniteSets

CONSTANTS
    Tasks,          \* clean tasks, each with a key of its own
    DrainWorkers,   \* drainWorkers, 8 in the code
    CleanWorkers,   \* cleanWorkers, 5 in the code
    Delays,         \* how many delays nextDelay knows, 5 in the code
    MaxDrains       \* bound on the calls of Drain

CleanerAssumption ==
    /\ IsFiniteSet(Tasks)
    /\ DrainWorkers \in Nat \ {0} /\ CleanWorkers \in Nat /\ Delays \in Nat \ {0}

VARIABLE cl

\* at is where a task is: sent to the wheel by AddCleanTask or by clean ("set", "retry"), in the
\* "wheel", with the goroutine of runTasks or of drainAll that calls clean ("fired", "drained"),
\* "running", or at an end.  known are the keys in timers of the wheel; tries counts the attempts.
Init ==
    cl = [at |-> [t \in Tasks |-> "none"], loop |-> "select", drains |-> 0, known |-> {},
          drained |-> {}, tries |-> [t \in Tasks |-> 0]]

In(places) == {t \in Tasks : cl.at[t] \in places}
Goes(t, place) == [cl EXCEPT !.at[t] = place]

\* AddCleanTask, on a goroutine of its own.
AddCleanTask(t) ==
    /\ cl.at[t] = "none"
    /\ cl' = Goes(t, "set")

\* The loop receives from setChannel: setTask.  drainAll leaves the key in timers, and moveTask then
\* changes an entry that no slot has any more, or makes a new one, as the positions are.
SetTask(t) ==
    /\ cl.at[t] \in {"set", "retry"} /\ cl.loop = "select"
    /\ \/ cl' = [Goes(t, "wheel") EXCEPT !.known = @ \cup {t}]
       \/ t \in cl.known /\ cl' = Goes(t, "lost")

\* Mutant of Fire: the key stays in timers.
FireKeepsKey(t) ==
    /\ cl.at[t] = "wheel" /\ cl.loop = "select"
    /\ cl' = Goes(t, "fired")

\* A tick: scanAndRunTasks hands a task to the goroutine of runTasks.
Fire(t) ==
    /\ cl.at[t] = "wheel" /\ cl.loop = "select"
    /\ cl' = [Goes(t, "fired") EXCEPT !.known = @ \ {t}]

\* The loop receives from drainChannel, which a shutdown listener sends to,
Drain ==
    /\ cl.loop = "select" /\ cl.drains < MaxDrains
    /\ cl' = [cl EXCEPT !.loop = "drain", !.drains = @ + 1]

\* and drainAll schedules every entry on its runner, which blocks at DrainWorkers goroutines.
CanDrain(t) == cl.at[t] = "wheel" /\ Cardinality(In({"drained"})) < DrainWorkers

DrainOne(t) ==
    /\ cl.loop = "drain" /\ CanDrain(t)
    /\ cl' = [Goes(t, "drained") EXCEPT !.drained = @ \cup {t}]

DrainEnds ==
    /\ cl.loop = "drain" /\ In({"wheel"}) = {}
    /\ cl' = [cl EXCEPT !.loop = "select"]

\* clean: Schedule of taskRunner, which blocks at CleanWorkers goroutines.
CanClean(t) ==
    cl.at[t] \in {"fired", "drained"} /\ Cardinality(In({"running", "retry"})) < CleanWorkers

Clean(t) ==
    /\ CanClean(t)
    /\ cl' = Goes(t, "running")

\* The task: the delete works, or is tried again after the next delay, or there is none.
Attempt(t) ==
    /\ cl.at[t] = "running"
    /\ \E end \in {"done", IF cl.tries[t] + 1 < Delays THEN "retry" ELSE "gaveUp"} :
          cl' = [Goes(t, end) EXCEPT !.tries[t] = @ + 1]

Next ==
    \/ Drain \/ DrainEnds
    \/ \E t \in Tasks :
          AddCleanTask(t) \/ SetTask(t) \/ Fire(t) \/ DrainOne(t) \/ Clean(t) \/ Attempt(t)

Spec == Init /\ [][Next]_cl

TypeOK ==
    /\ cl.at \in [Tasks -> {"none", "set", "retry", "wheel", "fired", "drained", "running",
                            "done", "gaveUp", "lost"}]
    /\ cl.loop \in {"select", "drain"} /\ cl.drains \in 0..MaxDrains
    /\ cl.tries \in [Tasks -> 0..Delays] /\ cl.known \cup cl.drained \subseteq Tasks
-----------------------------------------------------------------------------
\* drainAll, or a goroutine that it waits for, can take a step: DrainEnds, DrainOne, Clean or
\* Attempt.
DrainGoesOn ==
    \/ In({"wheel"}) = {}
    \/ \E t \in Tasks : CanDrain(t) \/ CanClean(t) \/ cl.at[t] = "running"

\* A Drain gets to every entry of the wheel, unless it and the failed tasks fill both task runners:
\* drainAll then waits for a goroutine that waits for one whose SetTimer waits for drainAll, and the
\* loop of the wheel (timingwheel.go:165, cleaner.go:52 and 62) never runs again.  That takes more
\* tasks than the two runners have room for.
OnlyFullPoolsBlockDrain ==
    cl.loop = "drain" /\ ~DrainGoesOn =>
        /\ Cardinality(In({"wheel", "drained", "retry"})) > DrainWorkers + CleanWorkers
        /\ Cardinality(In({"retry"})) = CleanWorkers

\* A clean task that does not succeed is tried after every delay that nextDelay knows, unless its
\* retry met the entry that a Drain had left behind in timers.
OnlyDrainLosesRetries ==
    \A t \in Tasks :
        /\ cl.at[t] = "gaveUp" => cl.tries[t] = Delays
        /\ cl.at[t] = "lost" => t \in cl.drained /\ cl.tries[t] < Delays

\* The delayed deletes are tried until they succeed or the delays are used up, and at the end of the
\* process once more, but for what a Drain blocks or loses.
OnlyDrainStopsTasks == OnlyFullPoolsBlockDrain /\ OnlyDrainLosesRetries
=============================================================================
