------------------------- MODULE PeriodicalExecutor -------------------------
(***************************************************************************)
(* PeriodicalExecutor of core/executors/periodicalexecutor.go with the     *)
(* containers of bulkexecutor.go (every task has size 1) and               *)
(* chunkexecutor.go (tasks have sizes).                                    *)
(*                                                                         *)
(* Callers are goroutines that use the executor; flushers are the          *)
(* background goroutines of backgroundFlush.  pe.lock makes addAndCheck,   *)
(* RemoveAll and shallQuit's check atomic.  time.Since(last) is abstracted *)
(* to a choice: the idle period has or has not elapsed.                    *)
(***************************************************************************)
EXTENDS Naturals, FiniteSetsExt, TLC

CONSTANTS
    Callers,     \* goroutines that call Add, Flush and Wait
    Flushers,    \* goroutines that backgroundFlush may start
    Tasks,       \* tasks, each added once
    Size,        \* size of each task
    Threshold,   \* maxTasks of bulkContainer, maxChunkSize of chunkContainer
    None,        \* no goroutine
    MaxPanics    \* how often the execute callback panics

ASSUME ExecutorAssumption ==
    /\ IsFiniteSet(Callers) /\ IsFiniteSet(Flushers)
    /\ Callers \cap Flushers = {}
    /\ None \notin Callers \cup Flushers
    /\ Size \in [Tasks -> Nat]
    /\ Threshold \in Nat \ {0}
    /\ MaxPanics \in Nat

VARIABLES
    container,   \* tasks in the container
    size,        \* len(bc.tasks), or chunkContainer.size
    commander,   \* the batch in the channel's buffer of one, {} when it is empty
    inflight,    \* pe.inflight
    guarded,     \* pe.guarded
    waitGroup,   \* counter of pe.waitGroup
    barrier,     \* goroutine that holds pe.wgBarrier across waitGroup.Wait
    pc,          \* where each goroutine is
    mode,        \* why a goroutine is in enterExecution/executeTasks
    batch,       \* the local vals of each goroutine
    commanded,   \* the local commanded of each flusher
    mine,        \* ghost: tasks each caller has added
    runs,        \* ghost: how often each task was given to the execute callback
    panics       \* number of panics of the execute callback so far

contVars == <<container, size>>
flagVars == <<inflight, guarded>>
wgVars   == <<waitGroup, barrier>>
ghosts   == <<mine, runs, panics>>

vars == <<contVars, commander, flagVars, wgVars, pc, mode, batch, commanded, ghosts>>

Procs == Callers \cup Flushers

\* cmd, tick: the two cases of the select; final: the deferred Flush; panic: the
\* stack unwinds; flush, wait: Flush and Wait called by a caller.
Modes == {"cmd", "tick", "final", "panic", "flush", "wait"}

CallerLabels == {"idle", "spawn", "send", "confirm", "enter", "remove", "exec", "done",
                 "barrier", "waiting"}

FlusherLabels == {"dead", "select", "dec", "enter", "confirm", "remove", "exec", "done", "quit"}

Added == {t \in Tasks : \E c \in Callers : t \in mine[c]}

Executed == {t \in Tasks : runs[t] > 0}

TypeOK ==
    /\ container \in SUBSET Tasks
    /\ size \in Nat
    /\ commander \in SUBSET Tasks
    /\ inflight \in Nat
    /\ guarded \in BOOLEAN
    /\ waitGroup \in Nat
    /\ barrier \in Callers \cup {None}
    /\ pc \in [Procs -> CallerLabels \cup FlusherLabels]
    /\ \A c \in Callers : pc[c] \in CallerLabels
    /\ \A f \in Flushers : pc[f] \in FlusherLabels
    /\ mode \in [Procs -> Modes]
    /\ batch \in [Procs -> SUBSET Tasks]
    /\ commanded \in [Flushers -> BOOLEAN]
    /\ mine \in [Callers -> SUBSET Tasks]
    /\ runs \in [Tasks -> Nat]
    /\ panics \in 0..MaxPanics

Init ==
    /\ container = {}
    /\ size = 0
    /\ commander = {}
    /\ inflight = 0
    /\ guarded = FALSE
    /\ waitGroup = 0
    /\ barrier = None
    /\ pc = [p \in Procs |-> IF p \in Callers THEN "idle" ELSE "dead"]
    /\ mode = [p \in Procs |-> "flush"]
    /\ batch = [p \in Procs |-> {}]
    /\ commanded = [f \in Flushers |-> FALSE]
    /\ mine = [c \in Callers |-> {}]
    /\ runs = [t \in Tasks |-> 0]
    /\ panics = 0

Goto(p, from, to) == pc[p] = from /\ pc' = [pc EXCEPT ![p] = to]

-----------------------------------------------------------------------------
(* Add *)

\* AddTask of the two containers: the task is appended; is a flush due?
Full(t) == size + Size[t] >= Threshold

\* Mutant of AddAndCheck: a full container is copied, not emptied.
AddAndCheckKeeps(c, t) ==
    /\ pc[c] = "idle" /\ t \notin Added
    /\ mine' = [mine EXCEPT ![c] = @ \cup {t}]
    /\ container' = container \cup {t}
    /\ size' = IF Full(t) THEN 0 ELSE size + Size[t]
    /\ batch' = IF Full(t) THEN [batch EXCEPT ![c] = container \cup {t}] ELSE batch
    /\ inflight' = IF Full(t) THEN inflight + 1 ELSE inflight
    /\ guarded' = TRUE
    /\ pc' = [pc EXCEPT ![c] = IF ~guarded THEN "spawn" ELSE IF Full(t) THEN "send" ELSE "idle"]
    /\ UNCHANGED <<commander, wgVars, mode, commanded, runs, panics>>

\* addAndCheck, under pe.lock: a full container is emptied into the caller's
\* batch and counted in inflight; the first Add without a flusher raises guarded
\* and will start one.
AddAndCheck(c, t) ==
    /\ pc[c] = "idle"
    /\ t \notin Added
    /\ mine' = [mine EXCEPT ![c] = @ \cup {t}]
    /\ IF Full(t)
       THEN /\ container' = {}
            /\ size' = 0
            /\ batch' = [batch EXCEPT ![c] = container \cup {t}]
            /\ inflight' = inflight + 1
       ELSE /\ container' = container \cup {t}
            /\ size' = size + Size[t]
            /\ UNCHANGED <<batch, inflight>>
    /\ guarded' = TRUE
    /\ pc' = [pc EXCEPT ![c] = IF ~guarded THEN "spawn" ELSE IF Full(t) THEN "send" ELSE "idle"]
    /\ UNCHANGED <<commander, wgVars, mode, commanded, runs, panics>>

\* The deferred backgroundFlush of addAndCheck starts a flusher after the unlock.
BackgroundFlush(c, f) ==
    /\ pc[c] = "spawn"
    /\ pc[f] = "dead"
    /\ pc' = [pc EXCEPT ![c] = IF batch[c] = {} THEN "idle" ELSE "send", ![f] = "select"]
    /\ commanded' = [commanded EXCEPT ![f] = FALSE]
    /\ UNCHANGED <<contVars, commander, flagVars, wgVars, mode, batch, ghosts>>

\* pe.commander <- vals
Send(c) ==
    /\ Goto(c, "send", "confirm")
    /\ commander = {}
    /\ commander' = batch[c]
    /\ batch' = [batch EXCEPT ![c] = {}]
    /\ UNCHANGED <<contVars, flagVars, wgVars, mode, commanded, ghosts>>

\* The unbuffered confirmChan: a flusher's send meets some caller's receive.
Confirm(f, c) ==
    /\ pc[f] = "confirm" /\ pc[c] = "confirm"
    /\ pc' = [pc EXCEPT ![f] = "exec", ![c] = "idle"]
    /\ UNCHANGED <<contVars, commander, flagVars, wgVars, mode, batch, commanded, ghosts>>

-----------------------------------------------------------------------------
(* enterExecution and executeTasks, shared by Flush, Wait and the flushers *)

StartFlush(p, from, m) ==
    /\ Goto(p, from, "enter")
    /\ mode' = [mode EXCEPT ![p] = m]

CallFlush(c, m) ==
    /\ StartFlush(c, "idle", m)
    /\ UNCHANGED <<contVars, commander, flagVars, wgVars, batch, commanded, ghosts>>

\* waitGroup.Add(1) inside the barrier, which a waiting caller may hold.
EnterExecution(p) ==
    /\ Goto(p, "enter", IF mode[p] = "cmd" THEN "confirm" ELSE "remove")
    /\ barrier = None
    /\ waitGroup' = waitGroup + 1
    /\ UNCHANGED <<contVars, commander, flagVars, barrier, mode, batch, commanded, ghosts>>

\* Mutant of RemoveAll: bc.size is not reset.
RemoveAllKeepsSize(p) ==
    /\ Goto(p, "remove", "exec")
    /\ batch' = [batch EXCEPT ![p] = container]
    /\ container' = {}
    /\ UNCHANGED <<size, commander, flagVars, wgVars, mode, commanded, ghosts>>

\* The argument of executeTasks in Flush: container.RemoveAll under pe.lock.
RemoveAll(p) ==
    /\ Goto(p, "remove", "exec")
    /\ batch' = [batch EXCEPT ![p] = container]
    /\ container' = {}
    /\ size' = 0
    /\ UNCHANGED <<commander, flagVars, wgVars, mode, commanded, ghosts>>

Ran(tasks) == [t \in Tasks |-> IF t \in tasks THEN runs[t] + 1 ELSE runs[t]]

\* container.Execute(tasks) when hasTasks(tasks).
ExecuteTasks(p) ==
    /\ Goto(p, "exec", "done")
    /\ runs' = Ran(batch[p])
    /\ UNCHANGED <<contVars, commander, flagVars, wgVars, mode, batch, commanded, mine, panics>>

\* The execute callback was given the tasks and panics.
ExecutePanics(p) ==
    /\ Goto(p, "exec", "done")
    /\ batch[p] # {} /\ panics < MaxPanics
    /\ panics' = panics + 1
    /\ runs' = Ran(batch[p])
    /\ mode' = [mode EXCEPT ![p] = IF mode[p] \in {"cmd", "tick"} THEN "panic"
                                   ELSE IF mode[p] = "wait" THEN "flush" ELSE @]
    /\ UNCHANGED <<contVars, commander, flagVars, wgVars, batch, commanded, mine>>

\* Where executeTasks returns to: the select loop, the check for quitting after a
\* Flush that found nothing, the deferred Flush, or the caller.
AfterExecute(p) ==
    CASE mode[p] = "cmd" -> "select"
      [] mode[p] = "tick" -> IF batch[p] # {} THEN "select" ELSE "quit"
      [] mode[p] = "final" -> "dead"
      [] mode[p] = "panic" -> "enter"
      [] mode[p] = "flush" -> "idle"
      [] mode[p] = "wait" -> "barrier"

\* The deferred doneExecution of executeTasks: waitGroup.Done().
DoneExecution(p) ==
    /\ Goto(p, "done", AfterExecute(p))
    /\ waitGroup' = waitGroup - 1
    /\ batch' = [batch EXCEPT ![p] = {}]
    /\ mode' = IF mode[p] = "panic" THEN [mode EXCEPT ![p] = "final"] ELSE mode
    /\ UNCHANGED <<contVars, commander, flagVars, barrier, commanded, ghosts>>

-----------------------------------------------------------------------------
(* Wait, after its Flush *)

\* wgBarrier.Guard locks the barrier ...
LockBarrier(c) ==
    /\ Goto(c, "barrier", "waiting")
    /\ barrier = None
    /\ barrier' = c
    /\ UNCHANGED <<contVars, commander, flagVars, waitGroup, mode, batch, commanded, ghosts>>

\* Mutant of WaitReturns: only the barrier is taken and released.
WaitReturnsUnchecked(c) ==
    /\ Goto(c, "waiting", "idle")
    /\ barrier' = None
    /\ UNCHANGED <<contVars, commander, flagVars, waitGroup, mode, batch, commanded, ghosts>>

\* ... and holds it until waitGroup.Wait returns.
WaitReturns(c) ==
    /\ Goto(c, "waiting", "idle")
    /\ waitGroup = 0
    /\ barrier' = None
    /\ UNCHANGED <<contVars, commander, flagVars, waitGroup, mode, batch, commanded, ghosts>>

-----------------------------------------------------------------------------
(* The loop of backgroundFlush *)

\* case vals := <-pe.commander
Receive(f) ==
    /\ Goto(f, "select", "dec")
    /\ commander # {}
    /\ batch' = [batch EXCEPT ![f] = commander]
    /\ commander' = {}
    /\ commanded' = [commanded EXCEPT ![f] = TRUE]
    /\ UNCHANGED <<contVars, flagVars, wgVars, mode, ghosts>>

\* atomic.AddInt32(&pe.inflight, -1)
DecInflight(f) ==
    /\ StartFlush(f, "dec", "cmd")
    /\ inflight' = inflight - 1
    /\ UNCHANGED <<contVars, commander, guarded, wgVars, batch, commanded, ghosts>>

\* case <-ticker.Chan(), just after a command: skip one round.
TickCommanded(f) ==
    /\ pc[f] = "select"
    /\ commanded[f]
    /\ commanded' = [commanded EXCEPT ![f] = FALSE]
    /\ UNCHANGED <<contVars, commander, flagVars, wgVars, pc, mode, batch, ghosts>>

\* case <-ticker.Chan(), otherwise: Flush.
TickFlush(f) ==
    /\ ~commanded[f]
    /\ StartFlush(f, "select", "tick")
    /\ UNCHANGED <<contVars, commander, flagVars, wgVars, batch, commanded, ghosts>>

\* shallQuit returns false: too early, or a batch is in flight.
StayOn(f) ==
    /\ Goto(f, "quit", "select")
    /\ UNCHANGED <<contVars, commander, flagVars, wgVars, mode, batch, commanded, ghosts>>

\* Mutant of Quit: inflight is not looked at.
QuitUnchecked(f) ==
    /\ StartFlush(f, "quit", "final")
    /\ guarded' = FALSE
    /\ UNCHANGED <<contVars, commander, inflight, wgVars, batch, commanded, ghosts>>

\* Mutant of Quit: the deferred Flush is missing.
QuitNoFlush(f) ==
    /\ Goto(f, "quit", "dead")
    /\ inflight = 0
    /\ guarded' = FALSE
    /\ UNCHANGED <<contVars, commander, inflight, wgVars, mode, batch, commanded, ghosts>>

\* shallQuit returns true under pe.lock; the deferred Flush follows.
Quit(f) ==
    /\ StartFlush(f, "quit", "final")
    /\ inflight = 0
    /\ guarded' = FALSE
    /\ UNCHANGED <<contVars, commander, inflight, wgVars, batch, commanded, ghosts>>

-----------------------------------------------------------------------------
Execution(p) ==
    EnterExecution(p) \/ RemoveAll(p) \/ ExecuteTasks(p) \/ ExecutePanics(p) \/ DoneExecution(p)

CallerStep(c) ==
    \/ \E f \in Flushers : BackgroundFlush(c, f)
    \/ Send(c)
    \/ LockBarrier(c)
    \/ WaitReturns(c)

FlusherStep(f) ==
    \/ \E c \in Callers : Confirm(f, c)
    \/ Receive(f)
    \/ DecInflight(f)
    \/ TickCommanded(f)
    \/ TickFlush(f)
    \/ StayOn(f)
    \/ Quit(f)

Call(c) ==
    \/ \E t \in Tasks : AddAndCheck(c, t)
    \/ \E m \in {"flush", "wait"} : CallFlush(c, m)

Next ==
    \/ \E c \in Callers : Call(c) \/ CallerStep(c)
    \/ \E f \in Flushers : FlusherStep(f)
    \/ \E p \in Procs : Execution(p)

Spec == Init /\ [][Next]_vars

\* Goroutines keep running and the execute callback terminates: weak fairness.
\* Strong fairness where a step competes with others: the barrier is a sync.Mutex,
\* which does not starve, and select picks among its ready cases at random.
FairSpec ==
    /\ Spec
    /\ \A c \in Callers : WF_vars(CallerStep(c)) /\ SF_vars(LockBarrier(c))
    /\ \A f \in Flushers : WF_vars(FlusherStep(f)) /\ SF_vars(Receive(f))
    /\ \A p \in Procs : WF_vars(Execution(p)) /\ SF_vars(EnterExecution(p))

-----------------------------------------------------------------------------
\* Tasks a goroutine has taken and not yet given to the execute callback.
Holding(p) == IF pc[p] = "done" THEN {} ELSE batch[p]

\* A task that was added is in exactly one place: the container, a goroutine's
\* batch, the commander channel, or executed.  No hand-over loses or copies it.
TasksConserved ==
    \A t \in Tasks :
        /\ runs[t] <= 1
        /\ t \in Added <=> \/ t \in container
                           \/ t \in commander
                           \/ t \in Executed
                           \/ \E p \in Procs : t \in Holding(p)
        /\ t \in container => t \notin commander /\ t \notin Executed
        /\ t \in commander => t \notin Executed
        /\ \A p \in Procs : t \in Holding(p) =>
              /\ t \notin container /\ t \notin commander /\ t \notin Executed
              /\ \A q \in Procs : t \in Holding(q) => p = q

\* A goroutine that will be back in the select loop, or start one that will.
Serving(p) ==
    \/ pc[p] \in {"spawn", "select", "dec", "quit"}
    \/ p \in Flushers /\ pc[p] = "confirm"
    \/ p \in Flushers /\ pc[p] \in {"enter", "remove", "exec", "done"} /\ mode[p] \in {"cmd", "tick"}

\* guarded never promises a flusher that is not there, and there are never two:
\* raising it in addAndCheck and dropping it in shallQuit are both under pe.lock.
OneFlusher ==
    /\ \A p, q \in Procs : Serving(p) /\ Serving(q) => p = q
    /\ panics = 0 => (guarded <=> \E p \in Procs : Serving(p))

\* Batches between addAndCheck and the flusher that received them.
Undelivered ==
    {b \in (SUBSET Tasks) \ {{}} :
        \/ b = commander
        \/ \E c \in Callers : pc[c] \in {"spawn", "send"} /\ batch[c] = b
        \/ \E f \in Flushers : pc[f] = "dec" /\ batch[f] = b}

\* inflight counts those batches, so a flusher that quits leaves none behind:
\* whatever is on its way to the commander has a flusher to receive it.
NoOrphanBatch ==
    /\ inflight = Cardinality(Undelivered)
    /\ Undelivered # {} => guarded

\* What pe.lock, guarded and inflight promise together: every task that Add took is in one place or
\* was executed once, and a batch that is cut has the one flusher that will receive it.
BatchesAreKept == TasksConserved /\ OneFlusher /\ NoOrphanBatch

InExecution(p) ==
    pc[p] \in {"remove", "exec", "done"} \/ (p \in Flushers /\ pc[p] = "confirm")

\* When Wait returns no goroutine is between enterExecution and doneExecution,
\* and the barrier kept newcomers out meanwhile.
WaitIsQuiescent ==
    [][\A c \in Callers : pc[c] = "waiting" /\ pc'[c] = "idle" =>
          \A p \in Procs : ~InExecution(p)]_vars

\* The containers agree with their contents and never keep a full load: a batch
\* is cut as soon as it reaches the threshold.
ContainerBelowThreshold ==
    /\ size < Threshold
    /\ size = MapThenSumSet(LAMBDA t : Size[t], container)

\* periodicalexecutor.go:91, "Wait waits the execution to be done": when Wait
\* returns, the tasks this goroutine added before have been executed.
WaitCoversOwnTasks ==
    [][\A c \in Callers : pc[c] = "waiting" /\ pc'[c] = "idle" => mine[c] \subseteq Executed]_vars

\* Every task is executed in the end, by a full batch, a tick or a quitting
\* flusher ("flush before quit goroutine to avoid missing tasks").
TasksExecuted == \A t \in Tasks : t \in Added ~> t \in Executed

\* The executor implements the pool of tasks that are executed at most once.
Pool == INSTANCE TaskPool WITH added <- Added

ImplementsTaskPool == Pool!Spec
\* Add, Flush and Wait return: no caller is stuck at the commander, for want of a
\* confirmation or at the barrier.  Callers are alike, so one stands for all.
CallerReturns ==
    LET c == CHOOSE c \in Callers : TRUE IN pc[c] # "idle" ~> pc[c] = "idle"
-----------------------------------------------------------------------------
\* For TLC: the sizes of tasks in the two kinds of containers.  bulkContainer: len(bc.tasks) counts
\* every task once.
BulkSize == [t \in Tasks |-> 1]

\* chunkContainer: one task is as large as the chunk.
ChunkSize == [t \in Tasks |-> IF t = CHOOSE u \in Tasks : TRUE THEN Threshold ELSE 1]

\* Callers, flushers and tasks are alike where tasks have one size.
Symmetry == Permutations(Callers) \cup Permutations(Flushers) \cup Permutations(Tasks)
=============================================================================
