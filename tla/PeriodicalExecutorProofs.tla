---------------------- MODULE PeriodicalExecutorProofs ----------------------
(***************************************************************************)
(* Safety of PeriodicalExecutor for any number of callers, flushers, tasks *)
(* and panics, and that it implements TaskPool.                            *)
(***************************************************************************)
EXTENDS PeriodicalExecutor, FiniteSetTheorems, TLAPS

Running(p) == pc[p] \in {"enter", "remove", "exec", "done"}

\* What the program counter says about the mode and the batch of a goroutine.
CallerLocal(c) ==
    /\ Running(c) => mode[c] \in {"flush", "wait"}
    /\ batch[c] # {} => pc[c] \in {"spawn", "send", "exec", "done"}
    /\ pc[c] = "send" => batch[c] # {}

FlusherLocal(f) ==
    /\ Running(f) => mode[f] \in {"cmd", "tick", "final", "panic"}
    /\ pc[f] = "enter" => mode[f] # "panic"
    /\ pc[f] = "remove" => mode[f] \in {"tick", "final"}
    /\ pc[f] = "confirm" => mode[f] = "cmd"
    /\ batch[f] # {} => \/ pc[f] \in {"dec", "confirm", "exec", "done"}
                        \/ pc[f] = "enter" /\ mode[f] = "cmd"
    /\ pc[f] = "dec" => batch[f] # {}

LocalInv ==
    /\ \A c \in Callers : CallerLocal(c)
    /\ \A f \in Flushers : FlusherLocal(f)

\* guarded is raised by whoever will serve.
GuardInv ==
    /\ OneFlusher
    /\ \A p \in Procs : Serving(p) => guarded

Executing == {p \in Procs : InExecution(p)}

\* The WaitGroup counts the goroutines between enterExecution and doneExecution.
WaitGroupInv == waitGroup = Cardinality(Executing)

InflightInv == NoOrphanBatch /\ IsFiniteSet(Undelivered)

\* The goroutines in execution are finitely many.
LEMMA ProcsFinite == IsFiniteSet(Executing) /\ Cardinality(Executing) \in Nat
  <1>1. IsFiniteSet(Procs)
    BY Zenon, ExecutorAssumption, FS_Union DEF Procs
  <1>2. Executing \subseteq Procs
    BY Zenon DEF Executing
  <1> QED  BY Zenon, <1>1, <1>2, FS_Subset, FS_CardinalityType

\* Every step keeps mode and batch in line with the program counter.
LEMMA LocalStep ==
    ASSUME TypeOK, LocalInv, [Next]_vars
    PROVE  LocalInv'
  <1> USE ExecutorAssumption DEF Procs, Goto, StartFlush, contVars, flagVars, wgVars, ghosts, TypeOK, LocalInv, CallerLocal, FlusherLocal,
             Running, CallerLabels, FlusherLabels, Modes, AfterExecute
  <1>1. ASSUME NEW c \in Callers, NEW t \in Tasks, AddAndCheck(c, t)
        PROVE  LocalInv'
    BY SMTT(40), <1>1 DEF AddAndCheck
  <1>2. ASSUME NEW c \in Callers, NEW f \in Flushers, BackgroundFlush(c, f)
        PROVE  LocalInv'
    BY <1>2 DEF BackgroundFlush
  <1>3. ASSUME NEW c \in Callers, Send(c)
        PROVE  LocalInv'
    BY Zenon, <1>3 DEF Send
  <1>4. ASSUME NEW f \in Flushers, NEW c \in Callers, Confirm(f, c)
        PROVE  LocalInv'
    BY <1>4 DEF Confirm
  <1>5. ASSUME NEW c \in Callers, NEW m \in {"flush", "wait"}, CallFlush(c, m)
        PROVE  LocalInv'
    BY <1>5 DEF CallFlush
  <1>6. ASSUME NEW c \in Callers, LockBarrier(c)
        PROVE  LocalInv'
    BY <1>6 DEF LockBarrier
  <1>7. ASSUME NEW c \in Callers, WaitReturns(c)
        PROVE  LocalInv'
    BY Zenon, <1>7 DEF WaitReturns
  <1>8. ASSUME NEW p \in Procs, EnterExecution(p)
        PROVE  LocalInv'
    BY <1>8 DEF EnterExecution
  <1>9. ASSUME NEW p \in Procs, RemoveAll(p)
        PROVE  LocalInv'
    BY <1>9 DEF RemoveAll
  <1>10. ASSUME NEW p \in Procs, ExecuteTasks(p)
        PROVE  LocalInv'
    BY ZenonT(40), <1>10 DEF ExecuteTasks
  <1>11. ASSUME NEW p \in Procs, ExecutePanics(p)
        PROVE  LocalInv'
    BY <1>11 DEF ExecutePanics
  <1>12. ASSUME NEW p \in Procs, DoneExecution(p)
        PROVE  LocalInv'
    BY <1>12, SMTT(30) DEF DoneExecution
  <1>13. ASSUME NEW f \in Flushers, Receive(f)
        PROVE  LocalInv'
    BY Zenon, <1>13 DEF Receive
  <1>14. ASSUME NEW f \in Flushers, DecInflight(f)
        PROVE  LocalInv'
    BY <1>14 DEF DecInflight
  <1>15. ASSUME NEW f \in Flushers, TickCommanded(f)
        PROVE  LocalInv'
    BY Zenon, <1>15 DEF TickCommanded
  <1>16. ASSUME NEW f \in Flushers, TickFlush(f)
        PROVE  LocalInv'
    BY <1>16 DEF TickFlush
  <1>17. ASSUME NEW f \in Flushers, StayOn(f)
        PROVE  LocalInv'
    BY Zenon, <1>17 DEF StayOn
  <1>18. ASSUME NEW f \in Flushers, Quit(f)
        PROVE  LocalInv'
    BY <1>18 DEF Quit
  <1>19. CASE UNCHANGED vars
    BY Zenon, <1>19 DEF vars
  <1> HIDE DEF TypeOK, LocalInv
  <1> QED
    BY SMTT(40), <1>1, <1>2, <1>3, <1>4, <1>5, <1>6, <1>7, <1>8, <1>9, <1>10, <1>11, <1>12, <1>13, <1>14, <1>15, <1>16, <1>17, <1>18, <1>19
    DEF Next, Call, CallerStep, FlusherStep, Execution

\* Every step leaves each added task in exactly one place, unexecuted, or executed
\* once.
LEMMA ConservedStep ==
    ASSUME TypeOK, LocalInv, TasksConserved, [Next]_vars
    PROVE  TasksConserved'
  <1> USE ExecutorAssumption DEF Procs, Goto, StartFlush, contVars, flagVars, wgVars, ghosts, TypeOK, LocalInv, CallerLocal,
             FlusherLocal, TasksConserved,
             Added, Executed, Holding, Ran
  <1>1. ASSUME NEW c \in Callers, NEW t \in Tasks, AddAndCheck(c, t)
        PROVE  TasksConserved'
    BY <1>1 DEF AddAndCheck
  <1>2. ASSUME NEW c \in Callers, NEW f \in Flushers, BackgroundFlush(c, f)
        PROVE  TasksConserved'
    <2>1. \A q \in Procs : Holding(q)' = Holding(q)
      BY Zenon, <1>2 DEF BackgroundFlush
    <2>2. UNCHANGED <<container, commander, mine, runs>>
      BY Zenon, <1>2 DEF BackgroundFlush
    <2> HIDE DEF Holding
    <2> QED  BY <2>1, <2>2
  <1>3. ASSUME NEW c \in Callers, Send(c)
        PROVE  TasksConserved'
    BY <1>3 DEF Send
  <1>4. ASSUME NEW f \in Flushers, NEW c \in Callers, Confirm(f, c)
        PROVE  TasksConserved'
    BY <1>4 DEF Confirm
  <1>5. ASSUME NEW c \in Callers, NEW m \in {"flush", "wait"}, CallFlush(c, m)
        PROVE  TasksConserved'
    BY <1>5 DEF CallFlush
  <1>6. ASSUME NEW c \in Callers, LockBarrier(c)
        PROVE  TasksConserved'
    BY <1>6 DEF LockBarrier
  <1>7. ASSUME NEW c \in Callers, WaitReturns(c)
        PROVE  TasksConserved'
    BY <1>7 DEF WaitReturns
  <1>8. ASSUME NEW p \in Procs, EnterExecution(p)
        PROVE  TasksConserved'
    BY <1>8 DEF EnterExecution
  <1>9. ASSUME NEW p \in Procs, RemoveAll(p)
        PROVE  TasksConserved'
    BY <1>9 DEF RemoveAll
  <1>10. ASSUME NEW p \in Procs, ExecuteTasks(p)
        PROVE  TasksConserved'
    BY <1>10 DEF ExecuteTasks
  <1>11. ASSUME NEW p \in Procs, ExecutePanics(p)
        PROVE  TasksConserved'
    BY <1>11 DEF ExecutePanics
  <1>12. ASSUME NEW p \in Procs, DoneExecution(p)
        PROVE  TasksConserved'
    BY <1>12 DEF DoneExecution
  <1>13. ASSUME NEW f \in Flushers, Receive(f)
        PROVE  TasksConserved'
    BY <1>13 DEF Receive
  <1>14. ASSUME NEW f \in Flushers, DecInflight(f)
        PROVE  TasksConserved'
    BY <1>14 DEF DecInflight
  <1>15. ASSUME NEW f \in Flushers, TickCommanded(f)
        PROVE  TasksConserved'
    BY <1>15 DEF TickCommanded
  <1>16. ASSUME NEW f \in Flushers, TickFlush(f)
        PROVE  TasksConserved'
    BY <1>16 DEF TickFlush
  <1>17. ASSUME NEW f \in Flushers, StayOn(f)
        PROVE  TasksConserved'
    BY <1>17 DEF StayOn
  <1>18. ASSUME NEW f \in Flushers, Quit(f)
        PROVE  TasksConserved'
    BY <1>18 DEF Quit
  <1>19. CASE UNCHANGED vars
    BY <1>19 DEF vars
  <1> HIDE DEF TypeOK, LocalInv, TasksConserved
  <1> QED
    BY ZenonT(40), <1>1, <1>2, <1>3, <1>4, <1>5, <1>6, <1>7, <1>8, <1>9, <1>10, <1>11, <1>12, <1>13, <1>14, <1>15, <1>16, <1>17, <1>18, <1>19
    DEF Next, Call, CallerStep, FlusherStep, Execution

\* Only addAndCheck raises guarded, for the one goroutine that will serve, and only
\* the serving flusher drops it.
LEMMA GuardStep ==
    ASSUME TypeOK, LocalInv, GuardInv, [Next]_vars
    PROVE  GuardInv'
  <1> USE ExecutorAssumption DEF Procs, Goto, StartFlush, contVars, flagVars, wgVars, ghosts, TypeOK, LocalInv, CallerLocal,
             FlusherLocal, GuardInv,
             OneFlusher, Serving, Running, AfterExecute
  <1>1. ASSUME NEW c \in Callers, NEW t \in Tasks, AddAndCheck(c, t)
        PROVE  GuardInv'
    BY <1>1 DEF AddAndCheck
  <1>2. ASSUME NEW c \in Callers, NEW f \in Flushers, BackgroundFlush(c, f)
        PROVE  GuardInv'
    BY <1>2, SMTT(30) DEF BackgroundFlush
  <1>3. ASSUME NEW c \in Callers, Send(c)
        PROVE  GuardInv'
    BY <1>3 DEF Send
  <1>4. ASSUME NEW f \in Flushers, NEW c \in Callers, Confirm(f, c)
        PROVE  GuardInv'
    BY <1>4 DEF Confirm
  <1>5. ASSUME NEW c \in Callers, NEW m \in {"flush", "wait"}, CallFlush(c, m)
        PROVE  GuardInv'
    BY <1>5 DEF CallFlush
  <1>6. ASSUME NEW c \in Callers, LockBarrier(c)
        PROVE  GuardInv'
    BY <1>6 DEF LockBarrier
  <1>7. ASSUME NEW c \in Callers, WaitReturns(c)
        PROVE  GuardInv'
    BY <1>7 DEF WaitReturns
  <1>8. ASSUME NEW p \in Procs, EnterExecution(p)
        PROVE  GuardInv'
    BY <1>8 DEF EnterExecution
  <1>9. ASSUME NEW p \in Procs, RemoveAll(p)
        PROVE  GuardInv'
    BY <1>9 DEF RemoveAll
  <1>10. ASSUME NEW p \in Procs, ExecuteTasks(p)
        PROVE  GuardInv'
    BY <1>10 DEF ExecuteTasks
  <1>11. ASSUME NEW p \in Procs, ExecutePanics(p)
        PROVE  GuardInv'
    BY SMTT(40), <1>11 DEF ExecutePanics
  <1>12. ASSUME NEW p \in Procs, DoneExecution(p)
        PROVE  GuardInv'
    BY <1>12, SMTT(30) DEF DoneExecution, CallerLabels, FlusherLabels
  <1>13. ASSUME NEW f \in Flushers, Receive(f)
        PROVE  GuardInv'
    BY <1>13 DEF Receive
  <1>14. ASSUME NEW f \in Flushers, DecInflight(f)
        PROVE  GuardInv'
    BY <1>14 DEF DecInflight
  <1>15. ASSUME NEW f \in Flushers, TickCommanded(f)
        PROVE  GuardInv'
    BY <1>15 DEF TickCommanded
  <1>16. ASSUME NEW f \in Flushers, TickFlush(f)
        PROVE  GuardInv'
    BY <1>16 DEF TickFlush
  <1>17. ASSUME NEW f \in Flushers, StayOn(f)
        PROVE  GuardInv'
    BY <1>17 DEF StayOn
  <1>18. ASSUME NEW f \in Flushers, Quit(f)
        PROVE  GuardInv'
    BY <1>18 DEF Quit
  <1>19. CASE UNCHANGED vars
    BY <1>19 DEF vars
  <1> HIDE DEF TypeOK, LocalInv, GuardInv
  <1> QED
    BY ZenonT(40), <1>1, <1>2, <1>3, <1>4, <1>5, <1>6, <1>7, <1>8, <1>9, <1>10, <1>11, <1>12, <1>13, <1>14, <1>15, <1>16, <1>17, <1>18, <1>19
    DEF Next, Call, CallerStep, FlusherStep, Execution

\* enterExecution and doneExecution keep waitGroup equal to the number of
\* goroutines between them.
LEMMA WaitGroupStep ==
    ASSUME TypeOK, LocalInv, WaitGroupInv, [Next]_vars
    PROVE  WaitGroupInv'
  <1> USE ExecutorAssumption DEF Procs, Goto, StartFlush, contVars, flagVars, wgVars, ghosts, TypeOK, LocalInv, CallerLocal,
             FlusherLocal, Executing, InExecution, Running, AfterExecute
  <1>1. ASSUME NEW c \in Callers, NEW t \in Tasks, AddAndCheck(c, t)
        PROVE  WaitGroupInv'
    <2>1. Executing' = Executing
      BY Zenon, <1>1 DEF AddAndCheck
    <2>2. waitGroup' = waitGroup
      BY Zenon, <1>1 DEF AddAndCheck
    <2> QED  BY Zenon, <2>1, <2>2 DEF WaitGroupInv
  <1>2. ASSUME NEW c \in Callers, NEW f \in Flushers, BackgroundFlush(c, f)
        PROVE  WaitGroupInv'
    <2>1. Executing' = Executing
      BY <1>2 DEF BackgroundFlush
    <2>2. waitGroup' = waitGroup
      BY Zenon, <1>2 DEF BackgroundFlush
    <2> QED  BY Zenon, <2>1, <2>2 DEF WaitGroupInv
  <1>3. ASSUME NEW c \in Callers, Send(c)
        PROVE  WaitGroupInv'
    <2>1. Executing' = Executing
      BY Zenon, <1>3 DEF Send
    <2>2. waitGroup' = waitGroup
      BY Zenon, <1>3 DEF Send
    <2> QED  BY Zenon, <2>1, <2>2 DEF WaitGroupInv
  <1>4. ASSUME NEW f \in Flushers, NEW c \in Callers, Confirm(f, c)
        PROVE  WaitGroupInv'
    <2>1. Executing' = Executing
      BY <1>4 DEF Confirm
    <2>2. waitGroup' = waitGroup
      BY Zenon, <1>4 DEF Confirm
    <2> QED  BY Zenon, <2>1, <2>2 DEF WaitGroupInv
  <1>5. ASSUME NEW c \in Callers, NEW m \in {"flush", "wait"}, CallFlush(c, m)
        PROVE  WaitGroupInv'
    <2>1. Executing' = Executing
      BY Zenon, <1>5 DEF CallFlush
    <2>2. waitGroup' = waitGroup
      BY Zenon, <1>5 DEF CallFlush
    <2> QED  BY Zenon, <2>1, <2>2 DEF WaitGroupInv
  <1>6. ASSUME NEW c \in Callers, LockBarrier(c)
        PROVE  WaitGroupInv'
    <2>1. Executing' = Executing
      BY Zenon, <1>6 DEF LockBarrier
    <2>2. waitGroup' = waitGroup
      BY Zenon, <1>6 DEF LockBarrier
    <2> QED  BY Zenon, <2>1, <2>2 DEF WaitGroupInv
  <1>7. ASSUME NEW c \in Callers, WaitReturns(c)
        PROVE  WaitGroupInv'
    <2>1. Executing' = Executing
      BY Zenon, <1>7 DEF WaitReturns
    <2>2. waitGroup' = waitGroup
      BY Zenon, <1>7 DEF WaitReturns
    <2> QED  BY Zenon, <2>1, <2>2 DEF WaitGroupInv
  <1>8. ASSUME NEW p \in Procs, EnterExecution(p)
        PROVE  WaitGroupInv'
    <2>1. p \notin Executing /\ Executing' = Executing \cup {p}
      BY <1>8 DEF EnterExecution
    <2>2. waitGroup' = waitGroup + 1
      BY Zenon, <1>8 DEF EnterExecution
    <2> HIDE DEF Executing
    <2> QED  BY Zenon, <2>1, <2>2, ProcsFinite, FS_AddElement DEF WaitGroupInv
  <1>9. ASSUME NEW p \in Procs, RemoveAll(p)
        PROVE  WaitGroupInv'
    <2>1. Executing' = Executing
      BY Zenon, <1>9 DEF RemoveAll
    <2>2. waitGroup' = waitGroup
      BY Zenon, <1>9 DEF RemoveAll
    <2> QED  BY Zenon, <2>1, <2>2 DEF WaitGroupInv
  <1>10. ASSUME NEW p \in Procs, ExecuteTasks(p)
        PROVE  WaitGroupInv'
    <2>1. Executing' = Executing
      BY Zenon, <1>10 DEF ExecuteTasks
    <2>2. waitGroup' = waitGroup
      BY Zenon, <1>10 DEF ExecuteTasks
    <2> QED  BY Zenon, <2>1, <2>2 DEF WaitGroupInv
  <1>11. ASSUME NEW p \in Procs, ExecutePanics(p)
        PROVE  WaitGroupInv'
    <2>1. Executing' = Executing
      BY Zenon, <1>11 DEF ExecutePanics
    <2>2. waitGroup' = waitGroup
      BY Zenon, <1>11 DEF ExecutePanics
    <2> QED  BY Zenon, <2>1, <2>2 DEF WaitGroupInv
  <1>12. ASSUME NEW p \in Procs, DoneExecution(p)
        PROVE  WaitGroupInv'
    <2>1. p \in Executing /\ Executing' = Executing \ {p}
      BY <1>12 DEF DoneExecution
    <2>2. waitGroup' = waitGroup - 1
      BY Zenon, <1>12 DEF DoneExecution
    <2> HIDE DEF Executing
    <2> QED  BY Zenon, <2>1, <2>2, ProcsFinite, FS_RemoveElement DEF WaitGroupInv
  <1>13. ASSUME NEW f \in Flushers, Receive(f)
        PROVE  WaitGroupInv'
    <2>1. Executing' = Executing
      BY Zenon, <1>13 DEF Receive
    <2>2. waitGroup' = waitGroup
      BY Zenon, <1>13 DEF Receive
    <2> QED  BY Zenon, <2>1, <2>2 DEF WaitGroupInv
  <1>14. ASSUME NEW f \in Flushers, DecInflight(f)
        PROVE  WaitGroupInv'
    <2>1. Executing' = Executing
      BY Zenon, <1>14 DEF DecInflight
    <2>2. waitGroup' = waitGroup
      BY Zenon, <1>14 DEF DecInflight
    <2> QED  BY Zenon, <2>1, <2>2 DEF WaitGroupInv
  <1>15. ASSUME NEW f \in Flushers, TickCommanded(f)
        PROVE  WaitGroupInv'
    <2>1. Executing' = Executing
      BY Zenon, <1>15 DEF TickCommanded
    <2>2. waitGroup' = waitGroup
      BY Zenon, <1>15 DEF TickCommanded
    <2> QED  BY Zenon, <2>1, <2>2 DEF WaitGroupInv
  <1>16. ASSUME NEW f \in Flushers, TickFlush(f)
        PROVE  WaitGroupInv'
    <2>1. Executing' = Executing
      BY Zenon, <1>16 DEF TickFlush
    <2>2. waitGroup' = waitGroup
      BY Zenon, <1>16 DEF TickFlush
    <2> QED  BY Zenon, <2>1, <2>2 DEF WaitGroupInv
  <1>17. ASSUME NEW f \in Flushers, StayOn(f)
        PROVE  WaitGroupInv'
    <2>1. Executing' = Executing
      BY Zenon, <1>17 DEF StayOn
    <2>2. waitGroup' = waitGroup
      BY Zenon, <1>17 DEF StayOn
    <2> QED  BY Zenon, <2>1, <2>2 DEF WaitGroupInv
  <1>18. ASSUME NEW f \in Flushers, Quit(f)
        PROVE  WaitGroupInv'
    <2>1. Executing' = Executing
      BY Zenon, <1>18 DEF Quit
    <2>2. waitGroup' = waitGroup
      BY Zenon, <1>18 DEF Quit
    <2> QED  BY Zenon, <2>1, <2>2 DEF WaitGroupInv
  <1>19. CASE UNCHANGED vars
    BY Zenon, <1>19 DEF vars, WaitGroupInv
  <1> HIDE DEF TypeOK, LocalInv
  <1> QED
    BY SMTT(40), <1>1, <1>2, <1>3, <1>4, <1>5, <1>6, <1>7, <1>8, <1>9, <1>10, <1>11, <1>12, <1>13, <1>14, <1>15, <1>16, <1>17, <1>18, <1>19
    DEF Next, Call, CallerStep, FlusherStep, Execution

\* addAndCheck and backgroundFlush keep inflight equal to the number of batches on
\* their way, and shallQuit drops guarded only when there is none.
LEMMA InflightStep ==
    ASSUME TypeOK, LocalInv, TasksConserved, InflightInv, [Next]_vars
    PROVE  InflightInv'
  <1> USE ExecutorAssumption DEF Procs, Goto, StartFlush, contVars, flagVars, wgVars, ghosts, TypeOK, LocalInv, CallerLocal,
             FlusherLocal, Undelivered, AfterExecute
  <1>1. ASSUME NEW c \in Callers, NEW t \in Tasks, AddAndCheck(c, t)
        PROVE  InflightInv'
    <2>1. CASE ~Full(t)
      <3>1. Undelivered' = Undelivered
        BY <1>1, <2>1 DEF AddAndCheck
      <3>2. inflight' = inflight /\ guarded'
        BY Zenon, <1>1, <2>1 DEF AddAndCheck
      <3> HIDE DEF Undelivered
      <3> QED  BY Zenon, <3>1, <3>2 DEF InflightInv, NoOrphanBatch
    <2>2. CASE Full(t)
      <3> DEFINE b == container \cup {t}
      <3>1. \A x \in Undelivered : t \notin x
        BY <1>1, SMTT(30) DEF AddAndCheck, TasksConserved, Holding
      <3>2. Undelivered' = Undelivered \cup {b}
        <4>1. /\ pc[c] = "idle" /\ batch'[c] = b /\ pc'[c] \in {"spawn", "send"}
              /\ \A d \in Procs : d # c => pc'[d] = pc[d] /\ batch'[d] = batch[d]
              /\ commander' = commander /\ b \in (SUBSET Tasks) \ {{}}
          BY Zenon, <1>1, <2>2 DEF AddAndCheck
        <4>2. \A x \in Undelivered : x \in Undelivered'
          BY Zenon, <4>1
        <4>3. b \in Undelivered'
          BY Zenon, <4>1
        <4>4. \A x \in Undelivered' : x \in Undelivered \/ x = b
          BY Zenon, <4>1
        <4> HIDE DEF Undelivered
        <4> QED  BY Zenon, <4>2, <4>3, <4>4
      <3>3. inflight' = inflight + 1 /\ guarded'
        BY Zenon, <1>1, <2>2 DEF AddAndCheck
      <3>4. b \notin Undelivered
        BY Zenon, <3>1
      <3> HIDE DEF Undelivered, b
      <3> QED  BY Zenon, <3>2, <3>3, <3>4, FS_AddElement DEF InflightInv, NoOrphanBatch
    <2> QED  BY Zenon, <2>1, <2>2 DEF InflightInv, NoOrphanBatch
  <1>2. ASSUME NEW c \in Callers, NEW f \in Flushers, BackgroundFlush(c, f)
        PROVE  InflightInv'
    <2>1. /\ pc[c] = "spawn" /\ pc[f] = "dead" /\ pc'[f] = "select"
          /\ pc'[c] = (IF batch[c] = {} THEN "idle" ELSE "send")
          /\ \A d \in Procs : d # c /\ d # f => pc'[d] = pc[d]
          /\ batch' = batch /\ commander' = commander
      BY Zenon, <1>2 DEF BackgroundFlush
    <2>2. Undelivered' = Undelivered
      BY <2>1, SMTT(30)
    <2>3. inflight' = inflight /\ guarded' = guarded
      BY Zenon, <1>2 DEF BackgroundFlush
    <2> HIDE DEF Undelivered
    <2> QED  BY Zenon, <2>2, <2>3 DEF InflightInv, NoOrphanBatch
  <1>3. ASSUME NEW c \in Callers, Send(c)
        PROVE  InflightInv'
    <2>1. Undelivered' = Undelivered
      BY Zenon, <1>3 DEF Send
    <2>2. inflight' = inflight /\ guarded' = guarded
      BY Zenon, <1>3 DEF Send
    <2> HIDE DEF Undelivered
    <2> QED  BY Zenon, <2>1, <2>2 DEF InflightInv, NoOrphanBatch
  <1>4. ASSUME NEW f \in Flushers, NEW c \in Callers, Confirm(f, c)
        PROVE  InflightInv'
    <2>1. Undelivered' = Undelivered
      BY Zenon, <1>4 DEF Confirm
    <2>2. inflight' = inflight /\ guarded' = guarded
      BY Zenon, <1>4 DEF Confirm
    <2> HIDE DEF Undelivered
    <2> QED  BY Zenon, <2>1, <2>2 DEF InflightInv, NoOrphanBatch
  <1>5. ASSUME NEW c \in Callers, NEW m \in {"flush", "wait"}, CallFlush(c, m)
        PROVE  InflightInv'
    <2>1. Undelivered' = Undelivered
      BY Zenon, <1>5 DEF CallFlush
    <2>2. inflight' = inflight /\ guarded' = guarded
      BY Zenon, <1>5 DEF CallFlush
    <2> HIDE DEF Undelivered
    <2> QED  BY Zenon, <2>1, <2>2 DEF InflightInv, NoOrphanBatch
  <1>6. ASSUME NEW c \in Callers, LockBarrier(c)
        PROVE  InflightInv'
    <2>1. Undelivered' = Undelivered
      BY Zenon, <1>6 DEF LockBarrier
    <2>2. inflight' = inflight /\ guarded' = guarded
      BY Zenon, <1>6 DEF LockBarrier
    <2> HIDE DEF Undelivered
    <2> QED  BY <2>1, <2>2 DEF InflightInv, NoOrphanBatch
  <1>7. ASSUME NEW c \in Callers, WaitReturns(c)
        PROVE  InflightInv'
    <2>1. Undelivered' = Undelivered
      BY Zenon, <1>7 DEF WaitReturns
    <2>2. inflight' = inflight /\ guarded' = guarded
      BY Zenon, <1>7 DEF WaitReturns
    <2> HIDE DEF Undelivered
    <2> QED  BY <2>1, <2>2 DEF InflightInv, NoOrphanBatch
  <1>8. ASSUME NEW p \in Procs, EnterExecution(p)
        PROVE  InflightInv'
    <2>1. Undelivered' = Undelivered
      BY Zenon, <1>8 DEF EnterExecution
    <2>2. inflight' = inflight /\ guarded' = guarded
      BY Zenon, <1>8 DEF EnterExecution
    <2> HIDE DEF Undelivered
    <2> QED  BY Zenon, <2>1, <2>2 DEF InflightInv, NoOrphanBatch
  <1>9. ASSUME NEW p \in Procs, RemoveAll(p)
        PROVE  InflightInv'
    <2>1. Undelivered' = Undelivered
      BY Zenon, <1>9 DEF RemoveAll
    <2>2. inflight' = inflight /\ guarded' = guarded
      BY Zenon, <1>9 DEF RemoveAll
    <2> HIDE DEF Undelivered
    <2> QED  BY <2>1, <2>2 DEF InflightInv, NoOrphanBatch
  <1>10. ASSUME NEW p \in Procs, ExecuteTasks(p)
        PROVE  InflightInv'
    <2>1. Undelivered' = Undelivered
      BY Zenon, <1>10 DEF ExecuteTasks
    <2>2. inflight' = inflight /\ guarded' = guarded
      BY Zenon, <1>10 DEF ExecuteTasks
    <2> HIDE DEF Undelivered
    <2> QED  BY <2>1, <2>2 DEF InflightInv, NoOrphanBatch
  <1>11. ASSUME NEW p \in Procs, ExecutePanics(p)
        PROVE  InflightInv'
    <2>1. Undelivered' = Undelivered
      BY Zenon, <1>11 DEF ExecutePanics
    <2>2. inflight' = inflight /\ guarded' = guarded
      BY Zenon, <1>11 DEF ExecutePanics
    <2> HIDE DEF Undelivered
    <2> QED  BY <2>1, <2>2 DEF InflightInv, NoOrphanBatch
  <1>12. ASSUME NEW p \in Procs, DoneExecution(p)
        PROVE  InflightInv'
    <2>1. Undelivered' = Undelivered
      BY Zenon, <1>12 DEF DoneExecution
    <2>2. inflight' = inflight /\ guarded' = guarded
      BY Zenon, <1>12 DEF DoneExecution
    <2> HIDE DEF Undelivered
    <2> QED  BY <2>1, <2>2 DEF InflightInv, NoOrphanBatch
  <1>13. ASSUME NEW f \in Flushers, Receive(f)
        PROVE  InflightInv'
    <2>1. Undelivered' = Undelivered
      BY Zenon, <1>13 DEF Receive
    <2>2. inflight' = inflight /\ guarded' = guarded
      BY Zenon, <1>13 DEF Receive
    <2> HIDE DEF Undelivered
    <2> QED  BY Zenon, <2>1, <2>2 DEF InflightInv, NoOrphanBatch
  <1>14. ASSUME NEW f \in Flushers, DecInflight(f)
        PROVE  InflightInv'
    <2>1. batch[f] \in Undelivered /\ Undelivered' = Undelivered \ {batch[f]}
      BY <1>14, SMTT(30) DEF DecInflight, TasksConserved, Holding
    <2>2. inflight' = inflight - 1 /\ guarded' = guarded
      BY Zenon, <1>14 DEF DecInflight
    <2> HIDE DEF Undelivered
    <2> QED  BY <2>1, <2>2, FS_RemoveElement, SMTT(30) DEF InflightInv, NoOrphanBatch
  <1>15. ASSUME NEW f \in Flushers, TickCommanded(f)
        PROVE  InflightInv'
    <2>1. Undelivered' = Undelivered
      BY Zenon, <1>15 DEF TickCommanded
    <2>2. inflight' = inflight /\ guarded' = guarded
      BY Zenon, <1>15 DEF TickCommanded
    <2> HIDE DEF Undelivered
    <2> QED  BY <2>1, <2>2 DEF InflightInv, NoOrphanBatch
  <1>16. ASSUME NEW f \in Flushers, TickFlush(f)
        PROVE  InflightInv'
    <2>1. Undelivered' = Undelivered
      BY Zenon, <1>16 DEF TickFlush
    <2>2. inflight' = inflight /\ guarded' = guarded
      BY Zenon, <1>16 DEF TickFlush
    <2> HIDE DEF Undelivered
    <2> QED  BY <2>1, <2>2 DEF InflightInv, NoOrphanBatch
  <1>17. ASSUME NEW f \in Flushers, StayOn(f)
        PROVE  InflightInv'
    <2>1. Undelivered' = Undelivered
      BY Zenon, <1>17 DEF StayOn
    <2>2. inflight' = inflight /\ guarded' = guarded
      BY Zenon, <1>17 DEF StayOn
    <2> HIDE DEF Undelivered
    <2> QED  BY <2>1, <2>2 DEF InflightInv, NoOrphanBatch
  <1>18. ASSUME NEW f \in Flushers, Quit(f)
        PROVE  InflightInv'
    <2>1. Undelivered' = Undelivered
      BY Zenon, <1>18 DEF Quit
    <2>2. inflight' = inflight /\ inflight = 0
      BY Zenon, <1>18 DEF Quit
    <2> HIDE DEF Undelivered
    <2> QED  BY Zenon, <2>1, <2>2, FS_EmptySet DEF InflightInv, NoOrphanBatch
  <1>19. CASE UNCHANGED vars
    <2>1. Undelivered' = Undelivered
      BY Zenon, <1>19 DEF vars
    <2>2. inflight' = inflight /\ guarded' = guarded
      BY Zenon, <1>19 DEF vars
    <2> HIDE DEF Undelivered
    <2> QED  BY Zenon, <2>1, <2>2 DEF InflightInv, NoOrphanBatch
  <1> HIDE DEF TypeOK, LocalInv, Undelivered
  <1> QED
    BY SMTT(40), <1>1, <1>2, <1>3, <1>4, <1>5, <1>6, <1>7, <1>8, <1>9, <1>10, <1>11, <1>12, <1>13, <1>14, <1>15, <1>16, <1>17, <1>18, <1>19
    DEF Next, Call, CallerStep, FlusherStep, Execution

\* Every step preserves the types; DecInflight needs the count of undelivered batches,
\* DoneExecution that of the executing goroutines.
LEMMA TypeStep ==
    ASSUME TypeOK, LocalInv, WaitGroupInv, InflightInv, [Next]_vars
    PROVE  TypeOK'
  <1> USE ExecutorAssumption DEF Procs, Goto, StartFlush, contVars, flagVars, wgVars, ghosts, TypeOK, LocalInv, CallerLocal,
             FlusherLocal, CallerLabels, FlusherLabels, Modes, AfterExecute, Running
  <1>1. ASSUME NEW c \in Callers, NEW t \in Tasks, AddAndCheck(c, t)
        PROVE  TypeOK'
    BY <1>1, SMTT(30) DEF AddAndCheck
  <1>2. ASSUME NEW c \in Callers, NEW f \in Flushers, BackgroundFlush(c, f)
        PROVE  TypeOK'
    BY Zenon, <1>2 DEF BackgroundFlush
  <1>3. ASSUME NEW c \in Callers, Send(c)
        PROVE  TypeOK'
    BY Zenon, <1>3 DEF Send
  <1>4. ASSUME NEW f \in Flushers, NEW c \in Callers, Confirm(f, c)
        PROVE  TypeOK'
    BY <1>4, SMTT(30) DEF Confirm
  <1>5. ASSUME NEW c \in Callers, NEW m \in {"flush", "wait"}, CallFlush(c, m)
        PROVE  TypeOK'
    BY Zenon, <1>5 DEF CallFlush
  <1>6. ASSUME NEW c \in Callers, LockBarrier(c)
        PROVE  TypeOK'
    BY Zenon, <1>6 DEF LockBarrier
  <1>7. ASSUME NEW c \in Callers, WaitReturns(c)
        PROVE  TypeOK'
    BY Zenon, <1>7 DEF WaitReturns
  <1>8. ASSUME NEW p \in Procs, EnterExecution(p)
        PROVE  TypeOK'
    BY <1>8, SMTT(30) DEF EnterExecution
  <1>9. ASSUME NEW p \in Procs, RemoveAll(p)
        PROVE  TypeOK'
    BY Zenon, <1>9 DEF RemoveAll
  <1>10. ASSUME NEW p \in Procs, ExecuteTasks(p)
        PROVE  TypeOK'
    BY <1>10 DEF ExecuteTasks, Ran
  <1>11. ASSUME NEW p \in Procs, ExecutePanics(p)
        PROVE  TypeOK'
    BY <1>11, SMTT(30) DEF ExecutePanics, Ran
  <1>12. ASSUME NEW p \in Procs, DoneExecution(p)
        PROVE  TypeOK'
    <2>1. p \in Executing
      BY Zenon, <1>12 DEF DoneExecution, Executing, InExecution
    <2>2. waitGroup - 1 \in Nat
      BY <2>1, ProcsFinite, FS_EmptySet DEF WaitGroupInv
    <2> QED  BY <1>12, <2>2 DEF DoneExecution
  <1>13. ASSUME NEW f \in Flushers, Receive(f)
        PROVE  TypeOK'
    BY Zenon, <1>13 DEF Receive
  <1>14. ASSUME NEW f \in Flushers, DecInflight(f)
        PROVE  TypeOK'
    <2>1. batch[f] \in Undelivered
      BY Zenon, <1>14 DEF DecInflight, Undelivered
    <2>2. inflight - 1 \in Nat
      BY <2>1, FS_EmptySet, FS_CardinalityType, SMTT(30) DEF InflightInv, NoOrphanBatch
    <2> QED  BY Zenon, <1>14, <2>2 DEF DecInflight
  <1>15. ASSUME NEW f \in Flushers, TickCommanded(f)
        PROVE  TypeOK'
    BY Zenon, <1>15 DEF TickCommanded
  <1>16. ASSUME NEW f \in Flushers, TickFlush(f)
        PROVE  TypeOK'
    BY Zenon, <1>16 DEF TickFlush
  <1>17. ASSUME NEW f \in Flushers, StayOn(f)
        PROVE  TypeOK'
    BY Zenon, <1>17 DEF StayOn
  <1>18. ASSUME NEW f \in Flushers, Quit(f)
        PROVE  TypeOK'
    BY Zenon, <1>18 DEF Quit
  <1>19. CASE UNCHANGED vars
    BY Zenon, <1>19 DEF vars
  <1> HIDE DEF TypeOK, LocalInv
  <1> QED
    BY SMTT(40), <1>1, <1>2, <1>3, <1>4, <1>5, <1>6, <1>7, <1>8, <1>9, <1>10, <1>11, <1>12, <1>13, <1>14, <1>15, <1>16, <1>17, <1>18, <1>19
    DEF Next, Call, CallerStep, FlusherStep, Execution

\* The inductive invariant.
IInv ==
    /\ TypeOK /\ LocalInv /\ TasksConserved
    /\ GuardInv /\ WaitGroupInv /\ InflightInv

\* NewPeriodicalExecutor establishes the invariant.
LEMMA InitIInv == Init => IInv
  <1> SUFFICES ASSUME Init PROVE IInv
    OBVIOUS
  <1> USE ExecutorAssumption DEF Init, Procs
  <1>1. TypeOK
    <2>1. pc \in [Procs -> CallerLabels \cup FlusherLabels]
      BY Zenon DEF CallerLabels, FlusherLabels
    <2>2. /\ \A c \in Callers : pc[c] \in CallerLabels
          /\ \A f \in Flushers : pc[f] \in FlusherLabels
      BY Zenon DEF CallerLabels, FlusherLabels
    <2>3. mode \in [Procs -> Modes] /\ batch \in [Procs -> SUBSET Tasks]
      BY Zenon DEF Modes
    <2>4. commanded \in [Flushers -> BOOLEAN] /\ mine \in [Callers -> SUBSET Tasks]
      OBVIOUS
    <2>5. runs \in [Tasks -> Nat] /\ panics \in 0..MaxPanics
      OBVIOUS
    <2> QED  BY Zenon, <2>1, <2>2, <2>3, <2>4, <2>5 DEF TypeOK
  <1>2. LocalInv
    BY Zenon DEF LocalInv, CallerLocal, FlusherLocal, Running
  <1>3. TasksConserved
    BY DEF TasksConserved, Added, Executed, Holding
  <1>4. GuardInv
    BY Zenon DEF GuardInv, OneFlusher, Serving
  <1>5. WaitGroupInv
    <2>1. Executing = {}
      BY Zenon DEF Executing, InExecution
    <2> QED  BY Zenon, <2>1, FS_EmptySet DEF WaitGroupInv
  <1>6. InflightInv
    <2>1. Undelivered = {}
      BY Zenon DEF Undelivered
    <2> QED  BY Zenon, <2>1, FS_EmptySet DEF InflightInv, NoOrphanBatch
  <1> QED  BY Zenon, <1>1, <1>2, <1>3, <1>4, <1>5, <1>6 DEF IInv

\* The invariant holds in every reachable state.
LEMMA Inductive == Spec => []IInv
  <1>1. IInv /\ [Next]_vars => IInv'
    BY Zenon, TypeStep, LocalStep, ConservedStep, GuardStep, WaitGroupStep, InflightStep DEF IInv
  <1> QED  BY <1>1, InitIInv, PTL DEF Spec

\* Every variable of the executor keeps its type; inflight and the WaitGroup
\* counter never go below zero.
THEOREM TypeCorrect == Spec => []TypeOK
  BY Inductive, PTL DEF IInv

\* No hand-over between Add, the container, the commander and the flushers loses
\* a task or executes it twice.
THEOREM Conservation == Spec => []TasksConserved
  BY Inductive, PTL DEF IInv

\* Under pe.lock, guarded is true exactly when one flusher serves (as long as the
\* execute callback does not panic), and never do two serve.
THEOREM SingleFlusher == Spec => []OneFlusher
  <1>1. IInv => OneFlusher
    BY Zenon DEF IInv, GuardInv
  <1> QED  BY <1>1, Inductive, PTL

\* shallQuit's check of inflight leaves no batch without a flusher.
THEOREM NoOrphan == Spec => []NoOrphanBatch
  <1>1. IInv => NoOrphanBatch
    BY Zenon DEF IInv, InflightInv
  <1> QED  BY <1>1, Inductive, PTL

\* Together: no task is lost on its way through the executor, for any number of goroutines.
THEOREM BatchesKept == Spec => []BatchesAreKept
  BY Conservation, SingleFlusher, NoOrphan, PTL DEF BatchesAreKept

\* A step in which Wait returns starts in a state with nobody in execution.
LEMMA QuiescentStep ==
    ASSUME IInv, [Next]_vars, NEW w \in Callers, pc[w] = "waiting", pc'[w] = "idle"
    PROVE  \A p \in Procs : ~InExecution(p)
  <1> USE ExecutorAssumption DEF IInv, TypeOK, Procs, Goto, StartFlush
  <1>1. ASSUME NEW c \in Callers, NEW t \in Tasks, AddAndCheck(c, t)
        PROVE  \A q \in Procs : ~InExecution(q)
    BY Zenon, <1>1 DEF AddAndCheck
  <1>2. ASSUME NEW c \in Callers, NEW f \in Flushers, BackgroundFlush(c, f)
        PROVE  \A q \in Procs : ~InExecution(q)
    BY Zenon, <1>2 DEF BackgroundFlush
  <1>3. ASSUME NEW c \in Callers, Send(c)
        PROVE  \A q \in Procs : ~InExecution(q)
    BY Zenon, <1>3 DEF Send
  <1>4. ASSUME NEW f \in Flushers, NEW c \in Callers, Confirm(f, c)
        PROVE  \A q \in Procs : ~InExecution(q)
    BY Zenon, <1>4 DEF Confirm
  <1>5. ASSUME NEW c \in Callers, NEW m \in {"flush", "wait"}, CallFlush(c, m)
        PROVE  \A q \in Procs : ~InExecution(q)
    BY Zenon, <1>5 DEF CallFlush
  <1>6. ASSUME NEW c \in Callers, LockBarrier(c)
        PROVE  \A q \in Procs : ~InExecution(q)
    BY Zenon, <1>6 DEF LockBarrier
  <1>7. ASSUME NEW c \in Callers, WaitReturns(c)
        PROVE  \A q \in Procs : ~InExecution(q)
    <2>1. waitGroup = 0
      BY Zenon, <1>7 DEF WaitReturns
    <2>2. Executing = {}
      BY Zenon, <2>1, ProcsFinite, FS_EmptySet DEF WaitGroupInv
    <2> QED  BY Zenon, <2>2 DEF Executing
  <1>8. ASSUME NEW p \in Procs, EnterExecution(p)
        PROVE  \A q \in Procs : ~InExecution(q)
    BY Zenon, <1>8 DEF EnterExecution
  <1>9. ASSUME NEW p \in Procs, RemoveAll(p)
        PROVE  \A q \in Procs : ~InExecution(q)
    BY Zenon, <1>9 DEF RemoveAll
  <1>10. ASSUME NEW p \in Procs, ExecuteTasks(p)
        PROVE  \A q \in Procs : ~InExecution(q)
    BY Zenon, <1>10 DEF ExecuteTasks
  <1>11. ASSUME NEW p \in Procs, ExecutePanics(p)
        PROVE  \A q \in Procs : ~InExecution(q)
    BY Zenon, <1>11 DEF ExecutePanics
  <1>12. ASSUME NEW p \in Procs, DoneExecution(p)
        PROVE  \A q \in Procs : ~InExecution(q)
    BY Zenon, <1>12 DEF DoneExecution
  <1>13. ASSUME NEW f \in Flushers, Receive(f)
        PROVE  \A q \in Procs : ~InExecution(q)
    BY Zenon, <1>13 DEF Receive
  <1>14. ASSUME NEW f \in Flushers, DecInflight(f)
        PROVE  \A q \in Procs : ~InExecution(q)
    BY Zenon, <1>14 DEF DecInflight
  <1>15. ASSUME NEW f \in Flushers, TickCommanded(f)
        PROVE  \A q \in Procs : ~InExecution(q)
    BY Zenon, <1>15 DEF TickCommanded
  <1>16. ASSUME NEW f \in Flushers, TickFlush(f)
        PROVE  \A q \in Procs : ~InExecution(q)
    BY Zenon, <1>16 DEF TickFlush
  <1>17. ASSUME NEW f \in Flushers, StayOn(f)
        PROVE  \A q \in Procs : ~InExecution(q)
    BY Zenon, <1>17 DEF StayOn
  <1>18. ASSUME NEW f \in Flushers, Quit(f)
        PROVE  \A q \in Procs : ~InExecution(q)
    BY Zenon, <1>18 DEF Quit
  <1>19. CASE UNCHANGED vars
    BY Zenon, <1>19 DEF vars
  <1> HIDE DEF IInv, TypeOK
  <1> QED
    BY ZenonT(40), <1>1, <1>2, <1>3, <1>4, <1>5, <1>6, <1>7, <1>8, <1>9, <1>10, <1>11, <1>12, <1>13, <1>14, <1>15, <1>16, <1>17, <1>18, <1>19
    DEF Next, Call, CallerStep, FlusherStep, Execution

\* Wait returns only when no goroutine is executing tasks.
THEOREM Quiescence == Spec => WaitIsQuiescent
  <1>1. IInv /\ [Next]_vars =>
          [\A c \in Callers : pc[c] = "waiting" /\ pc'[c] = "idle" =>
              \A p \in Procs : ~InExecution(p)]_vars
    BY Zenon, QuiescentStep
  <1> QED  BY <1>1, Inductive, PTL DEF Spec, WaitIsQuiescent

\* A step of the executor adds one task to the pool, executes one batch of it, or
\* leaves it alone.
LEMMA PoolStep ==
    ASSUME IInv, [Next]_vars
    PROVE  Pool!Next \/ UNCHANGED Pool!vars
  <1> USE ExecutorAssumption DEF IInv, TypeOK, Procs, Goto, StartFlush, ghosts
  <1>1. ASSUME NEW c \in Callers, NEW t \in Tasks, AddAndCheck(c, t)
        PROVE  Pool!Next \/ UNCHANGED Pool!vars
    <2>1. Added' = Added \cup {t}
      BY Zenon, <1>1 DEF AddAndCheck, Added
    <2> QED  BY Zenon, <1>1, <2>1 DEF AddAndCheck, Pool!Next, Pool!Add
  <1>2. ASSUME NEW c \in Callers, NEW f \in Flushers, BackgroundFlush(c, f)
        PROVE  Pool!Next \/ UNCHANGED Pool!vars
    BY Zenon, <1>2 DEF BackgroundFlush, Pool!vars, Added
  <1>3. ASSUME NEW c \in Callers, Send(c)
        PROVE  Pool!Next \/ UNCHANGED Pool!vars
    BY Zenon, <1>3 DEF Send, Pool!vars, Added
  <1>4. ASSUME NEW f \in Flushers, NEW c \in Callers, Confirm(f, c)
        PROVE  Pool!Next \/ UNCHANGED Pool!vars
    BY Zenon, <1>4 DEF Confirm, Pool!vars, Added
  <1>5. ASSUME NEW c \in Callers, NEW m \in {"flush", "wait"}, CallFlush(c, m)
        PROVE  Pool!Next \/ UNCHANGED Pool!vars
    BY Zenon, <1>5 DEF CallFlush, Pool!vars, Added
  <1>6. ASSUME NEW c \in Callers, LockBarrier(c)
        PROVE  Pool!Next \/ UNCHANGED Pool!vars
    BY Zenon, <1>6 DEF LockBarrier, Pool!vars, Added
  <1>7. ASSUME NEW c \in Callers, WaitReturns(c)
        PROVE  Pool!Next \/ UNCHANGED Pool!vars
    BY Zenon, <1>7 DEF WaitReturns, Pool!vars, Added
  <1>8. ASSUME NEW p \in Procs, EnterExecution(p)
        PROVE  Pool!Next \/ UNCHANGED Pool!vars
    BY Zenon, <1>8 DEF EnterExecution, Pool!vars, Added
  <1>9. ASSUME NEW p \in Procs, RemoveAll(p)
        PROVE  Pool!Next \/ UNCHANGED Pool!vars
    BY Zenon, <1>9 DEF RemoveAll, Pool!vars, Added
  <1>10. ASSUME NEW p \in Procs, ExecuteTasks(p)
        PROVE  Pool!Next \/ UNCHANGED Pool!vars
    <2>1. Added' = Added /\ runs' = Ran(batch[p])
      BY Zenon, <1>10 DEF ExecuteTasks, Added
    <2>2. CASE batch[p] = {}
      BY Zenon, <2>1, <2>2 DEF Ran, Pool!vars
    <2>3. CASE batch[p] # {}
      <3>1. batch[p] \in SUBSET Pool!Waiting
        BY SMTT(40), <1>10 DEF ExecuteTasks, TasksConserved, Holding, Executed, Added, Pool!Waiting
      <3>2. Pool!Execute(batch[p])
        BY Zenon, <2>1, <2>3 DEF Pool!Execute, Ran
      <3> QED  BY Zenon, <3>1, <3>2 DEF Pool!Next
    <2> QED  BY Zenon, <2>2, <2>3
  <1>11. ASSUME NEW p \in Procs, ExecutePanics(p)
        PROVE  Pool!Next \/ UNCHANGED Pool!vars
    <2>1. Added' = Added /\ runs' = Ran(batch[p])
      BY <1>11 DEF ExecutePanics, Added
    <2>2. CASE batch[p] = {}
      BY <2>1, <2>2 DEF Ran, Pool!vars
    <2>3. CASE batch[p] # {}
      <3>1. batch[p] \in SUBSET Pool!Waiting
        BY <1>11, SMTT(30) DEF ExecutePanics, TasksConserved, Holding, Executed, Added, Pool!Waiting
      <3>2. Pool!Execute(batch[p])
        BY <2>1, <2>3 DEF Pool!Execute, Ran
      <3> QED  BY <3>1, <3>2 DEF Pool!Next
    <2> QED  BY <2>2, <2>3
  <1>12. ASSUME NEW p \in Procs, DoneExecution(p)
        PROVE  Pool!Next \/ UNCHANGED Pool!vars
    BY Zenon, <1>12 DEF DoneExecution, Pool!vars, Added
  <1>13. ASSUME NEW f \in Flushers, Receive(f)
        PROVE  Pool!Next \/ UNCHANGED Pool!vars
    BY Zenon, <1>13 DEF Receive, Pool!vars, Added
  <1>14. ASSUME NEW f \in Flushers, DecInflight(f)
        PROVE  Pool!Next \/ UNCHANGED Pool!vars
    BY Zenon, <1>14 DEF DecInflight, Pool!vars, Added
  <1>15. ASSUME NEW f \in Flushers, TickCommanded(f)
        PROVE  Pool!Next \/ UNCHANGED Pool!vars
    BY Zenon, <1>15 DEF TickCommanded, Pool!vars, Added
  <1>16. ASSUME NEW f \in Flushers, TickFlush(f)
        PROVE  Pool!Next \/ UNCHANGED Pool!vars
    BY Zenon, <1>16 DEF TickFlush, Pool!vars, Added
  <1>17. ASSUME NEW f \in Flushers, StayOn(f)
        PROVE  Pool!Next \/ UNCHANGED Pool!vars
    BY Zenon, <1>17 DEF StayOn, Pool!vars, Added
  <1>18. ASSUME NEW f \in Flushers, Quit(f)
        PROVE  Pool!Next \/ UNCHANGED Pool!vars
    BY Zenon, <1>18 DEF Quit, Pool!vars, Added
  <1>19. CASE UNCHANGED vars
    BY Zenon, <1>19 DEF vars, Pool!vars, Added
  <1> HIDE DEF IInv, TypeOK
  <1> QED
    BY SMTT(40), <1>1, <1>2, <1>3, <1>4, <1>5, <1>6, <1>7, <1>8, <1>9, <1>10, <1>11, <1>12, <1>13, <1>14, <1>15, <1>16, <1>17, <1>18, <1>19
    DEF Next, Call, CallerStep, FlusherStep, Execution

\* The executor with its containers, channels and flushers implements the pool in
\* which a task is executed at most once, and only after it was added.
THEOREM Refinement == Spec => ImplementsTaskPool
  <1>1. Init => Pool!Init
    BY Zenon DEF Init, Pool!Init, Added
  <1>2. IInv /\ [Next]_vars => [Pool!Next]_(Pool!vars)
    BY Zenon, PoolStep
  <1> QED  BY <1>1, <1>2, Inductive, PTL DEF Spec, ImplementsTaskPool, Pool!Spec
=============================================================================
