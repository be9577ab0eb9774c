------------------------------ MODULE MapReduce ------------------------------
(***************************************************************************)
(* One call of MapReduce or ForEach of core/mr/mapreduce.go.               *)
(*                                                                         *)
(* Channels without a buffer are rendezvous: the receiver's step moves the *)
(* sender on.  What the user's functions do is a choice: generate sends    *)
(* Items items, a mapper writes once, cancels or does nothing, a reducer   *)
(* reads, writes up to twice, and may return after a cancel; each of them  *)
(* may panic, and the context may end at any time.                         *)
(***************************************************************************)
EXTENDS Naturals, FiniteSets

CONSTANTS
    Mappers,    \* a mapper goroutine per item that generate sends
    Workers, Panics

VARIABLE mr     \* the goroutines and the channels of the call, see TypeOK

Items   == Cardinality(Mappers)
Procs   == {"main", "gen", "exec", "reduce"} \cup Mappers
Labels  == {"call", "idle", "run", "loop", "select", "each", "load", "recv", "wait", "drain",
            "map", "reduce", "guard", "send", "panic", "write", "once", "drainsrc",
            "release", "return", "finish", "range", "end"}
Verdicts == {"none", "empty", "value", "error", "deadline", "panic", "more"}

TypeOK ==
    mr \in [pc        : [Procs -> Labels],
            left      : 0..Items,          \* items that generate has not sent yet
            pool      : 0..Workers,        \* tokens in the channel pool
            wg        : 0..Items,          \* the WaitGroup of executeMappers
            failed    : BOOLEAN,
            collector : 0..Workers,        \* values in the channel
            closed    : SUBSET {"collector", "done", "output"},
            wrote     : BOOLEAN,           \* panicChan.wrote is positive
            once      : Procs \cup {"free", "over"},  \* the sync.Once of cancel
            retErr    : BOOLEAN,           \* retErr is set
            ctx       : BOOLEAN,           \* the context is done
            writes    : 0..2,              \* values the reducer has written
            verdict   : Verdicts,          \* how the call ends
            panics    : 0..Panics]         \* panics of user functions so far

Init ==
    mr = [pc |-> [p \in Procs |-> IF p = "main" THEN "call" ELSE "idle"],
          left |-> Items, pool |-> 0, wg |-> 0, failed |-> FALSE, collector |-> 0,
          closed |-> {}, wrote |-> FALSE, once |-> "free", retErr |-> FALSE, ctx |-> FALSE,
          writes |-> 0, verdict |-> "none", panics |-> 0]

At(p, l) == mr.pc[p] = l

\* ForEach has no reducer; a reducer only ends after the mappers.
ForEach == At("reduce", "end")

\* buildSource and mapReduceWithPanicChan up to the select, or ForEach up to its loop.
Call(each) ==
    /\ At("main", "call")
    /\ mr' = [mr EXCEPT !.pc["main"] = IF each THEN "each" ELSE "select",
                        !.pc["gen"] = "run", !.pc["exec"] = "loop",
                        !.pc["reduce"] = IF each THEN "end" ELSE "reduce"]

ContextDone ==
    /\ ~At("main", "call") /\ ~mr.ctx
    /\ mr' = [mr EXCEPT !.ctx = TRUE]

-----------------------------------------------------------------------------
(* Panics: recover, and onceChan.write                                      *)

\* A user function panics.
Panic(p) ==
    /\ mr.pc[p] \in {"run", "map", "reduce"} /\ mr.panics < Panics
    /\ mr' = [mr EXCEPT !.pc[p] = "panic", !.panics = @ + 1]

\* Where the deferred functions go on after the recovery.
AfterRecover(p) == IF p = "reduce" THEN "finish" ELSE "return"

\* recover and the counter of write; the reducer drains collector first.
Recover(p) ==
    /\ At(p, "panic")
    /\ p = "reduce" => "collector" \in mr.closed
    /\ mr' = [mr EXCEPT !.collector = IF p = "reduce" THEN 0 ELSE @,
                        !.failed = @ \/ p \in Mappers,
                        !.wrote = TRUE,
                        !.pc[p] = IF mr.wrote THEN AfterRecover(p) ELSE "write"]

\* The caller receives from panicChan and panics; the deferred function of MapReduce
\* then ranges over output.
ReceivePanic(p) ==
    /\ At(p, "write") /\ mr.pc["main"] \in {"select", "each"}
    /\ mr' = [mr EXCEPT !.pc[p] = AfterRecover(p), !.verdict = "panic",
                        !.pc["main"] = IF @ = "select" THEN "range" ELSE "end"]

-----------------------------------------------------------------------------
(* The source, and cancel                                                   *)

\* generate returns, or recovered from its panic: source is closed.
CloseSource ==
    /\ \/ At("gen", "run") /\ mr.left = 0
       \/ At("gen", "return")
    /\ mr' = [mr EXCEPT !.pc["gen"] = "end"]

Sending      == At("gen", "run") /\ mr.left > 0
SourceClosed == At("gen", "end")

\* drain(source) receives an item: in cancel, or at the end of executeMappers.
DrainSource(p) ==
    /\ At(p, "drainsrc") \/ (p = "exec" /\ At(p, "drain"))
    /\ Sending
    /\ mr' = [mr EXCEPT !.left = @ - 1]

\* A mapper or the reducer of MapReduce calls cancel.
CallCancel(p) ==
    /\ (At(p, "map") /\ ~ForEach) \/ At(p, "reduce")
    /\ mr' = [mr EXCEPT !.pc[p] = "once"]

\* Where cancel returns to.
AfterCancel(p) ==
    CASE p = "main" -> "range" [] p = "reduce" -> "drain" [] OTHER -> "return"

\* The first to cancel stores the error; the others wait until it is over.
CancelFirst(p) ==
    /\ At(p, "once") /\ mr.once = "free"
    /\ mr' = [mr EXCEPT !.once = p, !.retErr = TRUE, !.pc[p] = "drainsrc"]

CancelAgain(p) ==
    /\ At(p, "once") /\ mr.once = "over"
    /\ mr' = [mr EXCEPT !.pc[p] = AfterCancel(p)]

\* cancel has drained source and calls finish.
CancelFinishes(p) ==
    /\ At(p, "drainsrc") /\ SourceClosed
    /\ mr' = [mr EXCEPT !.closed = @ \cup {"done", "output"}, !.once = "over",
                        !.pc[p] = AfterCancel(p)]

-----------------------------------------------------------------------------
(* executeMappers                                                           *)

\* The loop condition.
ExecLoop ==
    /\ At("exec", "loop")
    /\ mr' = [mr EXCEPT !.pc["exec"] = IF mr.failed THEN "wait" ELSE "select"]

\* The cases of the select: ctx.Done or doneChan, and a place in the pool.
ExecStops ==
    /\ At("exec", "select") /\ (mr.ctx \/ "done" \in mr.closed)
    /\ mr' = [mr EXCEPT !.pc["exec"] = "wait"]

ExecAcquires ==
    /\ At("exec", "select") /\ mr.pool < Workers
    /\ mr' = [mr EXCEPT !.pool = @ + 1, !.pc["exec"] = "recv"]

\* An item: a new mapper goroutine.
ExecStarts ==
    /\ At("exec", "recv") /\ Sending
    /\ mr' = [mr EXCEPT !.left = @ - 1, !.wg = @ + 1, !.pc["exec"] = "loop",
                        !.pc[CHOOSE p \in Mappers : At(p, "idle")] = "map"]

ExecEnds ==
    /\ At("exec", "recv") /\ SourceClosed
    /\ mr' = [mr EXCEPT !.pool = @ - 1, !.pc["exec"] = "wait"]

\* The deferred function: wg.Wait and the close of collector, then drain(source).
ExecWaits ==
    /\ At("exec", "wait") /\ mr.wg = 0
    /\ mr' = [mr EXCEPT !.closed = @ \cup {"collector"}, !.pc["exec"] = "drain"]

ExecReturns ==
    /\ At("exec", "drain") /\ SourceClosed
    /\ mr' = [mr EXCEPT !.pc["exec"] = "end"]

-----------------------------------------------------------------------------
(* Writers, mappers and the reducer                                         *)

\* Write is called: by a mapper once, by the reducer twice at most.
CallWrite(p) ==
    /\ (At(p, "map") /\ ~ForEach) \/ (At(p, "reduce") /\ mr.writes < 2)
    /\ mr' = [mr EXCEPT !.pc[p] = "guard", !.writes = IF p = "reduce" THEN @ + 1 ELSE @]

AfterWrite(p) == IF p = "reduce" THEN "reduce" ELSE "return"

\* The select of Write.
Guard(p) ==
    /\ At(p, "guard")
    /\ mr' = [mr EXCEPT !.pc[p] = IF mr.ctx \/ "done" \in mr.closed THEN AfterWrite(p)
                                                                   ELSE "send"]

\* A mapper sends to collector.
SendToCollector(p) ==
    /\ p \in Mappers /\ At(p, "send") /\ mr.collector < Workers
    /\ mr' = [mr EXCEPT !.collector = @ + 1, !.pc[p] = "return"]

\* The reducer sends to output: to the select of the caller, or to its deferred range,
\* which then panics; a send on the closed channel panics in the reducer.
SendToOutput ==
    /\ At("reduce", "send")
    /\ \/ /\ "output" \in mr.closed
          /\ mr' = [mr EXCEPT !.pc["reduce"] = "panic"]
       \/ /\ "output" \notin mr.closed /\ At("main", "select")
          /\ mr' = [mr EXCEPT !.pc["reduce"] = "reduce", !.pc["main"] = "load",
                              !.verdict = "value"]
       \/ /\ "output" \notin mr.closed /\ At("main", "range")
          /\ mr' = [mr EXCEPT !.pc["reduce"] = "reduce", !.pc["main"] = "end",
                              !.verdict = "more"]

\* The mapper returns, and the deferred function: wg.Done, and the place in the pool.
MapperDone(p) ==
    /\ p \in Mappers /\ mr.pc[p] \in {"map", "return"}
    /\ mr' = [mr EXCEPT !.wg = @ - 1, !.pc[p] = "release"]

Release(p) ==
    /\ p \in Mappers /\ At(p, "release")
    /\ mr' = [mr EXCEPT !.pool = @ - 1, !.pc[p] = "end"]

\* The reducer, or its deferred drain, receives from collector.
Collect ==
    /\ mr.pc["reduce"] \in {"reduce", "drain", "panic"} /\ mr.collector > 0
    /\ mr' = [mr EXCEPT !.collector = @ - 1]

\* The reducer returns, drains collector, and calls finish.
ReducerReturns ==
    /\ At("reduce", "reduce")
    /\ mr' = [mr EXCEPT !.pc["reduce"] = "drain"]

ReducerDrained ==
    /\ At("reduce", "drain") /\ "collector" \in mr.closed /\ mr.collector = 0
    /\ mr' = [mr EXCEPT !.pc["reduce"] = "finish"]

Finish ==
    /\ At("reduce", "finish")
    /\ mr' = [mr EXCEPT !.closed = @ \cup {"done", "output"}, !.pc["reduce"] = "end"]

-----------------------------------------------------------------------------
(* The caller                                                               *)

\* ctx.Done: cancel, and the deferred range.
MainTimesOut ==
    /\ At("main", "select") /\ mr.ctx
    /\ mr' = [mr EXCEPT !.verdict = "deadline", !.pc["main"] = "once"]

\* output is closed without a value.
MainNoOutput ==
    /\ At("main", "select") /\ "output" \in mr.closed
    /\ mr' = [mr EXCEPT !.verdict = "empty", !.pc["main"] = "load"]

\* retErr.Load decides over the result.
MainLoads ==
    /\ At("main", "load")
    /\ mr' = [mr EXCEPT !.verdict = IF mr.retErr THEN "error" ELSE @, !.pc["main"] = "range"]

\* Mutant of MainReturns: the caller does not wait for output to be closed.
MainReturnsAtOnce ==
    /\ At("main", "range") \/ (At("main", "each") /\ "collector" \in mr.closed)
    /\ mr' = [mr EXCEPT !.pc["main"] = "end"]

\* The deferred range ends when output is closed; ForEach ends with collector.
MainReturns ==
    /\ \/ At("main", "range") /\ "output" \in mr.closed
       \/ At("main", "each") /\ "collector" \in mr.closed
    /\ mr' = [mr EXCEPT !.pc["main"] = "end"]

Step(p) ==
    \/ Recover(p) \/ ReceivePanic(p) \/ DrainSource(p) \/ CallCancel(p)
    \/ CancelFirst(p) \/ CancelAgain(p) \/ CancelFinishes(p)
    \/ CallWrite(p) \/ Guard(p) \/ SendToCollector(p) \/ MapperDone(p) \/ Release(p)
    \/ p = "gen" /\ CloseSource
    \/ p = "exec" /\ (ExecLoop \/ ExecStops \/ ExecAcquires \/ ExecStarts \/ ExecEnds
                      \/ ExecWaits \/ ExecReturns)
    \/ p = "reduce" /\ (SendToOutput \/ Collect \/ ReducerReturns \/ ReducerDrained \/ Finish)
    \/ p = "main" /\ (MainTimesOut \/ MainNoOutput \/ MainLoads \/ MainReturns)

Next ==
    \/ \E each \in BOOLEAN : Call(each)
    \/ ContextDone
    \/ \E p \in Procs : Step(p) \/ Panic(p)

Spec == Init /\ [][Next]_mr

-----------------------------------------------------------------------------
\* No mapper sends on the closed collector: executeMappers closes it when wg is zero.
NoSendOnClosed ==
    \A p \in Mappers : mr.pc[p] \in {"guard", "send"} => "collector" \notin mr.closed

\* A call that was neither cancelled nor timed out and saw no panic returns when
\* every item has been mapped, even if the reducer wrote its value early.
ResultIsComplete ==
    /\ At("main", "end") /\ mr.verdict \in {"empty", "value"}
    /\ mr.once = "free" /\ ~mr.ctx
    => mr.left = 0 /\ \A p \in Mappers : mr.pc[p] \in {"release", "end"}

\* A panic that is written after the caller has left its select is received by nobody.
LostPanic == \E p \in Procs : At(p, "write") /\ mr.pc["main"] \notin {"select", "each"}

\* When no goroutine of the call can go on, the call has returned, unless a panic was lost: its
\* goroutine then keeps wg, source or output open for ever, and the caller waits for output to be
\* closed.  (Each goroutine makes finitely many steps.)
OnlyLostPanicHangs ==
    ~At("main", "call") /\ ~ENABLED (\E p \in Procs : Step(p)) => At("main", "end") \/ LostPanic

\* A call of MapReduce, Finish or ForEach ends, but for a lost panic, with all items mapped, and none
\* of its goroutines sends on a channel that another has closed.
CallsEndWhole == NoSendOnClosed /\ ResultIsComplete /\ OnlyLostPanicHangs
=============================================================================
