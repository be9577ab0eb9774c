--------------------------- MODULE TimeoutHandler ---------------------------
(***************************************************************************)
(* Running a function in a goroutine and giving up on it when a context is *)
(* done: ServeHTTP of rest/handler/timeouthandler.go with its buffering    *)
(* timeoutWriter ("http"), UnaryTimeoutInterceptor of zrpc ("rpc") and     *)
(* DoWithTimeout of core/fx ("fx").                                        *)
(***************************************************************************)
EXTENDS Naturals, Sequences

CONSTANTS
    MaxWrites,      \* the pieces of its body that an HTTP handler writes, at most
    Codes           \* the status codes that an HTTP handler sets

VARIABLE to

\* answer is what went out to the client, or the value that the call returned; wrote and set
\* are ghosts: the pieces that the handler wrote and the code it set first.
Init ==
    to = [kind |-> "none", fn |-> "new", main |-> "new", done |-> FALSE, panicChan |-> FALSE,
          ctx |-> "ok", timedOut |-> FALSE, code |-> 0, wbuf |-> 0,
          answer |-> <<>>, wrote |-> 0, set |-> 0]

Call(kind) ==
    /\ to.main = "new"
    /\ to' = [to EXCEPT !.kind = kind, !.main = "select", !.fn = "run"]

\* writeHeaderLocked: the first code counts; 0 is no code yet.
Coded(code) == IF to.timedOut \/ to.code # 0 THEN to.code ELSE code

WriteHeader(code) ==
    /\ to.kind = "http" /\ to.fn = "run" /\ to.set = 0
    /\ to' = [to EXCEPT !.code = Coded(code), !.set = code]

\* Mutant of Write: the check of timedOut is left out, and the piece goes to the client.
WriteThrough ==
    /\ to.kind = "http" /\ to.fn = "run" /\ to.wrote < MaxWrites
    /\ to' = [to EXCEPT !.wrote = @ + 1, !.set = IF @ = 0 THEN 200 ELSE @,
                        !.code = Coded(200), !.wbuf = @ + 1,
                        !.answer = IF to.timedOut THEN Append(@, <<0, 1>>) ELSE @]

\* Write under the lock; after the timeout it returns ErrHandlerTimeout.
Write ==
    /\ to.kind = "http" /\ to.fn = "run" /\ to.wrote < MaxWrites
    /\ to' = [to EXCEPT !.wrote = @ + 1, !.set = IF @ = 0 THEN 200 ELSE @,
                        !.code = Coded(200), !.wbuf = IF to.timedOut THEN @ ELSE @ + 1]

\* The function returns: close(done), or the buffered send of DoWithTimeout.
FnReturns ==
    /\ to.fn = "run"
    /\ to' = [to EXCEPT !.fn = "end", !.done = TRUE]

FnPanics ==
    /\ to.fn = "run"
    /\ to' = [to EXCEPT !.fn = "recover"]

\* Mutant of SendPanic: panicChan has no buffer.
SendPanicUnbuffered ==
    /\ to.fn = "recover" /\ to.main = "select"
    /\ to' = [to EXCEPT !.fn = "end", !.panicChan = TRUE]

\* The deferred recover sends to panicChan, which has a buffer of one.
SendPanic ==
    /\ to.fn = "recover" /\ ~to.panicChan
    /\ to' = [to EXCEPT !.fn = "end", !.panicChan = TRUE]

\* The deadline passes or the client goes away.
ContextDone(why) ==
    /\ to.main = "select" /\ to.ctx = "ok"
    /\ to' = [to EXCEPT !.ctx = why]

\* The three cases of select: the panic goes on in the caller,
MainPanics ==
    /\ to.main = "select" /\ to.panicChan
    /\ to' = [to EXCEPT !.main = "panicked"]

\* the buffered answer is copied, with the lock of the writer,
MainDone ==
    /\ to.main = "select" /\ to.done
    /\ to' = [to EXCEPT !.main = "returned",
                        !.answer = Append(@, <<IF to.code = 0 THEN 200 ELSE to.code, to.wbuf>>)]

\* or the error is written, and later writes of the handler refused.
MainTimesOut ==
    /\ to.main = "select" /\ to.ctx # "ok"
    /\ to' = [to EXCEPT !.main = "returned", !.timedOut = TRUE,
                        !.answer = Append(@, <<IF to.ctx = "canceled" THEN 499 ELSE 503, 0>>)]

Fn   == FnReturns \/ FnPanics \/ SendPanic
Main == MainPanics \/ MainDone \/ MainTimesOut

Next ==
    \/ \E kind \in {"http", "rpc", "fx"} : Call(kind)
    \/ \E code \in Codes : WriteHeader(code)
    \/ Write \/ Fn \/ Main
    \/ \E why \in {"canceled", "deadline"} : ContextDone(why)

Spec == Init /\ [][Next]_to

\* The caller goes on, the goroutine does once its function is over, and a deadline passes.
FairSpec ==
    /\ Spec
    /\ WF_to(Main) /\ WF_to(SendPanic)
    /\ WF_to(\E why \in {"canceled", "deadline"} : ContextDone(why))

TypeOK ==
    /\ to.main \in {"new", "select", "returned", "panicked"} /\ to.wbuf <= MaxWrites
-----------------------------------------------------------------------------
\* The client gets one answer: all that the handler wrote, with the code it set first, or the
\* page of the timeout and nothing of the handler; nothing of an answer before a panic.
AnswerIsWhole ==
    /\ to.main = "panicked" => to.answer = <<>>
    /\ to.main = "returned" =>
            \/ to.timedOut /\ to.answer \in {<<<<499, 0>>>>, <<<<503, 0>>>>}
            \/ to.done /\ to.answer = <<<<IF to.set = 0 THEN 200 ELSE to.set, to.wrote>>>>

\* The caller gets its answer though the function never returns, and the goroutine is not
\* left behind in a send when the caller did not wait for it.
CallerAndGoroutineEnd ==
    /\ to.main = "select" ~> to.main \in {"returned", "panicked"}
    /\ to.fn = "recover" ~> to.fn = "end"
=============================================================================
