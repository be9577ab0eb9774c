---------------------------- MODULE HandlerChain ----------------------------
(***************************************************************************)
(* The chain of handlers that bindRoute of rest/engine.go puts around a    *)
(* route, outermost first: MaxConns, BreakerHandler, SheddingHandler,      *)
(* TimeoutHandler and RecoverHandler.  Each acts before the next one and,  *)
(* deferred, after it.  Whether the breaker or the shedder drops a request *)
(* is a choice here (see GoogleBreaker and AdaptiveShedder); tracing,      *)
(* logging and metrics change nothing of this.                             *)
(***************************************************************************)
EXTENDS Naturals, FiniteSets

CONSTANTS Requests, MaxConns

HandlerChainAssumption == IsFiniteSet(Requests) /\ MaxConns \in Nat

VARIABLE hc

\* pc is where the goroutine of a request is; handler the state of the route's handler, which runs
\* on a goroutine of its own under TimeoutHandler (timed), and wrote the code the handler has sent.
\* code is what the layers see.  verdict is what the breaker was told, landed what the shedder was.
Init ==
    hc = [pc |-> [r \in Requests |-> "idle"], timed |-> [r \in Requests |-> TRUE],
          handler |-> [r \in Requests |-> "none"], wrote |-> [r \in Requests |-> 0],
          code |-> [r \in Requests |-> 0], conns |-> 0, flying |-> 0,
          verdict |-> [r \in Requests |-> "none"], landed |-> [r \in Requests |-> "none"]]

At(r, l) == hc.pc[r] = l

\* A request arrives, with a timeout or without (no timeout configured, or a websocket); MaxConns
\* takes a token or answers 503.
Arrive(r, timed) ==
    /\ At(r, "idle")
    /\ hc' = IF hc.conns < MaxConns
             THEN [hc EXCEPT !.pc[r] = "breaker", !.timed[r] = timed, !.conns = @ + 1]
             ELSE [hc EXCEPT !.pc[r] = "done", !.code[r] = 503]

\* BreakerHandler: Allow, or 503.
Allow(r) ==
    /\ At(r, "breaker")
    /\ \/ hc' = [hc EXCEPT !.pc[r] = "shed"]
       \/ hc' = [hc EXCEPT !.pc[r] = "leave", !.code[r] = 503]

\* SheddingHandler: Allow, or 503, which the breaker sees.
Shed(r) ==
    /\ At(r, "shed")
    /\ \/ hc' = [hc EXCEPT !.pc[r] = "serve", !.flying = @ + 1, !.handler[r] = "running"]
       \/ hc' = [hc EXCEPT !.pc[r] = "judge", !.code[r] = 503]

\* The handler sends a code,
Write(r, code) ==
    /\ hc.handler[r] = "running" /\ hc.wrote[r] = 0
    /\ hc' = [hc EXCEPT !.wrote[r] = code]

\* and returns, or panics: RecoverHandler sends 500 then, which has no effect after another code.
Return(r) ==
    /\ hc.handler[r] = "running"
    /\ \/ hc' = [hc EXCEPT !.handler[r] = "ended"]
       \/ hc' = [hc EXCEPT !.handler[r] = "ended", !.wrote[r] = IF @ = 0 THEN 500 ELSE @]

\* The request goes on with the handler's answer: 200 when it sent no code.
Answer(r) ==
    /\ At(r, "serve") /\ hc.handler[r] = "ended"
    /\ hc' = [hc EXCEPT !.pc[r] = "land", !.code[r] = IF hc.wrote[r] = 0 THEN 200 ELSE hc.wrote[r]]

\* TimeoutHandler: the time is up (503) or the client has gone (499); the handler runs on.
TimesOut(r) ==
    /\ At(r, "serve") /\ hc.timed[r]
    /\ \E code \in {499, 503} : hc' = [hc EXCEPT !.pc[r] = "land", !.code[r] = code]

\* The deferred function of SheddingHandler: Fail for 503, else Pass.
Land(r) ==
    /\ At(r, "land")
    /\ hc' = [hc EXCEPT !.pc[r] = "judge", !.flying = @ - 1,
                        !.landed[r] = IF hc.code[r] = 503 THEN "Fail" ELSE "Pass"]

\* Mutant of Judge: every code of an error is one of the server.
JudgeStrict(r) ==
    /\ At(r, "judge")
    /\ hc' = [hc EXCEPT !.pc[r] = "leave", !.verdict[r] = IF hc.code[r] < 400 THEN "Accept" ELSE "Reject"]

\* The deferred function of BreakerHandler.
Judge(r) ==
    /\ At(r, "judge")
    /\ hc' = [hc EXCEPT !.pc[r] = "leave", !.verdict[r] = IF hc.code[r] < 500 THEN "Accept" ELSE "Reject"]

\* The deferred function of MaxConns.
Leave(r) ==
    /\ At(r, "leave")
    /\ hc' = [hc EXCEPT !.pc[r] = "done", !.conns = @ - 1]

Next ==
    \E r \in Requests :
        \/ \E timed \in BOOLEAN : Arrive(r, timed)
        \/ \E code \in {200, 404, 500, 503} : Write(r, code)
        \/ Return(r)
        \/ Allow(r) \/ Shed(r) \/ Answer(r) \/ TimesOut(r) \/ Land(r) \/ Judge(r) \/ Leave(r)

Spec == Init /\ [][Next]_hc

TypeOK ==
    /\ hc.conns \in 0..Cardinality(Requests) /\ hc.flying \in 0..Cardinality(Requests)
    /\ \A r \in Requests : hc.code[r] \in {0, 200, 404, 499, 500, 503}
-----------------------------------------------------------------------------
Inside == {r \in Requests : hc.pc[r] \notin {"idle", "done"}}

\* Tokens and flying requests are those of the goroutines in between, through panics, timeouts and
\* drops at any layer: nothing stays taken when a request is done.
ChainGivesBack ==
    /\ hc.conns = Cardinality(Inside)
    /\ hc.flying = Cardinality({r \in Requests : hc.pc[r] \in {"serve", "land"}})

\* What the breaker and the shedder learn of a request that is done: the breaker rejects one that
\* was shed, that timed out, or whose handler failed, and the shedder fails only one that timed out or
\* that its handler answered with 503; a client that goes away counts for neither.
VerdictsFit ==
    \A r \in Requests : At(r, "done") =>
        /\ hc.verdict[r] = "Reject" => hc.code[r] \in {500, 503}
        /\ hc.verdict[r] = "Accept" => hc.code[r] \in {200, 404, 499}
        /\ hc.landed[r] = "Fail" => hc.code[r] = 503 /\ (hc.timed[r] \/ hc.wrote[r] = 503)
        /\ hc.handler[r] # "none" => hc.landed[r] # "none" /\ hc.verdict[r] # "none"
        /\ hc.landed[r] = "none" /\ hc.verdict[r] # "none" => hc.verdict[r] = "Reject"

\* No more handlers run than MaxConns allows, but for those whose request was answered by the
\* timeout: these run on without a token.
OnlyTimeoutsExceedMaxConns ==
    LET running == {r \in Requests : hc.handler[r] = "running"}
    IN  /\ Cardinality({r \in running : At(r, "serve")}) <= MaxConns
        /\ \A r \in running : ~At(r, "serve") => hc.timed[r] /\ hc.code[r] \in {499, 503}

\* What the handlers of a route take, run and report fits what happened to the requests.
RequestsAreAccounted == ChainGivesBack /\ VerdictsFit /\ OnlyTimeoutsExceedMaxConns
=============================================================================
