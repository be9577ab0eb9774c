--------------------------- MODULE MongoSessions ---------------------------
(***************************************************************************)
(* Who holds a session of MongoDB, and until when.  Model of               *)
(* core/stores/mongo (and of mongoc, which is built on it) copies a        *)
(* session of mgo for each operation, as many at a time as its             *)
(* TimeoutLimit allows, and closes the copy when the operation is done.    *)
(* A session of core/stores/mon is started and ended through the breaker.  *)
(***************************************************************************)
EXTENDS Naturals, FiniteSets

CONSTANTS
    Callers,    \* goroutines, model values
    Limit       \* defaultConcurrency, 50 in the code

MongoSessionsAssumption == IsFiniteSet(Callers) /\ Limit \in Nat

VARIABLE ms

\* open are the callers whose copy of the session is open.  broken is the state of the breaker of
\* mon; driver are the callers whose session of mon the driver has not ended.
Init ==
    ms = [pc |-> [c \in Callers |-> "idle"], kind |-> [c \in Callers |-> "none"], tokens |-> 0,
          open |-> {}, broken |-> FALSE, driver |-> {}]

Goes(c, from, to) == ms.pc[c] = from /\ ms' = [ms EXCEPT !.pc[c] = to]

\* The methods of Model, by what they do with the session: execute, change and executeInt run the
\* operation, query and pipe only build one.
Executes == {"Insert", "Remove", "RemoveId", "Update", "UpdateId", "RemoveAll", "Upsert"}
Builds   == {"Find", "FindId", "Pipe"}
MongocExecutes == {"Count", "FindAllNoCache", "FindOne", "FindOneNoCache", "FindOneId", "FindOneIdNoCache",
                   "RemoveNoCache", "RemoveIdNoCache", "UpdateNoCache", "UpdateIdNoCache",
                   "RemoveAllNoCache", "UpsertNoCache"}

Kind(method) == IF method \in Builds THEN "query" ELSE "execute"

\* TakeSession: a token of the limit, then a copy; without a token in time, an error.
TakeSession(c, method) ==
    /\ ms.pc[c] = "idle"
    /\ \/ /\ ms.tokens < Limit
          /\ ms' = [ms EXCEPT !.pc[c] = "taken", !.kind[c] = Kind(method), !.tokens = @ + 1,
                              !.open = @ \cup {c}]
       \/ ms.tokens = Limit /\ ms' = ms

\* execute: fn runs on the collection of the session.  query: fn returns a query on it.
Run(c) == Goes(c, "taken", "put")

\* putSession, deferred: Return of the limit,
Return(c) ==
    /\ ms.pc[c] = "put"
    /\ ms' = [ms EXCEPT !.pc[c] = "close", !.tokens = @ - 1]

\* Mutant of Close: only a session that ran its operation is closed.
CloseExecuted(c) ==
    /\ ms.pc[c] = "close"
    /\ ms' = [ms EXCEPT !.open = IF ms.kind[c] = "query" THEN @ ELSE @ \ {c},
                        !.pc[c] = IF ms.kind[c] = "query" THEN "holds" ELSE "idle",
                        !.kind[c] = "none"]

\* then Close of the session.  The caller of query has the query now.
Close(c) ==
    /\ ms.pc[c] = "close"
    /\ ms' = [ms EXCEPT !.open = @ \ {c},
                        !.pc[c] = IF ms.kind[c] = "query" THEN "holds" ELSE "idle",
                        !.kind[c] = "none"]

\* One, All, Iter, ... of the query.
UseQuery(c) == Goes(c, "holds", "idle")
-----------------------------------------------------------------------------
\* The breaker of mon opens and closes, by the results of all callers.
Break == ms' = [ms EXCEPT !.broken = ~@]

\* StartSession of mon: dropped, or a wrapped session.
StartSession(c) ==
    /\ ms.pc[c] = "idle" /\ c \notin ms.driver
    /\ ms' = [ms EXCEPT !.pc[c] = "session", !.driver = @ \cup {c}]

\* AbortTransaction, CommitTransaction and WithTransaction leave the session open, run or dropped.
Transact(c) == Goes(c, "session", "session")

\* EndSession has no result: one the breaker drops leaves the session of the driver as it is.
EndSession(c) ==
    /\ ms.pc[c] = "session"
    /\ \/ ms' = [ms EXCEPT !.pc[c] = "idle", !.driver = @ \ {c}]
       \/ ms.broken /\ ms' = [ms EXCEPT !.pc[c] = "idle"]

Next ==
    \/ Break
    \/ \E c \in Callers :
        \/ \E m \in Executes \cup MongocExecutes \cup Builds : TakeSession(c, m)
        \/ Run(c) \/ Return(c) \/ Close(c) \/ UseQuery(c)
        \/ StartSession(c) \/ Transact(c) \/ EndSession(c)

Spec == Init /\ [][Next]_ms

TypeOK ==
    /\ ms.tokens \in 0..Limit
    /\ \A c \in Callers : ms.pc[c] \in {"idle", "taken", "put", "close", "holds", "session"}
-----------------------------------------------------------------------------
\* The tokens of the limit are those of the callers between take and put, so at most Limit copies
\* are in use at a time; the copies being closed, whose token is back, come on top.
SessionsAreLimited ==
    /\ ms.tokens = Cardinality({c \in Callers : ms.pc[c] \in {"taken", "put"}})
    /\ Cardinality(ms.open)
         <= Limit + Cardinality({c \in Callers : ms.pc[c] = "close"})

\* The copy of a caller is open exactly while its method of Model runs: a query that Find, FindId or
\* Pipe returned is only ever used after its session was closed.
SessionEndsWithItsMethod ==
    ms.open = {c \in Callers : ms.pc[c] \in {"taken", "put", "close"}}

\* Sessions are limited and every method gives its session back, whichever way it ends.
SessionsAreReturned == SessionsAreLimited /\ SessionEndsWithItsMethod
=============================================================================
