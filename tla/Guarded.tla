------------------------------ MODULE Guarded ------------------------------
(***************************************************************************)
(* The calls that go through a circuit breaker: the commands of            *)
(* core/stores/redis, the collections of core/stores/mon and               *)
(* core/stores/mongo (mgo), the connections of core/stores/sqlx, the       *)
(* interceptors of zrpc and the handler of rest.  Each of these has its    *)
(* breaker and its own notion of an acceptable result.                     *)
(*                                                                         *)
(* A call is one step: the interleavings inside the breaker are those of   *)
(* GoogleBreaker.  The server behind a breaker is up or down; arguments    *)
(* and replies are abstracted to the class of the result.                  *)
(***************************************************************************)
EXTENDS Integers, Sequences, FiniteSets

CONSTANTS
    Protection,     \* protection of the breaker, 5 in the code
    MaxMarks,       \* bound on the results in the window
    MaxOutages      \* bound on the times the server goes down

GuardedAssumption == Protection \in Nat

VARIABLE gd
-----------------------------------------------------------------------------
\* The commands of redis.go, in the order of the file.
BitCommands  == {"BitCount", "BitOpAnd", "BitOpNot", "BitOpOr", "BitOpXor", "BitPos"}
KeyCommands  == {"Decr", "Decrby", "Del", "Eval", "EvalSha", "Exists", "Expire", "Expireat"}
GeoCommands  == {"GeoAdd", "GeoDist", "GeoHash", "GeoRadius", "GeoRadiusByMember", "GeoPos"}
GetCommands  == {"Get", "GetBit", "GetSet"}
HashCommands == {"Hdel", "Hexists", "Hget", "Hgetall", "Hincrby", "Hkeys", "Hlen", "Hmget"}
HashWrites   == {"Hset", "Hsetnx", "Hmset", "Hscan", "Hvals", "Incr", "Incrby", "Keys"}
ListCommands == {"Llen", "Lindex", "Lpop", "Lpush", "Lrange", "Lrem", "Ltrim"}
PfCommands   == {"Mget", "Persist", "Pfadd", "Pfcount", "Pfmerge"}
PipeCommands == {"Pipelined", "Rpop", "Rpush", "Sadd", "Scan", "SetBit", "Sscan", "Scard"}
SetCommands  == {"Set", "Setex", "Setnx", "SetnxEx", "Sismember", "Smembers", "Spop"}
SetAlgebra   == {"Srandmember", "Srem", "Sunion", "Sunionstore", "Sdiff", "Sdiffstore"}
SinterAndTtl == {"Sinter", "Sinterstore", "Ttl"}
ZsetCommands == {"Zadd", "Zadds", "Zcard", "Zcount", "Zincrby", "Zscore", "Zrank"}
ZsetRanges   == {"Zrem", "Zremrangebyscore", "Zremrangebyrank", "Zrange", "ZrangeWithScores",
                 "ZRevRangeWithScores"}
ZsetScores   == {"ZrangebyscoreWithScores", "ZrangebyscoreWithScoresAndLimit", "Zrevrange"}
ZsetReverse  == {"ZrevrangebyscoreWithScores", "ZrevrangebyscoreWithScoresAndLimit", "Zrevrank",
                 "Zunionstore"}

RedisCommands ==
    BitCommands \cup KeyCommands \cup GeoCommands \cup GetCommands \cup HashCommands
    \cup HashWrites \cup ListCommands \cup PfCommands \cup PipeCommands \cup SetCommands
    \cup SetAlgebra \cup SinterAndTtl \cup ZsetCommands \cup ZsetRanges \cup ZsetScores
    \cup ZsetReverse

\* Commands on a node or connection of their own, which no breaker guards.
BlockingPops  == {"Blpop", "BlpopEx"}
DirectCommand == BlockingPops \cup {"ScriptLoad"}

\* Commands for which red.Nil is not an error, and those that return at once for a size of 0.
SwallowsNil == {"Get", "GetSet"}
Limited     == {"ZrangebyscoreWithScoresAndLimit", "ZrevrangebyscoreWithScoresAndLimit"}

\* The methods of decoratedCollection of mon, and those of the session it returns.
MonReads    == {"Aggregate", "BulkWrite", "CountDocuments", "DeleteMany", "DeleteOne", "Distinct",
                "EstimatedDocumentCount"}
MonFinds    == {"Find", "FindOne", "FindOneAndDelete", "FindOneAndReplace", "FindOneAndUpdate"}
MonWrites   == {"InsertMany", "InsertOne", "ReplaceOne", "UpdateByID", "UpdateMany", "UpdateOne"}
MonSessions == {"StartSession", "AbortTransaction", "CommitTransaction", "WithTransaction",
                "EndSession"}

\* The methods of decoratedCollection of mongo that run at once, and those of a query, a pipe and
\* an iterator that keep the promise of Find, FindId or Pipe.
MgoWrites == {"Insert", "Remove", "RemoveAll", "RemoveId", "Update", "UpdateId", "Upsert"}
MgoQuery  == {"All", "Apply", "Count", "Distinct", "Explain", "For", "MapReduce", "One"}
MgoIter   == {"All", "Close", "For"}
MgoPipe   == {"All", "Explain", "One"}
MgoKeeps  == MgoQuery \cup MgoIter \cup MgoPipe

SqlQueries == {"QueryRow", "QueryRowPartial", "QueryRows", "QueryRowsPartial"}
SqlExecs   == {"Exec", "Prepare"}

Calls ==
    [redis |-> RedisCommands,
     mon   |-> MonReads \cup MonFinds \cup MonWrites \cup MonSessions,
     mgo   |-> MgoWrites,
     sql   |-> SqlQueries \cup SqlExecs \cup {"Transact"},
     rpc   |-> {"UnaryClient", "UnaryServer", "StreamServer"},
     rest  |-> {"Serve"}]

Stores == DOMAIN Calls
-----------------------------------------------------------------------------
\* The class of a result: "missing", there is no such key, row or document; "canceled", the caller
\* gave up; "misuse", an error of the driver about the arguments or the order of calls; "own", an
\* error of the function the caller passed in, or of reading the rows; "code", a handler of zrpc
\* answered with one of the codes that codes.Acceptable rejects (Internal, Unimplemented, ...);
\* "refused", the database answered with an error of its own (a wrong type, a syntax error, a key
\* that is there twice and that no accept option excuses); "fault", the server failed, or was too
\* slow.
Results == {"ok", "missing", "canceled", "misuse", "own", "code", "refused", "fault"}

\* acceptable of redis.go, mon/collection.go, mongo/collection.go and sqlconn.go, Acceptable of
\* zrpc/internal/codes, and a status below 500.
\* RedisAcceptsHits, the mutant of RedisAccepts, takes a missing key for a failure.
RedisAcceptsHits == {"ok", "canceled"}
RedisAccepts == {"ok", "missing", "canceled"}
MonAccepts   == {"ok", "missing", "misuse"}
MgoAccepts   == {"ok", "missing"}
SqlAccepts   == {"ok", "missing", "misuse", "canceled"}
RpcAccepts   == {"ok", "missing", "misuse", "canceled", "own"}
RestAccepts  == {"ok", "missing", "misuse", "canceled"}

\* queryRows accepts any error of its scanner.
QueryAccepts == SqlAccepts \cup {"own"}

\* For of a query or an iterator accepts an error of its callback.
ForAccepts == MgoAccepts \cup {"own"}

Accepts(op) ==
    CASE gd.store = "redis" -> RedisAccepts
      [] gd.store = "mon"   -> MonAccepts
      [] gd.store = "mgo"   -> IF op = "For" THEN ForAccepts ELSE MgoAccepts
      [] gd.store = "sql"   -> IF op \in SqlQueries THEN QueryAccepts ELSE SqlAccepts
      [] gd.store = "rpc"   -> RpcAccepts
      [] gd.store = "rest"  -> RestAccepts

\* Operations that run a function of the caller, or read rows into its value.
RunsOwn == SqlQueries \cup {"For", "Transact", "WithTransaction", "Pipelined", "UnaryServer",
                            "StreamServer", "Serve"}

\* The server (external): one that is up causes no fault.
Outcomes(op) ==
    (IF gd.up THEN {"ok", "missing", "misuse", "canceled"} ELSE {"fault", "canceled"})
    \cup (IF op \in RunsOwn THEN {"own"} ELSE {})
    \cup (IF gd.store = "rpc" THEN {"code"} ELSE {})
    \cup (IF gd.up /\ gd.store \in {"redis", "mon", "mgo", "sql"} THEN {"refused"} ELSE {})
-----------------------------------------------------------------------------
\* marks are the results in the window of the breaker, TRUE an accepted one; promise is that of a
\* query of mgo.  causes are, as a ghost, the results of a server that is up which were marked as
\* failures: its class, or the operation for an error of the caller's own.
Init ==
    gd = [store |-> "none", up |-> TRUE, outages |-> 0, marks |-> <<>>, promise |-> "none",
          answer |-> "none", causes |-> {}]

Open(s) ==
    /\ gd.store = "none"
    /\ gd' = [gd EXCEPT !.store = s]

Accepted == Cardinality({i \in DOMAIN gd.marks : gd.marks[i]})

\* accept of googleBreaker, with k = 3/2.
MayDrop == 2 * (Len(gd.marks) - Protection) - 3 * Accepted > 0

\* The result goes into the window.
Mark(op, o) ==
    [gd EXCEPT !.marks = Append(@, o \in Accepts(op)),
               !.causes = IF o \in Accepts(op) \/ o = "fault" THEN @
                          ELSE @ \cup {IF o = "own" THEN op ELSE o}]

\* Get and GetSet have no error for a missing key.
Answer(op, o) == IF op \in SwallowsNil /\ gd.store = "redis" /\ o = "missing" THEN "ok" ELSE o

\* A call of the store: DoWithAcceptable, or Allow with Accept or Reject after the call.
Call(op, o) ==
    /\ o \in Outcomes(op) /\ Len(gd.marks) < MaxMarks
    /\ gd' = [Mark(op, o) EXCEPT !.answer = Answer(op, o)]

Drop ==
    /\ MayDrop
    /\ gd' = [gd EXCEPT !.answer = "ErrServiceUnavailable"]

\* PingCtx: no failure reaches the breaker, and the answer says whether there was one.
Ping(o) ==
    /\ gd.store = "redis" /\ o \in Outcomes("Ping") /\ Len(gd.marks) < MaxMarks
    /\ gd' = [gd EXCEPT !.marks = Append(@, TRUE), !.answer = IF o = "ok" THEN "ok" ELSE "fault"]

\* A command without the breaker.
Direct(op, o) ==
    /\ gd.store = "redis" /\ op \in DirectCommand /\ o \in Outcomes(op)
    /\ gd' = [gd EXCEPT !.answer = o]

\* A limit of 0 is answered at once, before the breaker.
ZeroLimit(op) ==
    /\ gd.store = "redis" /\ op \in Limited
    /\ gd' = [gd EXCEPT !.answer = "ok"]

\* Find, FindId and Pipe of mgo: a promise, or a rejected query.
Find ==
    /\ gd.store = "mgo"
    /\ \/ gd' = [gd EXCEPT !.promise = "held"]
       \/ MayDrop /\ gd' = [gd EXCEPT !.promise = "rejected"]

\* A method of the query keeps the promise, each time it is called.
Keep(op, o) ==
    /\ gd.promise = "held" /\ op \in MgoKeeps /\ o \in Outcomes(op) /\ Len(gd.marks) < MaxMarks
    /\ gd' = [Mark(op, o) EXCEPT !.answer = o]

Rejected ==
    /\ gd.promise = "rejected"
    /\ gd' = [gd EXCEPT !.answer = "ErrServiceUnavailable"]

\* The oldest results leave the window.
Slide ==
    /\ gd.marks # <<>>
    /\ gd' = [gd EXCEPT !.marks = Tail(@)]

\* The server (external) goes down, or comes back.
Fault ==
    /\ gd.up /\ gd.outages < MaxOutages
    /\ gd' = [gd EXCEPT !.up = FALSE, !.outages = @ + 1]

Recover ==
    /\ ~gd.up
    /\ gd' = [gd EXCEPT !.up = TRUE]

Next ==
    \/ \E s \in Stores : Open(s)
    \/ /\ gd.store # "none"
       /\ \/ Drop \/ Find \/ Rejected \/ Slide \/ Fault \/ Recover
          \/ \E op \in Limited : ZeroLimit(op)
          \/ \E o \in Results :
                \/ Ping(o)
                \/ \E op \in Calls[gd.store] : Call(op, o)
                \/ \E op \in DirectCommand : Direct(op, o)
                \/ \E op \in MgoKeeps : Keep(op, o)

Spec == Init /\ [][Next]_gd

TypeOK ==
    /\ gd.store \in Stores \cup {"none"} /\ Len(gd.marks) <= MaxMarks
    /\ gd.answer \in Results \cup {"none", "ErrServiceUnavailable"}
    /\ gd.promise \in {"none", "held", "rejected"}
-----------------------------------------------------------------------------
Blamed ==
    [redis |-> {"refused", "misuse", "Pipelined"},
     mon   |-> {"refused", "canceled", "WithTransaction"},
     mgo   |-> {"refused", "canceled", "misuse"},
     sql   |-> {"refused", "Transact"},
     rpc   |-> {"code"},
     rest  |-> {"Serve"}]

\* A breaker over a server that never failed only opens for what its callers did, and only for
\* this: a command that the database refused, a wrong call of Redis or mgo, a canceled context of
\* mon or mgo, and an error that the function of a transaction, a pipeline or a handler returned
\* (for zrpc, one with a code that is rejected).
OnlyTheseBlameAHealthyServer ==
    gd.outages = 0 /\ MayDrop =>
        /\ gd.causes # {}
        /\ gd.causes \subseteq Blamed[gd.store]
=============================================================================
