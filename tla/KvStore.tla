------------------------------ MODULE KvStore ------------------------------
(***************************************************************************)
(* clusterStore of core/stores/kv: a key-value store over several Redis    *)
(* nodes.  Every command finds the node of its key by consistent hashing   *)
(* (a ring that does not change after NewStore, see ConsistentHash) and    *)
(* runs there; Del takes several keys and deletes them one by one.  Nodes  *)
(* are external, and fail and recover at any time.                         *)
(***************************************************************************)
EXTENDS Naturals, Sequences, FiniteSets

CONSTANTS Nodes, Keys, Values, Nil, MaxFailures, MaxDels

KvStoreAssumption == Nil \notin Nodes

VARIABLE kv

\* The commands, by what they may do to the value of their key.
NumberWrites == {"Decr", "Decrby", "Eval"}
KeyReads     == {"Exists", "Get"}
KeyExpiry    == {"Expire", "Expireat"}
HashReads    == {"Hexists", "Hget", "Hgetall", "Hkeys", "Hlen", "Hmget"}
HashUpdates  == {"Hdel", "Hincrby", "Hset", "Hsetnx", "Hmset", "Incr", "Incrby"}
ListReads    == {"Hvals", "Llen", "Lindex", "Lrange"}
ListUpdates  == {"Lpop", "Lpush", "Lrem", "Persist", "Pfadd", "Rpush"}
SetUpdates   == {"Sadd", "Set", "Setex", "Setnx", "SetnxEx", "GetSet"}
SetReads     == {"Pfcount", "Scard", "Sismember", "Smembers", "Srandmember", "Sscan", "Ttl"}
ZsetReads    == {"Zcard", "Zcount", "Zrank", "Zrange", "ZrangeWithScores",
                 "ZrangebyscoreWithScores", "ZrangebyscoreWithScoresAndLimit"}
ZsetUpdates  == {"Spop", "Srem", "Zadd", "Zadds", "Zincrby"}
ZsetRemovals == {"Zrem", "Zremrangebyrank", "Zremrangebyscore"}
ZsetReverse  == {"Zrevrange", "ZrevrangebyscoreWithScores", "ZrevrangebyscoreWithScoresAndLimit",
                 "Zrevrank", "Zscore"}

Reads  == KeyReads \cup HashReads \cup ListReads \cup SetReads \cup ZsetReads \cup ZsetReverse
Writes == NumberWrites \cup KeyExpiry \cup HashUpdates \cup ListUpdates \cup SetUpdates
          \cup ZsetUpdates \cup ZsetRemovals

\* ring is the node of each key; data the values on each node; down the nodes that fail.  todo are
\* the keys that the running Del has still to delete, failed those it has an error for, and gone,
\* as a ghost, those it deleted.
Init ==
    kv = [pc |-> "new", ring |-> [k \in Keys |-> Nil],
          data |-> [n \in Nodes |-> [k \in Keys |-> Nil]], down |-> {}, failures |-> 0,
          todo |-> <<>>, asked |-> {}, val |-> 0, failed |-> {}, gone |-> {}, dels |-> 0]

\* The ring has at least one node, for the total weight is positive.
NewStore(ring) ==
    /\ kv.pc = "new"
    /\ kv' = [kv EXCEPT !.pc = "idle", !.ring = ring]

GetRedis(k) == kv.ring[k]

\* A read changes nothing, and neither does a command whose node fails.
Read(op, k) == kv.pc # "new" /\ op \in Reads /\ UNCHANGED kv

\* A write leaves its key with some value, or without one.
Write(op, k, v) ==
    /\ kv.pc # "new" /\ op \in Writes
    /\ GetRedis(k) \notin kv.down
    /\ kv' = [kv EXCEPT !.data[GetRedis(k)][k] = v]

Del(keys) ==
    /\ kv.pc = "idle" /\ kv.dels < MaxDels
    /\ kv' = [kv EXCEPT !.pc = "del", !.todo = keys, !.val = 0, !.failed = {}, !.gone = {},
                        !.asked = {keys[i] : i \in DOMAIN keys}, !.dels = @ + 1]

\* Mutant of DelOne: the node of a key deletes all keys of the call.
DelOneWithAll ==
    /\ kv.pc = "del" /\ kv.todo # <<>>
    /\ LET k == Head(kv.todo)
       IN  kv' = IF GetRedis(k) \in kv.down
                 THEN [kv EXCEPT !.todo = Tail(@), !.failed = @ \cup {k}]
                 ELSE [kv EXCEPT !.todo = Tail(@), !.gone = @ \cup {k},
                                 !.data[GetRedis(k)] = [j \in Keys |-> IF j \in kv.asked THEN Nil
                                                                      ELSE @[j]]]

\* One key of DelCtx: its node deletes it, or there is one more error in the batch.
DelOne ==
    /\ kv.pc = "del" /\ kv.todo # <<>>
    /\ LET k == Head(kv.todo)
       IN  kv' = IF GetRedis(k) \in kv.down
                 THEN [kv EXCEPT !.todo = Tail(@), !.failed = @ \cup {k}]
                 ELSE [kv EXCEPT !.todo = Tail(@), !.data[GetRedis(k)][k] = Nil,
                                 !.gone = @ \cup {k},
                                 !.val = IF kv.data[GetRedis(k)][k] = Nil THEN @ ELSE @ + 1]

\* be.Err() and the number of keys deleted.
DelReturns ==
    /\ kv.pc = "del" /\ kv.todo = <<>>
    /\ kv' = [kv EXCEPT !.pc = "idle", !.val = 0, !.failed = {}, !.gone = {}, !.asked = {}]

\* A node (external) fails, or recovers with its data.
Fail(n) ==
    /\ n \notin kv.down /\ kv.failures < MaxFailures
    /\ kv' = [kv EXCEPT !.down = @ \cup {n}, !.failures = @ + 1]

Recover(n) ==
    /\ n \in kv.down
    /\ kv' = [kv EXCEPT !.down = @ \ {n}]

Next ==
    \/ \E ring \in [Keys -> Nodes] : NewStore(ring)
    \/ \E op \in Reads, k \in Keys : Read(op, k)
    \/ \E op \in Writes, k \in Keys, v \in Values \cup {Nil} : Write(op, k, v)
    \/ \E a, b \in Keys : Del(<<a, b>>)
    \/ DelOne \/ DelReturns
    \/ \E n \in Nodes : Fail(n) \/ Recover(n)

Spec == Init /\ [][Next]_kv

TypeOK ==
    /\ kv.pc \in {"new", "idle", "del"} /\ kv.failed \subseteq kv.asked
    /\ kv.val <= 2
-----------------------------------------------------------------------------
\* The value of a key, wherever it is.
Value == [k \in Keys |-> IF kv.ring[k] = Nil THEN Nil ELSE kv.data[kv.ring[k]][k]]

\* The cluster is one map: a key has one value, that of the last write that had no error, through
\* all failures of nodes.
M == INSTANCE KeyMap WITH map <- Value
ClusterIsAMap == M!Spec

\* A value is only ever on the node of its key, so that none comes back later.
NoStrayValue ==
    \A k \in Keys, n \in Nodes : kv.data[n][k] # Nil => n = kv.ring[k]

\* Del tries every key: when it returns, each was deleted or is among the errors, also behind
\* a key that failed, and what it counts are keys it deleted.
DelTriesEveryKey ==
    kv.pc = "del" /\ kv.todo = <<>> =>
        kv.asked = kv.gone \cup kv.failed /\ kv.val <= 2 - Cardinality(kv.failed)

\* A Store over several nodes is one map, no node keeps a value of another node's key, and Del of
\* several keys leaves none untried.
StoreIsAMap == ClusterIsAMap /\ [](NoStrayValue /\ DelTriesEveryKey)
=============================================================================
