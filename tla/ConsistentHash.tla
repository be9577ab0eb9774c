--------------------------- MODULE ConsistentHash ---------------------------
(***************************************************************************)
(* core/hash/consistenthash.go: keys is the sorted list of the hashes of   *)
(* the virtual nodes, ring the nodes of each hash.  The hash function is a *)
(* constant; two virtual nodes may have the same hash.                     *)
(***************************************************************************)
EXTENDS Naturals, SequencesExt, FiniteSets, FiniteSetsExt

CONSTANTS
    Nodes, Callers,     \* model values
    Replicas,           \* replicas of the ring
    HashOf,             \* [Nodes -> [0..Replicas - 1 -> hashes]]
    Hashes,             \* 0..n, the hashes of nodes and of the values that are looked up
    MaxAdds

VARIABLE ch

\* replicas is a ghost: how many virtual nodes the last AddWithReplicas gave a node, 0 when it
\* is not there; raced: two updates of one node overlapped.
Init ==
    ch = [keys |-> <<>>, ring |-> [h \in Hashes |-> <<>>], nodes |-> {},
          pc |-> [c \in Callers |-> "idle"], node |-> [c \in Callers |-> CHOOSE n \in Nodes : TRUE],
          count |-> [c \in Callers |-> 0], adds |-> 0,
          replicas |-> [n \in Nodes |-> 0], raced |-> FALSE]

\* The first key equal to h is taken out, when there is one.
Removed(s, h) ==
    LET at == {i \in DOMAIN s : s[i] = h}
    IN  IF at = {} THEN s ELSE RemoveAt(s, Min(at))

\* Remove, which looks at all Replicas virtual nodes that the node could have.
Without(n) ==
    LET keys[i \in 0..Replicas] ==
            IF i = 0 THEN ch.keys ELSE Removed(keys[i - 1], HashOf[n][i - 1])
        mine == {HashOf[n][i] : i \in 0..Replicas - 1}
    IN  IF n \notin ch.nodes THEN ch
        ELSE [ch EXCEPT !.keys = keys[Replicas], !.nodes = @ \ {n}, !.replicas[n] = 0,
                        !.ring = [h \in Hashes |->
                            IF h \in mine THEN SelectSeq(ch.ring[h], LAMBDA x : x # n)
                            ELSE ch.ring[h]]]

Busy(n) == \E c \in Callers : ch.pc[c] = "add" /\ ch.node[c] = n

RemoveNode(n) ==
    /\ n \in ch.nodes
    /\ ch' = [Without(n) EXCEPT !.raced = @ \/ Busy(n)]

\* AddWithReplicas (and AddWithWeight, which computes replicas): Remove, with the lock,
AddWithReplicas(c, n, replicas) ==
    /\ ch.pc[c] = "idle" /\ ch.adds < MaxAdds
    /\ ch' = [Without(n) EXCEPT !.pc[c] = "add", !.node[c] = n, !.count[c] = replicas,
                                !.adds = @ + 1, !.raced = @ \/ Busy(n)]

\* and, with the lock again, the virtual nodes and the sort.
AddNode(c) ==
    /\ ch.pc[c] = "add"
    /\ LET n    == ch.node[c]
           mine == [i \in 1..ch.count[c] |-> HashOf[n][i - 1]]
       IN  ch' = [ch EXCEPT !.pc[c] = "idle", !.nodes = @ \cup {n},
                            !.keys = SortSeq(@ \o mine, LAMBDA i, j : i < j),
                            !.ring = [h \in Hashes |-> ch.ring[h] \o
                                [i \in 1..Len(SelectSeq(mine, LAMBDA x : x = h)) |-> n]],
                            !.replicas[n] = ch.count[c]]

Next ==
    \/ \E n \in Nodes : RemoveNode(n)
    \/ \E c \in Callers, n \in Nodes, replicas \in 0..Replicas : AddWithReplicas(c, n, replicas)
    \/ \E c \in Callers : AddNode(c)

Spec == Init /\ [][Next]_ch

TypeOK ==
    /\ ch.nodes \subseteq Nodes
    /\ \A i \in 1..Len(ch.keys) - 1 : ch.keys[i] <= ch.keys[i + 1]

\* Mutant of Get: the hash modulo the number of keys.
GetModulo(keys, ring, h) ==
    IF keys = <<>> THEN {} ELSE ToSet(ring[keys[(h % Len(keys)) + 1]])

\* Get of a value with hash h: the nodes it chooses from, by a second hash when there are more
\* than one.
Get(keys, ring, h) ==
    IF \A x \in Hashes : ring[x] = <<>> THEN {}
    ELSE LET at == {i \in DOMAIN keys : keys[i] >= h}
         IN  ToSet(ring[keys[IF at = {} THEN 1 ELSE Min(at)]])
-----------------------------------------------------------------------------
Collide ==
    \E m, n \in Nodes : \E i, j \in 0..Replicas - 1 : <<m, i>> # <<n, j>> /\ HashOf[m][i] = HashOf[n][j]

\* Every key leads to a node and every virtual node has its key, unless two updates of a node
\* overlapped (both then add their virtual nodes, and Remove takes each key out once), or
\* hashes collide and Remove takes out the key of another node.
OnlyRaceStrandsKeys ==
    ~ch.raced /\ ~Collide =>
        \A h \in Hashes :
            Cardinality({i \in DOMAIN ch.keys : ch.keys[i] = h}) = Len(ch.ring[h])

\* Remove moves only the values of the removed node, and adding a node moves values to that
\* node only: the others stay where they are.
OthersStay ==
    [][ch' = ch \/ \A h \in Hashes :
         LET was == Get(ch.keys, ch.ring, h)
             is  == Get(ch'.keys, ch'.ring, h)
         IN  ~ch'.raced /\ ~Collide =>
                \/ is = was
                \/ \E n \in Nodes :
                    \/ was = {n} /\ n \notin ch'.nodes
                    \/ is = {n} /\ n \notin ch.nodes]_ch

\* The ring and its sorted keys fit, and a change of the nodes moves no other values.
NodesKeepTheirValues == []OnlyRaceStrandsKeys /\ OthersStay
=============================================================================
