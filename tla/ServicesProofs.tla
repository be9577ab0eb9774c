--------------------------- MODULE ServicesProofs ---------------------------
(***************************************************************************)
(* What a request of a service goes through and the cache that it reads,   *)
(* and proofs about each of them for every value of its constants:         *)
(* HandlerChain, AdaptiveShedder and CacheNode.                            *)
(***************************************************************************)
EXTENDS Naturals, Sequences, FiniteSets, TLAPS

CONSTANTS
    Clients, Three,                 \* the callers of HandlerChain and of AdaptiveShedder
    Readers, Writers, Nil, Placeholder, Garbage, Error,     \* of CacheNode
    \* the parameters of the parts, and their bounds
    MaxConns,
    CoolOff, ShedderTime, MaxRequests,
    Expiry, Retries, MaxErrors

VARIABLES hc, sh, cn
-----------------------------------------------------------------------------
\* A cache node (CacheNode.tla): neither the entry nor what a reader gets is older than the deletes,
\* unless a delete overtook the query that it comes from, or a clean task gave up.

CN == INSTANCE CacheNode

\* Cardinality and IsFiniteSet are those of the part.
LEMMA CNSameCount ==
    ASSUME NEW S
    PROVE  CN!Cardinality(S) = Cardinality(S) /\ CN!IsFiniteSet(S) = IsFiniteSet(S)
  BY DEF Cardinality, CN!Cardinality, IsFiniteSet, CN!IsFiniteSet

CNFlying == {"get", "purge", "query", "set"}
CNEntries == {Nil, Garbage} \cup {CN!Entry(v) : v \in CN!Rows}

CNType ==
    /\ DOMAIN cn = {"row", "entry", "ttl", "flight", "next", "errors", "pc", "got", "valid", "wpc",
                    "cleans", "overtaken", "excused"}
    /\ cn.row \in CN!Rows /\ cn.entry \in CNEntries
    /\ cn.pc \in [Readers -> CNFlying \cup {"idle", "wait", "done"}]
    /\ cn.got \in [Readers -> CN!Rows \cup {Error}]
    /\ cn.valid \in [Readers -> SUBSET CN!Rows]
    /\ cn.wpc \in [Writers -> {"idle", "del", "done"}] /\ cn.cleans \in [Writers -> Nat]

\* What was queried is a row.
CNGot == \A r \in Readers : cn.pc[r] = "set" => cn.got[r] \in CN!Rows

\* Every writer makes one version.
CNNext == cn.next = 2 + Cardinality({w \in Writers : cn.wpc[w] # "idle"})

\* The reader of the flight is the only one that is not idle, waiting or done.
CNFlight ==
    /\ cn.flight \in Readers \cup {Nil}
    /\ cn.flight # Nil => cn.pc[cn.flight] \in CNFlying
    /\ \A r \in Readers : /\ cn.pc[r] \in CNFlying => cn.flight = r
                          /\ cn.pc[r] = "wait" => cn.flight # Nil

\* The row is valid for every reader that has begun.
CNRow == \A r \in Readers : cn.pc[r] # "idle" => cn.row \in cn.valid[r]

\* What was queried and not overtaken is the row, or a delete is to come.
CNQueried ==
    \A r \in Readers : cn.pc[r] = "set" /\ ~cn.overtaken => CN!Dirty \/ cn.got[r] = cn.row

\* The entry, and what the flight has queried, are valid for all readers in the flight.
CNShared ==
    \A q \in Readers : cn.pc[q] \in CNFlying \cup {"wait"} =>
        /\ cn.entry \in {Nil, Garbage} \cup {CN!Entry(v) : v \in cn.valid[q]}
        /\ \A r \in Readers : cn.pc[r] = "set" => cn.got[r] \in cn.valid[q]

CNInv ==
    /\ CNType /\ CNGot /\ CNNext /\ CNFlight /\ CNRow
    /\ ~cn.excused => /\ CN!OnlyOvertakenReadStaysStale /\ CN!OnlyOvertakenReadIsStale
                      /\ CNQueried /\ CNShared

\* Entries and rows correspond.
LEMMA CNEntry ==
    ASSUME CN!CacheNodeAssumption
    PROVE  /\ \A v \in CN!Rows : CN!Entry(v) \notin {Nil, Garbage}
           /\ \A v \in CN!Rows : v # Nil => CN!Entry(v) = v /\ v # Placeholder
           /\ CN!Entry(Nil) = Placeholder /\ Nil \in CN!Rows
  BY Zenon DEF CN!CacheNodeAssumption, CN!Entry, CN!Rows

\* The function of the flight answers all its readers: with what is valid for each of them.
LEMMA CNAnswered ==
    ASSUME CN!CacheNodeAssumption, CNInv,
           NEW r \in Readers, cn.pc[r] \in CNFlying, NEW v \in CN!Rows \cup {Error},
           DOMAIN cn' = DOMAIN cn, cn'.row = cn.row, cn'.next = cn.next, cn'.valid = cn.valid,
           cn'.wpc = cn.wpc, cn'.cleans = cn.cleans, cn'.flight = Nil, cn'.overtaken = FALSE,
           cn'.pc = [q \in Readers |-> IF q = r \/ cn.pc[q] = "wait" THEN "done" ELSE cn.pc[q]],
           cn'.got = [q \in Readers |-> IF q = r \/ cn.pc[q] = "wait" THEN v ELSE cn.got[q]],
           cn'.entry \in CNEntries,
           ~cn'.excused => /\ ~cn.excused
                           /\ ~CN!Dirty => cn'.entry \in {Nil, Garbage, CN!Entry(cn.row)}
                           /\ \A q \in Readers : q = r \/ cn.pc[q] = "wait"
                                                   => v \in cn.valid[q] \cup {Error}
    PROVE  CNInv'
<1> USE DEF CNFlying
<1>1. CNType /\ CNGot /\ CNNext /\ CNFlight /\ CNRow
  BY Zenon DEF CNInv
<1>2. CNType'
  <2>1. cn'.pc \in [Readers -> CNFlying \cup {"idle", "wait", "done"}]
    BY <1>1 DEF CNType
  <2>2. cn'.got \in [Readers -> CN!Rows \cup {Error}]
    BY <1>1 DEF CNType
  <2> QED
    BY Zenon, <1>1, <2>1, <2>2 DEF CNType
<1>3. CNNext' /\ CN!Dirty' = CN!Dirty
  BY SMTT(40), <1>1 DEF CNNext, CN!Dirty
<1>4. \A q \in Readers : cn'.pc[q] \in {"idle", "done"}
  BY SMTT(40), <1>1 DEF CNType, CNFlight
<1>5. CNFlight' /\ CNGot' /\ CNRow'
  BY <1>1, <1>4 DEF CNFlight, CNGot, CNRow, CNType
<1>6. ASSUME ~cn'.excused
      PROVE  /\ CN!OnlyOvertakenReadStaysStale' /\ CN!OnlyOvertakenReadIsStale'
             /\ CNQueried' /\ CNShared'
  <2>1. CN!OnlyOvertakenReadStaysStale'
    BY Zenon, <1>3, <1>6 DEF CN!OnlyOvertakenReadStaysStale
  <2>2. CN!OnlyOvertakenReadIsStale'
    BY SMTT(40), <1>1, <1>6 DEF CN!OnlyOvertakenReadIsStale, CNInv, CNType
  <2>3. CNQueried' /\ CNShared'
    BY Zenon, <1>4 DEF CNQueried, CNShared
  <2> QED
    BY Zenon, <2>1, <2>2, <2>3
<1> QED
  BY Zenon, <1>2, <1>3, <1>5, <1>6 DEF CNInv

\* doGetCache finds an entry, or fails.
LEMMA CNGet ==
    ASSUME CN!CacheNodeAssumption, CNInv, NEW r \in Readers, CN!Get(r) \/ CN!GetFails(r)
    PROVE  CNInv'
<1> USE DEF CNFlying
<1>1. CNType /\ CNGot /\ CNNext /\ CNFlight /\ CNRow /\ cn.pc[r] = "get"
  BY Zenon DEF CNInv, CN!Get, CN!GetFails
<1>2. ASSUME NEW v \in CN!Rows \cup {Error}, NEW d, d \in {cn, CN!Failing(cn)},
             cn' = CN!Answered(d, r, v),
             ~cn.excused => \A q \in Readers : q = r \/ cn.pc[q] = "wait"
                                                 => v \in cn.valid[q] \cup {Error}
      PROVE  CNInv'
  <2>1. /\ DOMAIN cn' = DOMAIN cn /\ cn'.row = cn.row /\ cn'.next = cn.next /\ cn'.valid = cn.valid
        /\ cn'.wpc = cn.wpc /\ cn'.cleans = cn.cleans /\ cn'.flight = Nil /\ cn'.overtaken = FALSE
        /\ cn'.entry = cn.entry /\ cn'.excused = cn.excused
        /\ cn'.pc = [q \in Readers |-> IF q = r \/ cn.pc[q] = "wait" THEN "done" ELSE cn.pc[q]]
        /\ cn'.got = [q \in Readers |-> IF q = r \/ cn.pc[q] = "wait" THEN v ELSE cn.got[q]]
    BY <1>1, <1>2 DEF CN!Answered, CN!Failing, CNType
  <2>2. /\ cn'.entry \in CNEntries
        /\ ~cn'.excused => /\ ~cn.excused
                           /\ ~CN!Dirty => cn'.entry \in {Nil, Garbage, CN!Entry(cn.row)}
    BY Zenon, <1>1, <2>1 DEF CNType, CNInv, CN!OnlyOvertakenReadStaysStale
  <2> QED
    BY ZenonT(40), <1>1, <1>2, <2>1, <2>2, CNAnswered
<1>3. CASE CN!GetFails(r)
  BY Zenon, <1>2, <1>3 DEF CN!GetFails
<1>4. ASSUME NEW v \in CN!Rows, cn.entry = CN!Entry(v), cn' = CN!Answered(cn, r, v)
      PROVE  CNInv'
  <2>1. ASSUME ~cn.excused, NEW q \in Readers, q = r \/ cn.pc[q] = "wait"
        PROVE  v \in cn.valid[q]
    <3>1. cn.entry \in {Nil, Garbage} \cup {CN!Entry(x) : x \in cn.valid[q]}
      BY Zenon, <1>1, <2>1 DEF CNInv, CNShared
    <3>2. cn.valid[q] \subseteq CN!Rows
      BY Zenon, <1>1 DEF CNType
    <3> QED
      BY SMTT(40), <1>4, <3>1, <3>2, CNEntry
  <2> QED
    BY Zenon, <1>2, <1>4, <2>1
<1>5. ASSUME cn' = [cn EXCEPT !.pc[r] = "query"] \/ cn' = [cn EXCEPT !.pc[r] = "purge"]
      PROVE  CNInv'
  <2>1. /\ DOMAIN cn' = DOMAIN cn /\ cn'.row = cn.row /\ cn'.next = cn.next /\ cn'.valid = cn.valid
        /\ cn'.wpc = cn.wpc /\ cn'.cleans = cn.cleans /\ cn'.flight = cn.flight
        /\ cn'.overtaken = cn.overtaken /\ cn'.entry = cn.entry /\ cn'.excused = cn.excused
        /\ cn'.got = cn.got
        /\ \E l \in {"query", "purge"} : cn'.pc = [cn.pc EXCEPT ![r] = l]
    BY <1>1, <1>5 DEF CNType
  <2>2. CNType' /\ CNNext' /\ CNRow' /\ CN!Dirty' = CN!Dirty
    BY SMTT(40), <1>1, <2>1 DEF CNType, CNNext, CNRow, CN!Dirty
  <2>3. CNFlight' /\ CNGot'
    BY SMTT(40), <1>1, <2>1 DEF CNFlight, CNGot, CNType
  <2>4. ~cn'.excused => /\ CN!OnlyOvertakenReadStaysStale' /\ CN!OnlyOvertakenReadIsStale'
                        /\ CNQueried' /\ CNShared'
    BY SMTT(40), <1>1, <2>1, <2>2 DEF CNInv, CNType, CN!OnlyOvertakenReadStaysStale,
       CN!OnlyOvertakenReadIsStale, CNQueried, CNShared
  <2> QED
    BY <2>2, <2>3, <2>4 DEF CNInv
<1>6. CASE CN!Get(r)
  <2>1. CASE cn.entry = Nil \/ cn.entry = Garbage
    BY <1>5, <1>6, <2>1, CNEntry DEF CN!Get, CN!CacheNodeAssumption
  <2>2. ASSUME NEW v \in CN!Rows, cn.entry = CN!Entry(v)
        PROVE  CNInv'
    <3>1. cn.entry \notin {Nil, Garbage}
      BY Zenon, <2>2, CNEntry
    <3>2. CASE v = Nil
      BY <1>4, <1>6, <2>2, <3>1, <3>2, CNEntry DEF CN!Get
    <3>3. CASE v # Nil
      <4>1. cn.entry = v /\ v # Placeholder
        BY <2>2, <3>3, CNEntry
      <4>2. cn' = CN!Answered(cn, r, v)
        BY SMTT(40), <1>6, <3>1, <4>1 DEF CN!Get
      <4> QED
        BY <1>4, <2>2, <4>2
    <3> QED
      BY Zenon, <3>2, <3>3
  <2> QED
    BY Zenon, <1>1, <2>1, <2>2 DEF CNType, CNEntries
<1> QED
  BY Zenon, <1>3, <1>6

\* The flight ends with the error or the result of its query, also if that cannot be stored.
LEMMA CNQuery ==
    ASSUME CN!CacheNodeAssumption, CNInv, NEW r \in Readers, CN!Query(r) \/ CN!Set(r)
    PROVE  CNInv'
<1> USE DEF CNFlying
<1>1. CNType /\ CNGot /\ CNNext /\ CNFlight /\ CNRow /\ cn.pc[r] \in {"query", "set"}
  BY Zenon DEF CNInv, CN!Query, CN!Set
<1>2. ASSUME NEW v \in CN!Rows \cup {Error}, v = Error \/ (cn.pc[r] = "set" /\ v = cn.got[r])
      PROVE  ~cn.excused => \A q \in Readers : q = r \/ cn.pc[q] = "wait"
                                                 => v \in cn.valid[q] \cup {Error}
  BY Zenon, <1>1, <1>2 DEF CNInv, CNShared
<1>3. ASSUME NEW v \in CN!Rows \cup {Error}, v = Error \/ (cn.pc[r] = "set" /\ v = cn.got[r]),
             cn' = CN!Answered(CN!Failing(cn), r, v)
      PROVE  CNInv'
  <2>1. /\ DOMAIN cn' = DOMAIN cn /\ cn'.row = cn.row /\ cn'.next = cn.next /\ cn'.valid = cn.valid
        /\ cn'.wpc = cn.wpc /\ cn'.cleans = cn.cleans /\ cn'.flight = Nil /\ cn'.overtaken = FALSE
        /\ cn'.entry = cn.entry /\ cn'.excused = cn.excused
        /\ cn'.pc = [q \in Readers |-> IF q = r \/ cn.pc[q] = "wait" THEN "done" ELSE cn.pc[q]]
        /\ cn'.got = [q \in Readers |-> IF q = r \/ cn.pc[q] = "wait" THEN v ELSE cn.got[q]]
    BY SMTT(40), <1>1, <1>3 DEF CN!Answered, CN!Failing, CNType
  <2>2. /\ cn'.entry \in CNEntries
        /\ ~cn'.excused => /\ ~cn.excused
                           /\ ~CN!Dirty => cn'.entry \in {Nil, Garbage, CN!Entry(cn.row)}
    BY Zenon, <1>1, <2>1 DEF CNType, CNInv, CN!OnlyOvertakenReadStaysStale
  <2> QED
    BY ZenonT(40), <1>1, <1>2, <1>3, <2>1, <2>2, CNAnswered
<1>4. ASSUME cn.pc[r] = "query",
             cn' = [cn EXCEPT !.pc[r] = "set", !.got[r] = cn.row, !.overtaken = FALSE]
      PROVE  CNInv'
  <2>1. /\ DOMAIN cn' = DOMAIN cn /\ cn'.row = cn.row /\ cn'.next = cn.next /\ cn'.valid = cn.valid
        /\ cn'.wpc = cn.wpc /\ cn'.cleans = cn.cleans /\ cn'.flight = cn.flight
        /\ cn'.overtaken = FALSE /\ cn'.entry = cn.entry /\ cn'.excused = cn.excused
        /\ cn'.got = [cn.got EXCEPT ![r] = cn.row] /\ cn'.pc = [cn.pc EXCEPT ![r] = "set"]
    <3>1. DOMAIN cn = {"row", "entry", "ttl", "flight", "next", "errors", "pc", "got", "valid", "wpc",
                       "cleans", "overtaken", "excused"}
      BY Zenon, <1>1 DEF CNType
    <3> QED
      BY Zenon, <1>4, <3>1
  <2>2. CNType' /\ CNNext' /\ CNRow' /\ CN!Dirty' = CN!Dirty
    BY SMTT(40), <1>1, <2>1 DEF CNType, CNNext, CNRow, CN!Dirty
  <2>3. CNFlight' /\ CNGot'
    BY <1>1, <2>1 DEF CNFlight, CNGot, CNType
  <2>4. \A q \in Readers : cn'.pc[q] = "set" => q = r
    BY <1>1, <1>4, <2>1 DEF CNFlight, CNGot, CNType
  <2>5. ASSUME ~cn'.excused
        PROVE  /\ CN!OnlyOvertakenReadStaysStale' /\ CN!OnlyOvertakenReadIsStale'
               /\ CNQueried' /\ CNShared'
    <3>1. CN!OnlyOvertakenReadStaysStale' /\ CN!OnlyOvertakenReadIsStale'
      BY SMTT(40), <1>1, <1>4, <2>1, <2>2, <2>5 DEF CNInv, CNType, CN!OnlyOvertakenReadStaysStale,
         CN!OnlyOvertakenReadIsStale
    <3>2. CNQueried' /\ CNShared'
      BY SMTT(40), <1>1, <1>4, <2>1, <2>4, <2>5 DEF CNInv, CNType, CNQueried, CNShared, CNRow
    <3> QED
      BY Zenon, <3>1, <3>2
  <2> QED
    BY Zenon, <2>2, <2>3, <2>5 DEF CNInv
<1>5. ASSUME cn.pc[r] = "set", NEW d \in CN!Around(Expiry),
             cn' = CN!Answered([cn EXCEPT !.entry = CN!Entry(cn.got[r]), !.ttl = d,
                                          !.excused = @ \/ cn.overtaken], r, cn.got[r])
      PROVE  CNInv'
  <2> DEFINE v == cn.got[r]
  <2>1. /\ DOMAIN cn' = DOMAIN cn /\ cn'.row = cn.row /\ cn'.next = cn.next /\ cn'.valid = cn.valid
        /\ cn'.wpc = cn.wpc /\ cn'.cleans = cn.cleans /\ cn'.flight = Nil /\ cn'.overtaken = FALSE
        /\ cn'.entry = CN!Entry(v) /\ cn'.excused = (cn.excused \/ cn.overtaken)
        /\ cn'.pc = [q \in Readers |-> IF q = r \/ cn.pc[q] = "wait" THEN "done" ELSE cn.pc[q]]
        /\ cn'.got = [q \in Readers |-> IF q = r \/ cn.pc[q] = "wait" THEN v ELSE cn.got[q]]
    BY SMTT(40), <1>1, <1>5 DEF CN!Answered, CNType
  <2>2. ~cn'.excused => ~cn.excused /\ ~cn.overtaken
    BY ZenonT(40), <1>1, <2>1 DEF CNType
  <2>3. v \in CN!Rows /\ cn'.entry \in CNEntries
    BY <1>1, <1>5, <2>1 DEF CNType, CNEntries, CNGot
  <2>4. ~cn'.excused /\ ~CN!Dirty => cn'.entry = CN!Entry(cn.row)
    BY Zenon, <1>5, <2>1, <2>2 DEF CNInv, CNQueried
  <2> QED
    BY ZenonT(40), <1>1, <1>2, <1>5, <2>1, <2>2, <2>3, <2>4, CNAnswered
<1>6. cn.got[r] \in CN!Rows \cup {Error}
  BY Zenon, <1>1 DEF CNType
<1>7. CASE CN!Query(r)
  <2>1. ASSUME cn' = CN!Answered(CN!Failing(cn), r, Error) PROVE CNInv'
    BY Zenon, <1>3, <2>1
  <2> QED
    BY SMTT(40), <1>4, <1>7, <2>1 DEF CN!Query
<1>8. CASE CN!Set(r)
  <2>1. cn.pc[r] = "set"
    BY Zenon, <1>8 DEF CN!Set
  <2>2. ASSUME cn' = CN!Answered(CN!Failing(cn), r, cn.got[r]) PROVE CNInv'
    BY SMTT(40), <1>3, <1>6, <2>1, <2>2
  <2> QED
    BY ZenonT(40), <1>5, <1>8, <2>1, <2>2 DEF CN!Set
<1> QED
  BY <1>7, <1>8

\* DoEx: a reader begins a flight or joins it.
LEMMA CNEnters ==
    ASSUME CN!CacheNodeAssumption, CNInv, NEW r \in Readers, CN!Lead(r) \/ CN!Join(r)
    PROVE  CNInv'
<1> USE DEF CNFlying
<1>1. CNType /\ CNGot /\ CNNext /\ CNFlight /\ CNRow /\ cn.pc[r] = "idle"
  BY Zenon DEF CNInv, CN!Lead, CN!Join
<1>2. /\ DOMAIN cn' = DOMAIN cn /\ cn'.row = cn.row /\ cn'.next = cn.next
      /\ cn'.valid = [cn.valid EXCEPT ![r] = IF CN!Dirty THEN CN!Rows ELSE {cn.row}]
      /\ cn'.wpc = cn.wpc /\ cn'.cleans = cn.cleans /\ cn'.got = cn.got
      /\ cn'.overtaken = cn.overtaken /\ cn'.entry = cn.entry
      /\ \/ cn.flight = Nil /\ cn'.flight = r /\ cn'.pc = [cn.pc EXCEPT ![r] = "get"]
         \/ cn.flight # Nil /\ cn'.flight = cn.flight /\ cn'.pc = [cn.pc EXCEPT ![r] = "wait"]
  BY ZenonT(40), <1>1 DEF CN!Lead, CN!Join, CNType
<1>3. ~cn'.excused => /\ ~cn.excused
                      /\ cn.flight # Nil => ~(cn.overtaken /\ cn.pc[cn.flight] = "set")
  BY ZenonT(40), <1>1 DEF CN!Lead, CN!Join, CNType
<1>4. \A q \in Readers : /\ cn'.pc[q] = "set" <=> cn.pc[q] = "set"
                         /\ q # r => cn'.pc[q] = cn.pc[q] /\ cn'.valid[q] = cn.valid[q]
                         /\ cn'.pc[r] \in {"get", "wait"}
  BY <1>1, <1>2 DEF CNType
<1>5. CNType' /\ CN!Dirty' = CN!Dirty /\ CNNext'
  BY SMTT(40), <1>1, <1>2 DEF CNType, CNNext, CN!Dirty
<1>6. CNRow' /\ CNGot'
  BY SMTT(40), <1>1, <1>2, <1>4 DEF CNType, CNRow, CNGot
<1>7. CNFlight'
  BY <1>1, <1>2 DEF CNType, CNFlight, CN!CacheNodeAssumption
<1>8. ASSUME ~cn'.excused
      PROVE  /\ CN!OnlyOvertakenReadStaysStale' /\ CN!OnlyOvertakenReadIsStale'
             /\ CNQueried' /\ CNShared'
  <2>1. /\ CN!OnlyOvertakenReadStaysStale /\ CN!OnlyOvertakenReadIsStale
        /\ CNQueried /\ CNShared /\ ~cn.excused
    BY Zenon, <1>3, <1>8 DEF CNInv
  <2>2. CN!OnlyOvertakenReadStaysStale'
    BY SMTT(40), <1>2, <1>5, <2>1 DEF CN!OnlyOvertakenReadStaysStale
  <2>3. CN!OnlyOvertakenReadIsStale'
    BY SMTT(40), <1>2, <1>4, <2>1 DEF CN!OnlyOvertakenReadIsStale
  <2>4. CNQueried'
    BY SMTT(40), <1>2, <1>4, <1>5, <2>1 DEF CNQueried
  <2>5. cn'.valid[r] = IF CN!Dirty THEN CN!Rows ELSE {cn.row}
    BY Zenon, <1>1, <1>2 DEF CNType
  <2>6. cn'.entry \in {Nil, Garbage} \cup {CN!Entry(v) : v \in cn'.valid[r]}
    BY SMTT(40), <1>1, <1>2, <2>1, <2>5 DEF CNType, CNEntries, CN!OnlyOvertakenReadStaysStale
  <2>7. ASSUME NEW p \in Readers, cn'.pc[p] = "set" PROVE cn'.got[p] \in cn'.valid[r]
    <3>1. cn.pc[p] = "set" /\ cn.flight = p /\ cn.flight # Nil
      BY <1>1, <1>4, <2>7 DEF CNFlight, CN!CacheNodeAssumption
    <3>2. CN!Dirty \/ cn.got[p] = cn.row
      BY SMTT(40), <1>3, <1>8, <2>1, <3>1 DEF CNQueried
    <3> QED
      BY SMTT(40), <1>1, <1>2, <2>5, <3>1, <3>2 DEF CNGot
  <2>8. CNShared'
    BY SMTT(40), <1>2, <1>4, <2>1, <2>6, <2>7 DEF CNShared
  <2> QED
    BY Zenon, <2>2, <2>3, <2>4, <2>8
<1> QED
  BY <1>5, <1>6, <1>7, <1>8 DEF CNInv

\* A reader is done and may begin again.
LEMMA CNAgain ==
    ASSUME CN!CacheNodeAssumption, CNInv, NEW r \in Readers, CN!ReaderAgain(r)
    PROVE  CNInv'
<1> USE DEF CNFlying
<1>1. CNType /\ CNGot /\ CNNext /\ CNFlight /\ CNRow /\ cn.pc[r] = "done"
  BY Zenon DEF CNInv, CN!ReaderAgain
<1>2. /\ DOMAIN cn' = DOMAIN cn /\ cn'.row = cn.row /\ cn'.next = cn.next /\ cn'.flight = cn.flight
      /\ cn'.valid = [cn.valid EXCEPT ![r] = {}] /\ cn'.wpc = cn.wpc /\ cn'.cleans = cn.cleans
      /\ cn'.got = [cn.got EXCEPT ![r] = Nil] /\ cn'.pc = [cn.pc EXCEPT ![r] = "idle"]
      /\ cn'.overtaken = cn.overtaken /\ cn'.entry = cn.entry /\ cn'.excused = cn.excused
  BY Zenon, <1>1 DEF CN!ReaderAgain, CNType
<1>3. \A q \in Readers :
         q # r => cn'.pc[q] = cn.pc[q] /\ cn'.valid[q] = cn.valid[q] /\ cn'.got[q] = cn.got[q]
  BY Zenon, <1>1, <1>2 DEF CNType
<1>4. cn'.pc[r] = "idle" /\ Nil \in CN!Rows
  BY Zenon, <1>1, <1>2 DEF CNType, CN!Rows
<1>5. CNType' /\ CN!Dirty' = CN!Dirty /\ CNNext'
  BY SMTT(40), <1>1, <1>2, <1>4 DEF CNType, CNNext, CN!Dirty
<1>6. CNRow' /\ CNGot' /\ CNFlight'
  BY SMTT(40), <1>1, <1>2, <1>3, <1>4 DEF CNRow, CNGot, CNFlight
<1>7. ~cn'.excused => /\ CN!OnlyOvertakenReadStaysStale' /\ CN!OnlyOvertakenReadIsStale'
                      /\ CNQueried' /\ CNShared'
  BY SMTT(40), <1>2, <1>3, <1>4, <1>5 DEF CNInv, CN!OnlyOvertakenReadStaysStale,
     CN!OnlyOvertakenReadIsStale, CNQueried, CNShared
<1> QED
  BY Zenon, <1>5, <1>6, <1>7 DEF CNInv

\* The entry is deleted, or goes by itself: by a writer, a clean task, a reader that found garbage, or
\* because it has expired.
LEMMA CNGoes ==
    ASSUME CN!CacheNodeAssumption, CNInv,
           DOMAIN cn' = DOMAIN cn, cn'.row = cn.row, cn'.next = cn.next, cn'.flight = cn.flight,
           cn'.got = cn.got, cn'.valid = cn.valid, cn'.entry \in {Nil, cn.entry},
           cn'.pc \in [Readers -> CNFlying \cup {"idle", "wait", "done"}],
           \A q \in Readers : \/ cn'.pc[q] = cn.pc[q]
                              \/ cn.pc[q] = "purge" /\ cn'.pc[q] = "query",
           cn'.wpc \in [Writers -> {"idle", "del", "done"}], cn'.cleans \in [Writers -> Nat],
           \A w \in Writers : cn'.wpc[w] # "idle" <=> cn.wpc[w] # "idle",
           ~cn'.excused => /\ ~cn.excused
                           /\ \/ cn'.entry = Nil /\ cn'.overtaken
                              \/ CN!Dirty <=> CN!Dirty'
                           /\ cn.overtaken => cn'.overtaken
    PROVE  CNInv'
<1> USE DEF CNFlying
<1>1. CNType /\ CNGot /\ CNNext /\ CNFlight /\ CNRow
  BY Zenon DEF CNInv
<1>2. CNType'
  BY Zenon, <1>1 DEF CNType, CNEntries
<1>3. {w \in Writers : cn'.wpc[w] # "idle"} = {w \in Writers : cn.wpc[w] # "idle"}
  OBVIOUS
<1>4. CNNext'
  BY Zenon, <1>1, <1>3 DEF CNNext
<1>5. CNGot' /\ CNRow' /\ CNFlight'
  BY <1>1 DEF CNGot, CNRow, CNFlight
<1>6. ASSUME ~cn'.excused
      PROVE  /\ CN!OnlyOvertakenReadStaysStale' /\ CN!OnlyOvertakenReadIsStale'
             /\ CNQueried' /\ CNShared'
  <2>1. /\ CN!OnlyOvertakenReadStaysStale /\ CN!OnlyOvertakenReadIsStale
        /\ CNQueried /\ CNShared /\ ~cn.excused
    BY Zenon, <1>6 DEF CNInv
  <2>2. CN!OnlyOvertakenReadStaysStale'
    BY Zenon, <1>6, <2>1 DEF CN!OnlyOvertakenReadStaysStale
  <2>3. CN!OnlyOvertakenReadIsStale'
    BY Zenon, <2>1 DEF CN!OnlyOvertakenReadIsStale
  <2>4. CNQueried'
    BY <1>6, <2>1 DEF CNQueried
  <2>5. CNShared'
    BY Zenon, <2>1 DEF CNShared
  <2> QED
    BY Zenon, <2>2, <2>3, <2>4, <2>5
<1> QED
  BY Zenon, <1>2, <1>4, <1>5, <1>6 DEF CNInv

\* processCache deletes an entry that it cannot read, and redis an entry that has expired.
LEMMA CNPurges ==
    ASSUME CN!CacheNodeAssumption, CNInv, CN!Expire \/ \E r \in Readers : CN!Purge(r)
    PROVE  CNInv'
<1> USE DEF CNFlying
<1>1. CNType
  BY Zenon DEF CNInv
<1>2. ASSUME NEW r \in Readers, CN!Purge(r) PROVE CNInv'
  <2>1. /\ DOMAIN cn' = DOMAIN cn /\ cn'.row = cn.row /\ cn'.next = cn.next
        /\ cn'.flight = cn.flight /\ cn'.got = cn.got /\ cn'.valid = cn.valid /\ cn'.wpc = cn.wpc
        /\ cn'.cleans = cn.cleans /\ cn'.pc = [cn.pc EXCEPT ![r] = "query"]
        /\ (~cn'.excused => ~cn.excused) /\ cn.pc[r] = "purge"
        /\ cn'.entry \in {Nil, cn.entry} /\ (cn.overtaken => cn'.overtaken)
    <3>1. CASE cn' = [CN!Deleted(cn) EXCEPT !.pc[r] = "query"]
      BY ZenonT(40), <1>1, <1>2, <3>1 DEF CN!Purge, CN!Deleted, CNType
    <3>2. CASE cn' = [CN!Failing(cn) EXCEPT !.pc[r] = "query"]
      BY ZenonT(40), <1>1, <1>2, <3>2 DEF CN!Purge, CN!Failing, CNType
    <3> QED
      BY SMTT(40), <1>2, <3>1, <3>2 DEF CN!Purge
  <2>2. /\ cn'.pc \in [Readers -> CNFlying \cup {"idle", "wait", "done"}]
        /\ \A q \in Readers : \/ cn'.pc[q] = cn.pc[q]
                              \/ cn.pc[q] = "purge" /\ cn'.pc[q] = "query"
    BY <1>1, <2>1 DEF CNType
  <2>3. CN!Dirty' = CN!Dirty
    BY Zenon, <2>1 DEF CN!Dirty
  <2> QED
    BY <1>1, <2>1, <2>2, <2>3, CNGoes DEF CNType
<1>3. CASE CN!Expire
  <2>1. /\ DOMAIN cn' = DOMAIN cn /\ cn'.row = cn.row /\ cn'.next = cn.next
        /\ cn'.flight = cn.flight /\ cn'.got = cn.got /\ cn'.valid = cn.valid /\ cn'.wpc = cn.wpc
        /\ cn'.cleans = cn.cleans /\ cn'.pc = cn.pc /\ cn'.excused = cn.excused
        /\ cn'.entry = Nil /\ cn'.overtaken = cn.overtaken
    BY Zenon, <1>1, <1>3 DEF CN!Expire, CNType
  <2>2. CN!Dirty' = CN!Dirty
    BY <2>1 DEF CN!Dirty
  <2> QED
    BY <1>1, <2>1, <2>2, CNGoes DEF CNType
<1> QED
  BY Zenon, <1>2, <1>3

\* A writer deletes the entry, at once or by a clean task.
LEMMA CNDeletes ==
    ASSUME CN!CacheNodeAssumption, CNInv, NEW w \in Writers, CN!Del(w) \/ CN!Clean(w)
    PROVE  CNInv'
<1>1. CNType
  BY Zenon DEF CNInv
<1>2. /\ DOMAIN cn' = DOMAIN cn /\ cn'.row = cn.row /\ cn'.next = cn.next
      /\ cn'.flight = cn.flight /\ cn'.got = cn.got /\ cn'.valid = cn.valid /\ cn'.pc = cn.pc
  <2>1. CASE CN!Del(w)
    BY ZenonT(40), <1>1, <2>1 DEF CN!Del, CN!Deleted, CN!Failing, CNType
  <2>2. CASE CN!Clean(w)
    BY ZenonT(40), <1>1, <2>2 DEF CN!Clean, CN!Deleted, CN!Failing, CNType
  <2> QED
    BY Zenon, <2>1, <2>2
<1>3. CASE CN!Del(w)
  <2>1. /\ cn.wpc[w] = "del" /\ cn'.wpc = [cn.wpc EXCEPT ![w] = "done"]
        /\ cn'.excused = cn.excused
        /\ \/ cn'.entry = Nil /\ cn'.overtaken /\ cn'.cleans = cn.cleans
           \/ /\ cn'.entry = cn.entry /\ cn'.overtaken = cn.overtaken
              /\ cn'.cleans = [cn.cleans EXCEPT ![w] = Retries]
    BY ZenonT(40), <1>1, <1>3 DEF CN!Del, CN!Deleted, CN!Failing, CNType
  <2>2. /\ cn'.wpc \in [Writers -> {"idle", "del", "done"}] /\ cn'.cleans \in [Writers -> Nat]
        /\ \A x \in Writers : cn'.wpc[x] # "idle" <=> cn.wpc[x] # "idle"
    <3>1. cn.wpc \in [Writers -> {"idle", "del", "done"}] /\ cn.cleans \in [Writers -> Nat]
      BY Zenon, <1>1 DEF CNType
    <3>2. /\ cn'.wpc \in [Writers -> {"idle", "del", "done"}]
          /\ \A x \in Writers : cn'.wpc[x] # "idle" <=> cn.wpc[x] # "idle"
      BY Zenon, <2>1, <3>1
    <3>3. cn'.cleans \in [Writers -> Nat]
      BY <2>1, <3>1 DEF CN!CacheNodeAssumption
    <3> QED
      BY Zenon, <3>2, <3>3
  <2>3. ~cn'.excused => /\ ~cn.excused
                        /\ \/ cn'.entry = Nil /\ cn'.overtaken
                           \/ CN!Dirty <=> CN!Dirty'
                        /\ cn.overtaken => cn'.overtaken
    BY <1>1, <2>1 DEF CNType, CN!Dirty, CN!CacheNodeAssumption
  <2> QED
    BY Zenon, <1>1, <1>2, <2>1, <2>2, <2>3, CNGoes DEF CNType
<1>4. CASE CN!Clean(w)
  <2>1. /\ cn.cleans[w] > 0 /\ cn'.wpc = cn.wpc
        /\ \/ /\ cn'.entry = Nil /\ cn'.overtaken /\ cn'.cleans = [cn.cleans EXCEPT ![w] = 0]
              /\ ~cn'.excused => ~cn.excused
           \/ /\ cn'.entry = cn.entry /\ (cn.overtaken => cn'.overtaken)
              /\ cn'.cleans = [cn.cleans EXCEPT ![w] = cn.cleans[w] - 1]
              /\ ~cn'.excused => ~cn.excused /\ cn.cleans[w] # 1
    <3>1. CASE cn' = [CN!Deleted(cn) EXCEPT !.cleans[w] = 0]
      BY <1>1, <1>4, <3>1 DEF CN!Clean, CN!Deleted, CNType
    <3>2. CASE cn' = [CN!Failing(cn) EXCEPT !.cleans[w] = @ - 1,
                                            !.excused = @ \/ cn.cleans[w] = 1]
      BY ZenonT(40), <1>1, <1>4, <3>2 DEF CN!Clean, CN!Failing, CNType
    <3> QED
      BY <1>4, <3>1, <3>2 DEF CN!Clean
  <2>2. cn'.cleans \in [Writers -> Nat]
    BY <1>1, <2>1 DEF CNType
  <2>3. ~cn'.excused => /\ ~cn.excused
                        /\ \/ cn'.entry = Nil /\ cn'.overtaken
                           \/ CN!Dirty <=> CN!Dirty'
                        /\ cn.overtaken => cn'.overtaken
    BY <1>1, <2>1 DEF CNType, CN!Dirty
  <2> QED
    BY ZenonT(40), <1>1, <1>2, <2>1, <2>2, <2>3, CNGoes DEF CNType
<1> QED
  BY <1>3, <1>4

-----------------------------------------------------------------------------
\* Facts about finite sets and what they count.
INSTANCE FiniteSetTheorems

\* What Cardinality is of a subset S of a finite set W, and after u has joined or left it.
LEMMA CountOne ==
    ASSUME NEW W, IsFiniteSet(W), NEW S \in SUBSET W, NEW u \in W
    PROVE  /\ Cardinality(S) \in Nat /\ Cardinality(S) <= Cardinality(W)
           /\ u \in S => Cardinality(S \ {u}) = Cardinality(S) - 1 /\ Cardinality(S) > 0
           /\ u \notin S => Cardinality(S \cup {u}) = Cardinality(S) + 1
<1>1. IsFiniteSet(S) /\ Cardinality(S) \in Nat /\ Cardinality(S) <= Cardinality(W)
  BY Zenon, FS_Subset, FS_CardinalityType
<1>2. u \notin S => Cardinality(S \cup {u}) = Cardinality(S) + 1
  BY Zenon, <1>1, FS_AddElement
<1>3. u \in S => Cardinality(S \ {u}) = Cardinality(S) - 1
  BY Zenon, <1>1, FS_RemoveElement
<1>4. IsFiniteSet(S \ {u}) /\ Cardinality(S \ {u}) \in Nat
  BY Zenon, <1>1, FS_Subset, FS_CardinalityType
<1> QED
  BY <1>1, <1>2, <1>3, <1>4

\* The number of those in W that are at one of the places in L.
Number(W, f, L) == Cardinality({w \in W : f[w] \in L})

\* Only u moves, from its place in f to that in g.
OnlyMoves(W, u, f, g) == \A w \in W \ {u} : g[w] = f[w]

\* How the number changes then.
LEMMA NumberMoves ==
    ASSUME NEW W, IsFiniteSet(W), NEW u \in W, NEW f, NEW g, OnlyMoves(W, u, f, g), NEW L
    PROVE  /\ Number(W, f, L) \in Nat /\ Number(W, g, L) \in Nat
           /\ (f[u] \in L <=> g[u] \in L) => Number(W, g, L) = Number(W, f, L)
           /\ f[u] \notin L /\ g[u] \in L => Number(W, g, L) = Number(W, f, L) + 1
           /\ f[u] \in L /\ g[u] \notin L => Number(W, g, L) = Number(W, f, L) - 1
<1> DEFINE before == {w \in W : f[w] \in L}
           after == {w \in W : g[w] \in L}
<1>1. before \in SUBSET W /\ after \in SUBSET W /\ (u \in before <=> f[u] \in L)
  OBVIOUS
<1>2. /\ (f[u] \in L <=> g[u] \in L) => after = before
      /\ f[u] \notin L /\ g[u] \in L => after = before \cup {u}
      /\ f[u] \in L /\ g[u] \notin L => after = before \ {u}
  BY DEF OnlyMoves
<1>3. Number(W, f, L) = Cardinality(before) /\ Number(W, g, L) = Cardinality(after)
  BY Zenon DEF Number
<1> HIDE DEF before, after
<1>4. Cardinality(after) \in Nat
  BY Zenon, <1>1, CountOne
<1>5. /\ Cardinality(before) \in Nat
      /\ u \in before => Cardinality(before \ {u}) = Cardinality(before) - 1 /\ Cardinality(before) > 0
      /\ u \notin before => Cardinality(before \cup {u}) = Cardinality(before) + 1
  BY Zenon, <1>1, CountOne
<1> QED
  BY Zenon, <1>1, <1>2, <1>3, <1>4, <1>5
-----------------------------------------------------------------------------
\* The invariant of the cache node holds at the start, with an entry that cannot be read.
LEMMA CNInit ==
    ASSUME CN!CacheNodeAssumption, CN!Init
    PROVE  CNInv
<1>1. {w \in Writers : cn.wpc[w] # "idle"} = {} /\ Cardinality({}) = 0
  BY Zenon, FS_EmptySet DEF CN!Init
<1>2. CN!Cardinality(Writers) \in Nat
  BY Zenon, CNSameCount, FS_CardinalityType DEF CN!CacheNodeAssumption
<1>3. /\ cn.row = 1 /\ cn.entry = Garbage /\ cn.flight = Nil /\ cn.next = 2
      /\ cn.pc = [r \in Readers |-> "idle"] /\ cn.got = [r \in Readers |-> Nil]
      /\ cn.valid = [r \in Readers |-> {}] /\ cn.wpc = [w \in Writers |-> "idle"]
      /\ cn.cleans = [w \in Writers |-> 0] /\ cn.overtaken = FALSE /\ cn.excused = FALSE
      /\ DOMAIN cn = {"row", "entry", "ttl", "flight", "next", "errors", "pc", "got", "valid", "wpc",
                      "cleans", "overtaken", "excused"}
  BY Zenon DEF CN!Init
<1>4. 1 \in CN!Rows /\ Nil \in CN!Rows
  BY <1>2 DEF CN!Rows, CN!Versions
<1>5. CNType
  <2>1. cn.row \in CN!Rows /\ cn.entry \in CNEntries
    BY Zenon, <1>3, <1>4 DEF CNEntries
  <2>2. /\ cn.got \in [Readers -> CN!Rows \cup {Error}] /\ cn.valid \in [Readers -> SUBSET CN!Rows]
        /\ cn.pc \in [Readers -> CNFlying \cup {"idle", "wait", "done"}]
    BY <1>3, <1>4
  <2>3. /\ cn.wpc \in [Writers -> {"idle", "del", "done"}] /\ cn.cleans \in [Writers -> Nat]
    BY <1>3
  <2>4. DOMAIN cn = {"row", "entry", "ttl", "flight", "next", "errors", "pc", "got", "valid", "wpc",
                     "cleans", "overtaken", "excused"}
    BY Zenon, <1>3
  <2> QED
    BY <2>1, <2>2, <2>3, <2>4 DEF CNType
<1>6. CNNext
  BY SMTT(40), <1>1, <1>3 DEF CNNext
<1> QED
  BY <1>3, <1>5, <1>6 DEF CNInv, CNGot, CNFlight, CNFlying, CNRow, CNQueried, CNShared,
     CN!OnlyOvertakenReadStaysStale, CN!OnlyOvertakenReadIsStale

\* A writer changes the row: a delete is to come.
LEMMA CNExec ==
    ASSUME CN!CacheNodeAssumption, CNInv, NEW w \in Writers, CN!Exec(w)
    PROVE  CNInv'
<1> USE DEF CNFlying
<1> DEFINE busy == {x \in Writers : cn.wpc[x] # "idle"}
<1>1. CNType /\ CNGot /\ CNNext /\ CNFlight /\ CNRow /\ cn.wpc[w] = "idle"
  BY Zenon DEF CNInv, CN!Exec
<1>2. PICK v \in {cn.next, Nil} : cn' = [CN!Written(v) EXCEPT !.wpc[w] = "del"]
  BY Zenon DEF CN!Exec
<1>3. /\ DOMAIN cn' = DOMAIN cn /\ cn'.row = v /\ cn'.next = cn.next + 1
      /\ cn'.flight = cn.flight /\ cn'.got = cn.got /\ cn'.pc = cn.pc /\ cn'.entry = cn.entry
      /\ cn'.wpc = [cn.wpc EXCEPT ![w] = "del"] /\ cn'.cleans = cn.cleans
      /\ cn'.excused = cn.excused /\ cn'.overtaken = cn.overtaken
      /\ cn'.valid = [r \in Readers |-> IF cn.pc[r] = "idle" THEN {} ELSE cn.valid[r] \cup {v}]
  BY Zenon, <1>1, <1>2 DEF CN!Written, CNType
<1>4. /\ IsFiniteSet(Writers) /\ busy \in SUBSET Writers /\ w \notin busy
      /\ {x \in Writers : cn'.wpc[x] # "idle"} = busy \cup {w}
  BY SMTT(40), <1>1, <1>3, CNSameCount DEF CNType, CN!CacheNodeAssumption
<1>5. cn.next = 2 + Cardinality(busy)
  BY Zenon, <1>1 DEF CNNext
<1> HIDE DEF busy
<1>6. /\ Cardinality(busy) \in Nat /\ Cardinality(busy \cup {w}) = Cardinality(busy) + 1
      /\ Cardinality(busy \cup {w}) <= Cardinality(Writers) /\ Cardinality(Writers) \in Nat
  <2>1. busy \cup {w} \in SUBSET Writers
    BY Zenon, <1>4
  <2> QED
    BY SMTT(40), <1>4, <2>1, CountOne, FS_CardinalityType
<1>7. v \in CN!Rows
  <2>1. CN!Cardinality(Writers) = Cardinality(Writers)
    BY Zenon, CNSameCount
  <2>2. cn.next \in 1..(Cardinality(Writers) + 1)
    BY <1>5, <1>6
  <2> QED
    BY <2>1, <2>2 DEF CN!Rows, CN!Versions
<1>8. CNNext'
  <2>1. Cardinality({x \in Writers : cn'.wpc[x] # "idle"}) = Cardinality(busy) + 1
    BY Zenon, <1>4, <1>6
  <2>2. cn'.next = 2 + (Cardinality(busy) + 1)
    BY SMTT(40), <1>3, <1>5, <1>6
  <2> QED
    BY SMTT(40), <2>1, <2>2 DEF CNNext
<1>9. CNType'
  <2>1. cn'.valid \in [Readers -> SUBSET CN!Rows]
    BY SMTT(40), <1>1, <1>3, <1>7 DEF CNType
  <2> QED
    BY SMTT(40), <1>1, <1>3, <1>7, <2>1 DEF CNType
<1>10. CNGot' /\ CNRow' /\ CNFlight' /\ CN!Dirty'
  BY <1>1, <1>3 DEF CNGot, CNRow, CNFlight, CN!Dirty, CNType
<1>11. \A r \in Readers : cn.pc[r] # "idle" => cn.valid[r] \subseteq cn'.valid[r]
  BY Zenon, <1>3
<1>12. ~cn'.excused => /\ CN!OnlyOvertakenReadStaysStale' /\ CN!OnlyOvertakenReadIsStale'
                       /\ CNQueried' /\ CNShared'
  BY <1>3, <1>10, <1>11 DEF CNInv, CN!OnlyOvertakenReadStaysStale, CN!OnlyOvertakenReadIsStale,
     CNQueried, CNShared
<1> QED
  BY <1>8, <1>9, <1>10, <1>12 DEF CNInv

\* cacheNode: after all deletes and retries the entry is that of the row, and a reader that begins
\* then gets no older row, unless the query of a reader was overtaken by a delete, or a clean task gave
\* up.
OnlyOvertakenReadsAreStale == CN!OnlyOvertakenReadsAreStale

\* This holds for any number of readers, writers, failures and retries.
THEOREM EntriesAreFresh ==
    ASSUME CN!CacheNodeAssumption
    PROVE  CN!Spec => []OnlyOvertakenReadsAreStale
<1>1. CN!Init => CNInv
  BY Zenon, CNInit
<1>2. CNInv /\ [CN!Next]_cn => CNInv'
  <2> SUFFICES ASSUME CNInv, CN!Next \/ UNCHANGED cn PROVE CNInv'
    BY Zenon
  <2>1. CASE UNCHANGED cn
    BY ZenonT(40), <2>1 DEF CNInv, CNType, CNGot, CNNext, CNFlight, CNRow, CNQueried, CNShared, CN!Dirty,
       CN!OnlyOvertakenReadStaysStale, CN!OnlyOvertakenReadIsStale
  <2>2. CASE CN!Next
    BY Zenon, <2>2, CNEnters, CNGet, CNPurges, CNQuery, CNAgain, CNExec, CNDeletes DEF CN!Next
  <2> QED
    BY Zenon, <2>1, <2>2
<1>3. CNInv => OnlyOvertakenReadsAreStale
  BY Zenon DEF CNInv, OnlyOvertakenReadsAreStale, CN!OnlyOvertakenReadsAreStale,
     CN!OnlyOvertakenReadStaysStale, CN!OnlyOvertakenReadIsStale
<1> QED
  BY <1>1, <1>2, <1>3, PTL DEF CN!Spec
-----------------------------------------------------------------------------
\* The handlers of a route (HandlerChain.tla): whatever a request meets on its way in, MaxConns and
\* the shedder get back what it took, and what breaker and shedder are told is what its client saw.

HC == INSTANCE HandlerChain WITH Requests <- Clients

\* Cardinality and IsFiniteSet are those of the part.
LEMMA HCSameCount ==
    ASSUME NEW S
    PROVE  HC!Cardinality(S) = Cardinality(S) /\ HC!IsFiniteSet(S) = IsFiniteSet(S)
  BY Zenon DEF Cardinality, HC!Cardinality, IsFiniteSet, HC!IsFiniteSet

HCInside == {"breaker", "shed", "serve", "land", "judge", "leave"}

HCType ==
    /\ DOMAIN hc = {"pc", "timed", "handler", "wrote", "code", "conns", "flying", "verdict", "landed"}
    /\ hc.pc \in [Clients -> HCInside \cup {"idle", "done"}]
    /\ hc.timed \in [Clients -> BOOLEAN]
    /\ hc.handler \in [Clients -> {"none", "running", "ended"}]
    /\ hc.wrote \in [Clients -> {0, 200, 404, 500, 503}]
    /\ hc.code \in [Clients -> {0, 200, 404, 499, 500, 503}]
    /\ hc.verdict \in [Clients -> {"none", "Accept", "Reject"}]
    /\ hc.landed \in [Clients -> {"none", "Pass", "Fail"}]

\* A request at p with timeout t, whose handler is in state h and wrote w; c is the code that the
\* layers see, v what the breaker was told and l what the shedder was.
HCFits(p, t, h, w, c, v, l) ==
    /\ p \in HCInside \cup {"idle", "done"} /\ t \in BOOLEAN /\ h \in {"none", "running", "ended"}
    /\ w \in {0, 200, 404, 500, 503} /\ c \in {0, 200, 404, 499, 500, 503}
    /\ v \in {"none", "Accept", "Reject"} /\ l \in {"none", "Pass", "Fail"}
    /\ p \in {"idle", "breaker", "shed"} => h = "none"
    /\ p \in {"idle", "breaker", "shed", "serve", "land"} => l = "none"
    /\ p \notin {"leave", "done"} => v = "none"
    /\ p \in {"serve", "land"} => h # "none"
    /\ h # "none" => /\ p \in {"judge", "leave", "done"} => l # "none"
                     /\ p \in {"leave", "done"} => v # "none"
    /\ h = "running" /\ p # "serve" => t /\ c \in {499, 503}
    /\ p \in {"land", "judge"} => c # 0
    /\ p = "land" /\ c = 503 => t \/ w = 503
    /\ p = "judge" /\ l = "none" => c = 503
    /\ l = "Fail" => c = 503 /\ (t \/ w = 503)
    /\ v = "Reject" => c \in {500, 503}
    /\ v = "Accept" => c \in {200, 404, 499}
    /\ l = "none" /\ v # "none" => v = "Reject"

HCRequest(r) ==
    HCFits(hc.pc[r], hc.timed[r], hc.handler[r], hc.wrote[r], hc.code[r], hc.verdict[r], hc.landed[r])

HCCounts ==
    /\ hc.conns = Number(Clients, hc.pc, HCInside) /\ hc.conns <= MaxConns
    /\ hc.flying = Number(Clients, hc.pc, {"serve", "land"})

HCRequests == \A r \in Clients : HCRequest(r)

HCInv == HCType /\ HCCounts /\ HCRequests

\* A step of u: its row becomes the one given.
HCMoves(u, p, t, h, w, c, v, l) ==
    /\ DOMAIN hc' = DOMAIN hc
    /\ hc'.pc = [hc.pc EXCEPT ![u] = p] /\ hc'.timed = [hc.timed EXCEPT ![u] = t]
    /\ hc'.handler = [hc.handler EXCEPT ![u] = h] /\ hc'.wrote = [hc.wrote EXCEPT ![u] = w]
    /\ hc'.code = [hc.code EXCEPT ![u] = c]
    /\ hc'.verdict = [hc.verdict EXCEPT ![u] = v] /\ hc'.landed = [hc.landed EXCEPT ![u] = l]

\* Such a step leaves the other requests as they are.
LEMMA HCMovesOne ==
    ASSUME HCType, HCRequests, NEW u \in Clients, NEW p, NEW t, NEW h, NEW w, NEW c, NEW v, NEW l,
           HCMoves(u, p, t, h, w, c, v, l), HCFits(p, t, h, w, c, v, l)
    PROVE  /\ HCType' /\ HCRequests'
           /\ OnlyMoves(Clients, u, hc.pc, hc'.pc) /\ hc'.pc[u] = p
<1>1. HCType'
  <2>1. /\ p \in HCInside \cup {"idle", "done"} /\ t \in BOOLEAN /\ h \in {"none", "running", "ended"}
        /\ w \in {0, 200, 404, 500, 503} /\ c \in {0, 200, 404, 499, 500, 503}
        /\ v \in {"none", "Accept", "Reject"} /\ l \in {"none", "Pass", "Fail"}
    BY DEF HCFits
  <2> QED
    BY <2>1 DEF HCType, HCMoves
<1>2. hc'.pc[u] = p /\ hc'.timed[u] = t /\ hc'.handler[u] = h /\ hc'.wrote[u] = w
      /\ hc'.code[u] = c /\ hc'.verdict[u] = v /\ hc'.landed[u] = l
  BY DEF HCType, HCMoves
<1>3. ASSUME NEW r \in Clients \ {u}
      PROVE  /\ hc'.pc[r] = hc.pc[r] /\ hc'.timed[r] = hc.timed[r] /\ hc'.handler[r] = hc.handler[r]
             /\ hc'.wrote[r] = hc.wrote[r] /\ hc'.code[r] = hc.code[r]
             /\ hc'.verdict[r] = hc.verdict[r] /\ hc'.landed[r] = hc.landed[r]
  BY DEF HCType, HCMoves
<1>4. ASSUME NEW r \in Clients PROVE HCRequest(r)'
  <2>1. CASE r = u
    BY Zenon, <1>2, <2>1 DEF HCRequest
  <2>2. CASE r # u
    <3>1. HCRequest(r)
      BY Zenon DEF HCRequests
    <3> QED
      BY Zenon, <1>3, <2>2, <3>1 DEF HCRequest
  <2> QED
    BY Zenon, <2>1, <2>2
<1> QED
  BY ZenonT(40), <1>1, <1>2, <1>3, <1>4 DEF OnlyMoves, HCRequests

\* How such a step changes the numbers of requests inside and in flight.
LEMMA HCNumbers ==
    ASSUME HC!HandlerChainAssumption, NEW u \in Clients, OnlyMoves(Clients, u, hc.pc, hc'.pc), NEW L
    PROVE  /\ Number(Clients, hc.pc, L) \in Nat /\ Number(Clients, hc'.pc, L) \in Nat
           /\ (hc.pc[u] \in L <=> hc'.pc[u] \in L) => Number(Clients, hc'.pc, L) = Number(Clients, hc.pc, L)
           /\ hc.pc[u] \notin L /\ hc'.pc[u] \in L => Number(Clients, hc'.pc, L) = Number(Clients, hc.pc, L) + 1
           /\ hc.pc[u] \in L /\ hc'.pc[u] \notin L => Number(Clients, hc'.pc, L) = Number(Clients, hc.pc, L) - 1
  BY NumberMoves, HCSameCount DEF HC!HandlerChainAssumption

\* A step that takes u from place p to place q and the counters along keeps them right.
LEMMA HCKeepsCounts ==
    ASSUME HC!HandlerChainAssumption, HCCounts, NEW u \in Clients, OnlyMoves(Clients, u, hc.pc, hc'.pc),
           \/ /\ hc'.conns = hc.conns /\ (hc.pc[u] \in HCInside <=> hc'.pc[u] \in HCInside)
           \/ /\ hc'.conns = hc.conns + 1 /\ hc.conns < MaxConns
              /\ hc.pc[u] \notin HCInside /\ hc'.pc[u] \in HCInside
           \/ hc'.conns = hc.conns - 1 /\ hc.pc[u] \in HCInside /\ hc'.pc[u] \notin HCInside,
           \/ hc'.flying = hc.flying /\ (hc.pc[u] \in {"serve", "land"} <=> hc'.pc[u] \in {"serve", "land"})
           \/ /\ hc'.flying = hc.flying + 1
              /\ hc.pc[u] \notin {"serve", "land"} /\ hc'.pc[u] \in {"serve", "land"}
           \/ /\ hc'.flying = hc.flying - 1
              /\ hc.pc[u] \in {"serve", "land"} /\ hc'.pc[u] \notin {"serve", "land"}
    PROVE  HCCounts'
<1> DEFINE in == Number(Clients, hc.pc, HCInside)      inAfter == Number(Clients, hc'.pc, HCInside)
           fly == Number(Clients, hc.pc, {"serve", "land"})
           flyAfter == Number(Clients, hc'.pc, {"serve", "land"})
<1>1. /\ in \in Nat /\ inAfter \in Nat
      /\ (hc.pc[u] \in HCInside <=> hc'.pc[u] \in HCInside) => inAfter = in
      /\ hc.pc[u] \notin HCInside /\ hc'.pc[u] \in HCInside => inAfter = in + 1
      /\ hc.pc[u] \in HCInside /\ hc'.pc[u] \notin HCInside => inAfter = in - 1
  BY Zenon, HCNumbers
<1>2. /\ fly \in Nat /\ flyAfter \in Nat
      /\ (hc.pc[u] \in {"serve", "land"} <=> hc'.pc[u] \in {"serve", "land"}) => flyAfter = fly
      /\ hc.pc[u] \notin {"serve", "land"} /\ hc'.pc[u] \in {"serve", "land"} => flyAfter = fly + 1
      /\ hc.pc[u] \in {"serve", "land"} /\ hc'.pc[u] \notin {"serve", "land"} => flyAfter = fly - 1
  BY Zenon, HCNumbers
<1>3. hc.conns = in /\ hc.conns <= MaxConns /\ hc.flying = fly /\ MaxConns \in Nat
  BY Zenon DEF HCCounts, HC!HandlerChainAssumption
<1>4. HCCounts' <=> hc'.conns = inAfter /\ hc'.conns <= MaxConns /\ hc'.flying = flyAfter
  BY Zenon DEF HCCounts
<1> HIDE DEF in, inAfter, fly, flyAfter
<1>5. hc'.conns = inAfter
  BY Zenon, <1>1, <1>3
<1>6. hc'.conns <= MaxConns
  BY <1>1, <1>3
<1>7. hc'.flying = flyAfter
  BY Zenon, <1>2, <1>3
<1> QED
  BY ZenonT(40), <1>4, <1>5, <1>6, <1>7

\* The step of each handler.
LEMMA HCStep ==
    ASSUME HC!HandlerChainAssumption, HCInv, HC!Next
    PROVE  HCInv'
<1> PICK u \in Clients :
        \/ \E timed \in BOOLEAN : HC!Arrive(u, timed)
        \/ \E code \in {200, 404, 500, 503} : HC!Write(u, code)
        \/ HC!Return(u)
        \/ HC!Allow(u) \/ HC!Shed(u) \/ HC!Answer(u) \/ HC!TimesOut(u) \/ HC!Land(u)
        \/ HC!Judge(u) \/ HC!Leave(u)
  BY DEF HC!Next
<1> DEFINE p == hc.pc[u]    t == hc.timed[u]    h == hc.handler[u]    w == hc.wrote[u]
           c == hc.code[u]  v == hc.verdict[u]  l == hc.landed[u]
<1>1. HCType /\ HCCounts /\ HCRequests /\ HCFits(p, t, h, w, c, v, l)
  BY Zenon DEF HCInv, HCRequests, HCRequest
<1>2. /\ p \in HCInside \cup {"idle", "done"} /\ t \in BOOLEAN /\ h \in {"none", "running", "ended"}
      /\ w \in {0, 200, 404, 500, 503} /\ c \in {0, 200, 404, 499, 500, 503}
      /\ v \in {"none", "Accept", "Reject"} /\ l \in {"none", "Pass", "Fail"}
  BY <1>1 DEF HCType
<1> HIDE DEF p, t, h, w, c, v, l
<1>3. ASSUME NEW code \in {200, 404, 500, 503}, HC!Write(u, code) PROVE HCInv'
  <2>1. HCMoves(u, p, t, h, code, c, v, l) /\ hc'.conns = hc.conns /\ hc'.flying = hc.flying
    BY <1>1, <1>3 DEF p, t, h, w, c, v, l, HCType, HCMoves, HC!Write
  <2>2. HCFits(p, t, h, code, c, v, l)
    BY SMTT(40), <1>1, <1>2, <1>3 DEF w, h, HCFits, HC!Write
  <2>3. HCType' /\ HCRequests' /\ OnlyMoves(Clients, u, hc.pc, hc'.pc) /\ hc'.pc[u] = p
    BY SMTT(40), <1>1, <2>1, <2>2, HCMovesOne
  <2>4. HCCounts'
    <3>1. hc'.pc[u] = hc.pc[u] /\ hc'.conns = hc.conns /\ hc'.flying = hc.flying
      BY ZenonT(40), <2>1, <2>3 DEF p
    <3> QED
      BY ZenonT(40), <1>1, <2>3, <3>1, HCKeepsCounts
  <2> QED
    BY <2>3, <2>4 DEF HCInv
<1>4. ASSUME HC!Return(u) PROVE HCInv'
  <2>1. PICK sent \in {0, 200, 404, 500, 503} :
            /\ HCMoves(u, p, t, "ended", sent, c, v, l) /\ hc'.conns = hc.conns /\ hc'.flying = hc.flying
            /\ sent = w \/ w = 0
    <3>1. CASE hc' = [hc EXCEPT !.handler[u] = "ended"]
      BY SMTT(40), <1>1, <1>2, <3>1 DEF p, t, h, w, c, v, l, HCType, HCMoves
    <3>2. CASE hc' = [hc EXCEPT !.handler[u] = "ended", !.wrote[u] = IF @ = 0 THEN 500 ELSE @]
      <4>1. HCMoves(u, p, t, "ended", IF w = 0 THEN 500 ELSE w, c, v, l) /\ hc'.conns = hc.conns /\ hc'.flying = hc.flying
        BY SMTT(40), <1>1, <1>2, <3>2 DEF p, t, h, w, c, v, l, HCType, HCMoves
      <4> QED
        BY <1>2, <4>1
    <3> QED
      BY SMTT(40), <1>4, <3>1, <3>2 DEF HC!Return
  <2>2. HCFits(p, t, "ended", sent, c, v, l)
    BY SMTT(40), <1>1, <1>2, <1>4, <2>1 DEF w, h, HCFits, HC!Return
  <2>3. HCType' /\ HCRequests' /\ OnlyMoves(Clients, u, hc.pc, hc'.pc) /\ hc'.pc[u] = p
    BY SMTT(40), <1>1, <2>1, <2>2, HCMovesOne
  <2>4. HCCounts'
    <3>1. hc'.pc[u] = hc.pc[u] /\ hc'.conns = hc.conns /\ hc'.flying = hc.flying
      BY ZenonT(40), <2>1, <2>3 DEF p
    <3> QED
      BY ZenonT(40), <1>1, <2>3, <3>1, HCKeepsCounts
  <2> QED
    BY <2>3, <2>4 DEF HCInv
<1>5. ASSUME NEW timed \in BOOLEAN, HC!Arrive(u, timed) PROVE HCInv'
  <2>1. CASE hc.conns < MaxConns
    <3>1. /\ HCMoves(u, "breaker", timed, h, w, c, v, l)
          /\ hc'.conns = hc.conns + 1 /\ hc'.flying = hc.flying /\ p = "idle"
      <4>1. hc' = [hc EXCEPT !.pc[u] = "breaker", !.timed[u] = timed, !.conns = @ + 1] /\ p = "idle"
        BY ZenonT(40), <1>5, <2>1 DEF p, HC!Arrive, HC!At
      <4> QED
        BY SMTT(40), <1>1, <4>1 DEF h, w, c, v, l, HCType, HCMoves
    <3>2. HCFits("breaker", timed, h, w, c, v, l)
      BY SMTT(40), <1>1, <1>2, <3>1 DEF HCFits, HCInside
    <3>3. "breaker" \in HCInside /\ "idle" \notin HCInside
      BY Zenon DEF HCInside
    <3>4. HCType' /\ HCRequests' /\ OnlyMoves(Clients, u, hc.pc, hc'.pc) /\ hc'.pc[u] = "breaker"
      BY ZenonT(40), <1>1, <3>1, <3>2, HCMovesOne
    <3>5. HCCounts'
      BY ZenonT(40), <1>1, <2>1, <3>1, <3>3, <3>4, HCKeepsCounts DEF p
    <3> QED
      BY Zenon, <3>4, <3>5 DEF HCInv
  <2>2. CASE ~(hc.conns < MaxConns)
    <3>1. /\ HCMoves(u, "done", t, h, w, 503, v, l)
          /\ hc'.conns = hc.conns /\ hc'.flying = hc.flying /\ p = "idle"
      <4>1. hc' = [hc EXCEPT !.pc[u] = "done", !.code[u] = 503] /\ p = "idle"
        BY ZenonT(40), <1>5, <2>2 DEF p, HC!Arrive, HC!At
      <4> QED
        BY <1>1, <4>1 DEF t, h, w, v, l, HCType, HCMoves
    <3>2. HCFits("done", t, h, w, 503, v, l)
      BY SMTT(40), <1>1, <1>2, <3>1 DEF HCFits, HCInside
    <3>3. "done" \notin HCInside /\ "idle" \notin HCInside
      BY ZenonT(40) DEF HCInside
    <3>4. HCType' /\ HCRequests' /\ OnlyMoves(Clients, u, hc.pc, hc'.pc) /\ hc'.pc[u] = "done"
      BY SMTT(40), <1>1, <3>1, <3>2, HCMovesOne
    <3>5. HCCounts'
      BY ZenonT(40), <1>1, <3>1, <3>3, <3>4, HCKeepsCounts DEF p
    <3> QED
      BY Zenon, <3>4, <3>5 DEF HCInv
  <2> QED
    BY Zenon, <2>1, <2>2
<1>6. ASSUME HC!Allow(u) PROVE HCInv'
  <2>1. CASE hc' = [hc EXCEPT !.pc[u] = "shed"]
    <3>1. /\ HCMoves(u, "shed", t, h, w, c, v, l)
          /\ hc'.conns = hc.conns /\ hc'.flying = hc.flying /\ p = "breaker"
      BY SMTT(40), <1>1, <1>2, <1>6, <2>1 DEF p, t, h, w, c, v, l, HCType, HCMoves, HC!Allow, HC!At
    <3>2. HCFits("shed", t, h, w, c, v, l)
      BY <1>1, <1>2, <3>1 DEF HCFits, HCInside
    <3>3. "shed" \in HCInside /\ "breaker" \in HCInside
      BY Zenon DEF HCInside
    <3>4. HCType' /\ HCRequests' /\ OnlyMoves(Clients, u, hc.pc, hc'.pc) /\ hc'.pc[u] = "shed"
      BY ZenonT(40), <1>1, <3>1, <3>2, HCMovesOne
    <3>5. HCCounts'
      BY ZenonT(40), <1>1, <3>1, <3>3, <3>4, HCKeepsCounts DEF p
    <3> QED
      BY Zenon, <3>4, <3>5 DEF HCInv
  <2>2. CASE hc' = [hc EXCEPT !.pc[u] = "leave", !.code[u] = 503]
    <3>1. /\ HCMoves(u, "leave", t, h, w, 503, v, l)
          /\ hc'.conns = hc.conns /\ hc'.flying = hc.flying /\ p = "breaker"
      BY SMTT(40), <1>1, <1>2, <1>6, <2>2 DEF p, t, h, w, c, v, l, HCType, HCMoves, HC!Allow, HC!At
    <3>2. HCFits("leave", t, h, w, 503, v, l)
      BY SMTT(40), <1>1, <1>2, <3>1 DEF HCFits, HCInside
    <3>3. "leave" \in HCInside /\ "breaker" \in HCInside
      BY ZenonT(40) DEF HCInside
    <3>4. HCType' /\ HCRequests' /\ OnlyMoves(Clients, u, hc.pc, hc'.pc) /\ hc'.pc[u] = "leave"
      BY SMTT(40), <1>1, <3>1, <3>2, HCMovesOne
    <3>5. HCCounts'
      BY ZenonT(40), <1>1, <3>1, <3>3, <3>4, HCKeepsCounts DEF p
    <3> QED
      BY Zenon, <3>4, <3>5 DEF HCInv
  <2> QED
    BY Zenon, <1>6, <2>1, <2>2 DEF HC!Allow
<1>7. ASSUME HC!Shed(u) PROVE HCInv'
  <2>1. CASE hc' = [hc EXCEPT !.pc[u] = "serve", !.flying = @ + 1, !.handler[u] = "running"]
    <3>1. /\ HCMoves(u, "serve", t, "running", w, c, v, l)
          /\ hc'.conns = hc.conns /\ hc'.flying = hc.flying + 1 /\ p = "shed"
      BY SMTT(40), <1>1, <1>2, <1>7, <2>1 DEF p, t, h, w, c, v, l, HCType, HCMoves, HC!Shed, HC!At
    <3>2. HCFits("serve", t, "running", w, c, v, l)
      BY SMTT(40), <1>1, <1>2, <3>1 DEF HCFits, HCInside
    <3>3. "serve" \in HCInside /\ "shed" \in HCInside
      BY Zenon DEF HCInside
    <3>4. HCType' /\ HCRequests' /\ OnlyMoves(Clients, u, hc.pc, hc'.pc) /\ hc'.pc[u] = "serve"
      BY ZenonT(40), <1>1, <3>1, <3>2, HCMovesOne
    <3>5. HCCounts'
      BY ZenonT(40), <1>1, <3>1, <3>3, <3>4, HCKeepsCounts DEF p
    <3> QED
      BY Zenon, <3>4, <3>5 DEF HCInv
  <2>2. CASE hc' = [hc EXCEPT !.pc[u] = "judge", !.code[u] = 503]
    <3>1. /\ HCMoves(u, "judge", t, h, w, 503, v, l)
          /\ hc'.conns = hc.conns /\ hc'.flying = hc.flying /\ p = "shed"
      BY SMTT(40), <1>1, <1>2, <1>7, <2>2 DEF p, t, h, w, c, v, l, HCType, HCMoves, HC!Shed, HC!At
    <3>2. HCFits("judge", t, h, w, 503, v, l)
      BY SMTT(40), <1>1, <1>2, <3>1 DEF HCFits, HCInside
    <3>3. "judge" \in HCInside /\ "shed" \in HCInside
      BY ZenonT(40) DEF HCInside
    <3>4. HCType' /\ HCRequests' /\ OnlyMoves(Clients, u, hc.pc, hc'.pc) /\ hc'.pc[u] = "judge"
      BY SMTT(40), <1>1, <3>1, <3>2, HCMovesOne
    <3>5. HCCounts'
      BY ZenonT(40), <1>1, <3>1, <3>3, <3>4, HCKeepsCounts DEF p
    <3> QED
      BY Zenon, <3>4, <3>5 DEF HCInv
  <2> QED
    BY ZenonT(40), <1>7, <2>1, <2>2 DEF HC!Shed
<1>8. ASSUME HC!Answer(u) PROVE HCInv'
  <2>1. PICK sent \in {200, 404, 500, 503} :
          /\ HCMoves(u, "land", t, h, w, sent, v, l)
          /\ hc'.conns = hc.conns /\ hc'.flying = hc.flying /\ p = "serve"
          /\ h = "ended" /\ (sent = w \/ sent = 200)
    BY SMTT(40), <1>1, <1>2, <1>8 DEF p, t, h, w, c, v, l, HCType, HCMoves, HC!Answer, HC!At
  <2>2. HCFits("land", t, h, w, sent, v, l)
    BY SMTT(40), <1>1, <1>2, <2>1 DEF HCFits, HCInside
  <2>3. "land" \in HCInside /\ "serve" \in HCInside
    BY SMTT(40) DEF HCInside
  <2>4. HCType' /\ HCRequests' /\ OnlyMoves(Clients, u, hc.pc, hc'.pc) /\ hc'.pc[u] = "land"
    BY SMTT(40), <1>1, <2>1, <2>2, HCMovesOne
  <2>5. HCCounts'
    <3>1. hc.pc[u] = "serve" /\ hc'.conns = hc.conns /\ hc'.flying = hc.flying
      BY ZenonT(40), <2>1 DEF p
    <3>2. /\ hc.pc[u] \in HCInside /\ hc'.pc[u] \in HCInside
          /\ hc.pc[u] \in {"serve", "land"} /\ hc'.pc[u] \in {"serve", "land"}
      BY ZenonT(40), <2>3, <2>4, <3>1
    <3> QED
      BY ZenonT(40), <1>1, <2>4, <3>1, <3>2, HCKeepsCounts
  <2> QED
    BY SMTT(40), <2>4, <2>5 DEF HCInv
<1>9. ASSUME HC!TimesOut(u) PROVE HCInv'
  <2>1. PICK sent \in {499, 503} :
          /\ HCMoves(u, "land", t, h, w, sent, v, l)
          /\ hc'.conns = hc.conns /\ hc'.flying = hc.flying /\ p = "serve"
          /\ t
    BY SMTT(40), <1>1, <1>2, <1>9 DEF p, t, h, w, c, v, l, HCType, HCMoves, HC!TimesOut, HC!At
  <2>2. HCFits("land", t, h, w, sent, v, l)
    BY SMTT(40), <1>1, <1>2, <2>1 DEF HCFits, HCInside
  <2>3. "land" \in HCInside /\ "serve" \in HCInside
    BY SMTT(40) DEF HCInside
  <2>4. HCType' /\ HCRequests' /\ OnlyMoves(Clients, u, hc.pc, hc'.pc) /\ hc'.pc[u] = "land"
    <3>1. HCMoves(u, "land", t, h, w, sent, v, l)
      BY Zenon, <2>1
    <3> QED
      BY SMTT(40), <1>1, <2>2, <3>1, HCMovesOne
  <2>5. HCCounts'
    <3>1. hc.pc[u] = "serve" /\ hc'.conns = hc.conns /\ hc'.flying = hc.flying
      BY ZenonT(40), <2>1 DEF p
    <3>2. /\ hc.pc[u] \in HCInside /\ hc'.pc[u] \in HCInside
          /\ hc.pc[u] \in {"serve", "land"} /\ hc'.pc[u] \in {"serve", "land"}
      BY ZenonT(40), <2>3, <2>4, <3>1
    <3> QED
      BY ZenonT(40), <1>1, <2>4, <3>1, <3>2, HCKeepsCounts
  <2> QED
    BY <2>4, <2>5 DEF HCInv
<1>10. ASSUME HC!Land(u) PROVE HCInv'
  <2>1. PICK landed \in {"Pass", "Fail"} :
          /\ HCMoves(u, "judge", t, h, w, c, v, landed)
          /\ hc'.conns = hc.conns /\ hc'.flying = hc.flying - 1 /\ p = "land"
          /\ landed = "Fail" <=> c = 503
    BY SMTT(40), <1>1, <1>2, <1>10 DEF p, t, h, w, c, v, l, HCType, HCMoves, HC!Land, HC!At
  <2>2. HCFits("judge", t, h, w, c, v, landed)
    BY SMTT(40), <1>1, <1>2, <2>1 DEF HCFits, HCInside
  <2>3. "judge" \in HCInside /\ "land" \in HCInside
    BY ZenonT(40) DEF HCInside
  <2>4. HCType' /\ HCRequests' /\ OnlyMoves(Clients, u, hc.pc, hc'.pc) /\ hc'.pc[u] = "judge"
    BY SMTT(40), <1>1, <2>1, <2>2, HCMovesOne
  <2>5. HCCounts'
    <3>1. hc.pc[u] = "land" /\ hc'.conns = hc.conns /\ hc'.flying = hc.flying - 1
      BY Zenon, <2>1 DEF p
    <3>2. /\ hc.pc[u] \in HCInside /\ hc'.pc[u] \in HCInside
          /\ hc.pc[u] \in {"serve", "land"} /\ hc'.pc[u] \notin {"serve", "land"}
      BY ZenonT(40), <2>3, <2>4, <3>1
    <3> QED
      BY ZenonT(40), <1>1, <2>4, <3>1, <3>2, HCKeepsCounts
  <2> QED
    BY Zenon, <2>4, <2>5 DEF HCInv
<1>11. ASSUME HC!Judge(u) PROVE HCInv'
  <2>1. PICK verdict \in {"Accept", "Reject"} :
          /\ HCMoves(u, "leave", t, h, w, c, verdict, l)
          /\ hc'.conns = hc.conns /\ hc'.flying = hc.flying /\ p = "judge"
          /\ verdict = "Accept" <=> c < 500
    BY SMTT(40), <1>1, <1>2, <1>11 DEF p, t, h, w, c, v, l, HCType, HCMoves, HC!Judge, HC!At
  <2>2. HCFits("leave", t, h, w, c, verdict, l)
    BY SMTT(40), <1>1, <1>2, <2>1 DEF HCFits, HCInside
  <2>3. "leave" \in HCInside /\ "judge" \in HCInside
    BY Zenon DEF HCInside
  <2>4. HCType' /\ HCRequests' /\ OnlyMoves(Clients, u, hc.pc, hc'.pc) /\ hc'.pc[u] = "leave"
    BY ZenonT(40), <1>1, <2>1, <2>2, HCMovesOne
  <2>5. HCCounts'
    BY ZenonT(40), <1>1, <2>1, <2>3, <2>4, HCKeepsCounts DEF p
  <2> QED
    BY Zenon, <2>4, <2>5 DEF HCInv
<1>12. ASSUME HC!Leave(u) PROVE HCInv'
  <2>1. /\ HCMoves(u, "done", t, h, w, c, v, l)
        /\ hc'.conns = hc.conns - 1 /\ hc'.flying = hc.flying /\ p = "leave"
    BY SMTT(40), <1>1, <1>2, <1>12 DEF p, t, h, w, c, v, l, HCType, HCMoves, HC!Leave, HC!At
  <2>2. HCFits("done", t, h, w, c, v, l)
    BY SMTT(40), <1>1, <1>2, <2>1 DEF HCFits, HCInside
  <2>3. "done" \notin HCInside /\ "leave" \in HCInside
    BY Zenon DEF HCInside
  <2>4. HCType' /\ HCRequests' /\ OnlyMoves(Clients, u, hc.pc, hc'.pc) /\ hc'.pc[u] = "done"
    BY ZenonT(40), <1>1, <2>1, <2>2, HCMovesOne
  <2>5. HCCounts'
    BY ZenonT(40), <1>1, <2>1, <2>3, <2>4, HCKeepsCounts DEF p
  <2> QED
    BY Zenon, <2>4, <2>5 DEF HCInv
<1> QED
  BY SMTT(40), <1>3, <1>4, <1>5, <1>6, <1>7, <1>8, <1>9, <1>10, <1>11, <1>12

\* What the handlers of a route take they give back, what breaker and shedder learn fits what the
\* client was answered, and only handlers that timed out run above MaxConns.
RequestsAreAccounted == HC!RequestsAreAccounted

\* For any number of requests, any timeouts and any MaxConns: what the handlers of a route take they
\* give back, what breaker and shedder learn fits what the client was answered, and only handlers that
\* timed out run above MaxConns.
THEOREM ChainAccountsForRequests ==
    ASSUME HC!HandlerChainAssumption
    PROVE  HC!Spec => []RequestsAreAccounted
<1>1. HCInv /\ [HC!Next]_hc => HCInv'
  <2>1. CASE HC!Next
    BY ZenonT(40), <2>1, HCStep
  <2>2. CASE UNCHANGED hc
    BY <2>2 DEF HCInv, HCType, HCCounts, HCRequests, HCRequest, Number
  <2> QED
    BY Zenon, <2>1, <2>2
<1>2. HC!Init => HCInv
  <2> SUFFICES ASSUME HC!Init PROVE HCInv
    OBVIOUS
  <2>1. HCType
    BY DEF HC!Init, HCType
  <2>2. hc.conns = 0 /\ hc.flying = 0 /\ \A r \in Clients : hc.pc[r] = "idle" /\ HCRequest(r)
    BY DEF HC!Init, HCRequest, HCFits
  <2>3. ASSUME NEW L, "idle" \notin L PROVE Number(Clients, hc.pc, L) = 0
    <3>1. {r \in Clients : hc.pc[r] \in L} = {}
      BY Zenon, <2>2, <2>3
    <3> QED
      BY Zenon, <3>1, FS_EmptySet DEF Number
  <2>4. HCCounts
    <3>1. Number(Clients, hc.pc, HCInside) = 0
      BY Zenon, <2>3 DEF HCInside
    <3>2. Number(Clients, hc.pc, {"serve", "land"}) = 0
      BY Zenon, <2>3
    <3> QED
      BY <2>2, <3>1, <3>2 DEF HCCounts, HC!HandlerChainAssumption
  <2> QED
    BY Zenon, <2>1, <2>2, <2>4 DEF HCInv, HCRequests
<1>3. HCInv => HC!RequestsAreAccounted
  <2> SUFFICES ASSUME HCInv PROVE HC!RequestsAreAccounted
    OBVIOUS
  <2> DEFINE inside == {r \in Clients : hc.pc[r] \in HCInside}
             serving == {r \in {q \in Clients : hc.handler[q] = "running"} : hc.pc[r] = "serve"}
  <2>1. HC!Inside = inside
    BY DEF HCInv, HCType, HC!Inside, HCInside
  <2>2. hc.conns = Cardinality(inside) /\ hc.conns <= MaxConns
        /\ hc.flying = Cardinality({r \in Clients : hc.pc[r] \in {"serve", "land"}})
    BY Zenon DEF HCInv, HCCounts, Number
  <2>3. HC!ChainGivesBack
    BY ZenonT(40), <2>1, <2>2, HCSameCount DEF HC!ChainGivesBack
  <2>4. HC!VerdictsFit
    BY DEF HCInv, HCType, HCRequests, HCRequest, HCFits, HC!VerdictsFit, HC!At
  <2>5. Cardinality(serving) <= MaxConns
    <3>1. serving \subseteq inside /\ inside \subseteq Clients
      BY Zenon DEF HCInside
    <3>2. IsFiniteSet(Clients) /\ MaxConns \in Nat
      BY Zenon, HCSameCount DEF HC!HandlerChainAssumption
    <3>3. IsFiniteSet(inside)
      BY Zenon, <3>1, <3>2, FS_Subset
    <3>4. Cardinality(serving) \in Nat /\ Cardinality(inside) \in Nat /\ Cardinality(serving) <= Cardinality(inside)
      BY ZenonT(40), <3>1, <3>3, FS_Subset, FS_CardinalityType
    <3> QED
      BY <2>2, <3>2, <3>4
  <2>6. \A r \in {q \in Clients : hc.handler[q] = "running"} :
            hc.pc[r] # "serve" => hc.timed[r] /\ hc.code[r] \in {499, 503}
    BY DEF HCInv, HCRequests, HCRequest, HCFits
  <2>7. HC!OnlyTimeoutsExceedMaxConns
    BY <2>5, <2>6, HCSameCount DEF HC!OnlyTimeoutsExceedMaxConns, HC!At
  <2> QED
    BY Zenon, <2>3, <2>4, <2>7 DEF HC!RequestsAreAccounted
<1> QED
  BY <1>1, <1>2, <1>3, PTL DEF RequestsAreAccounted, HC!Spec
-----------------------------------------------------------------------------
\* AdaptiveShedder.  The counter is the goroutines that fly, and the property about the cool-off is
\* inductive: who takes the flag back without the ghost cooled has read the time of the last drop.

AS == INSTANCE AdaptiveShedder WITH Callers <- Three, MaxTime <- ShedderTime

\* Cardinality and IsFiniteSet are those of the part.
LEMMA ASSameCount ==
    ASSUME NEW S
    PROVE  AS!Cardinality(S) = Cardinality(S) /\ AS!IsFiniteSet(S) = IsFiniteSet(S)
  BY DEF Cardinality, AS!Cardinality, IsFiniteSet, AS!IsFiniteSet

ASPlaces == {"idle", "flag", "time", "hot", "thru", "drop", "set", "fly", "flying"}

ASType ==
    /\ DOMAIN sh = {"now", "busy", "flying", "dropTime", "recently", "pc", "read", "requests",
                    "since", "cooled"}
    /\ sh.now \in Nat /\ sh.flying \in Nat /\ sh.dropTime \in Nat /\ sh.since \in Nat
    /\ sh.busy \in BOOLEAN /\ sh.recently \in BOOLEAN /\ sh.cooled \in BOOLEAN
    /\ sh.requests \in Nat /\ sh.read \in [Three -> Nat]
    /\ sh.pc \in [Three -> ASPlaces]

ASInv == ASType /\ sh.flying = Number(Three, sh.pc, {"flying"}) /\ AS!OnlyRaceCoolsDown

\* A step of one goroutine that leaves flag and drops alone and neither starts nor ends a flight.
LEMMA ASMoves ==
    ASSUME IsFiniteSet(Three), ASInv, NEW c \in Three, OnlyMoves(Three, c, sh.pc, sh'.pc),
           sh.pc[c] # "flying", sh'.pc[c] # "flying", sh'.flying = sh.flying,
           ASType', AS!OnlyRaceCoolsDown'
    PROVE  ASInv'
<1>1. sh.pc[c] \notin {"flying"} /\ sh'.pc[c] \notin {"flying"}
  OBVIOUS
<1>2. Number(Three, sh'.pc, {"flying"}) = Number(Three, sh.pc, {"flying"})
  BY <1>1, NumberMoves
<1> QED
  BY Zenon, <1>2 DEF ASInv

\* What a move of c to l is.
LEMMA ASStep ==
    ASSUME ASInv, NEW c \in Three, NEW l \in ASPlaces, sh'.pc = [sh.pc EXCEPT ![c] = l]
    PROVE  /\ OnlyMoves(Three, c, sh.pc, sh'.pc) /\ sh'.pc[c] = l
           /\ sh'.pc \in [Three -> ASPlaces]
  BY Zenon DEF ASInv, ASType, OnlyMoves

\* A flight begins or ends.
LEMMA ASFlies ==
    ASSUME IsFiniteSet(Three), ASInv, NEW c \in Three, OnlyMoves(Three, c, sh.pc, sh'.pc),
           \/ sh.pc[c] # "flying" /\ sh'.pc[c] = "flying" /\ sh'.flying = sh.flying + 1
           \/ sh.pc[c] = "flying" /\ sh'.pc[c] # "flying" /\ sh'.flying = sh.flying - 1
    PROVE  sh'.flying \in Nat /\ sh'.flying = Number(Three, sh'.pc, {"flying"})
<1>1. sh.flying = Number(Three, sh.pc, {"flying"})
  BY Zenon DEF ASInv
<1>2. \/ /\ sh.pc[c] \notin {"flying"} /\ sh'.pc[c] \in {"flying"}
         /\ sh'.flying = sh.flying + 1
      \/ /\ sh.pc[c] \in {"flying"} /\ sh'.pc[c] \notin {"flying"}
         /\ sh'.flying = sh.flying - 1
  OBVIOUS
<1> QED
  BY SMTT(40), <1>1, <1>2, NumberMoves

\* Fly and Land keep the invariant.
LEMMA ASCounts ==
    ASSUME IsFiniteSet(Three), ASInv, NEW c \in Three, AS!Fly(c) \/ AS!Land(c)
    PROVE  ASInv'
<1>1. /\ DOMAIN sh' = DOMAIN sh /\ sh'.now = sh.now /\ sh'.busy = sh.busy
      /\ sh'.dropTime = sh.dropTime /\ sh'.requests = sh.requests /\ sh'.read = sh.read
      /\ sh'.recently = sh.recently /\ sh'.since = sh.since /\ sh'.cooled = sh.cooled
  BY Zenon DEF AS!Fly, AS!Land, ASInv, ASType
<1>2. AS!OnlyRaceCoolsDown'
  BY Zenon, <1>1 DEF ASInv, AS!OnlyRaceCoolsDown
<1>3. PICK l \in {"flying", "idle"} :
         /\ sh'.pc = [sh.pc EXCEPT ![c] = l]
         /\ l = "flying" => sh.pc[c] = "fly" /\ sh'.flying = sh.flying + 1
         /\ l = "idle" => sh.pc[c] = "flying" /\ sh'.flying = sh.flying - 1
  <2>1. CASE AS!Fly(c)
    BY Zenon, <2>1 DEF AS!Fly, AS!At, ASInv, ASType
  <2>2. CASE AS!Land(c)
    BY Zenon, <2>2 DEF AS!Land, AS!At, ASInv, ASType
  <2> QED
    BY Zenon, <2>1, <2>2
<1>4. /\ OnlyMoves(Three, c, sh.pc, sh'.pc) /\ sh'.pc[c] = l
      /\ sh'.pc \in [Three -> ASPlaces]
  BY Zenon, <1>3, ASStep DEF ASPlaces
<1>5. sh'.flying \in Nat /\ sh'.flying = Number(Three, sh'.pc, {"flying"})
  BY ZenonT(40), <1>3, <1>4, ASFlies
<1> QED
  BY ZenonT(40), <1>1, <1>2, <1>4, <1>5 DEF ASInv, ASType

\* The reads of Allow, of stillHot and of highThru, and the two writes of a drop.
LEMMA ASAllows ==
    ASSUME IsFiniteSet(Three), ASInv, NEW c \in Three,
           \/ AS!Allow(c) \/ AS!LoadFlag(c) \/ AS!LoadTime(c) \/ AS!StillHot(c) \/ AS!HighThru(c)
           \/ AS!SetTime(c) \/ AS!SetFlag(c)
    PROVE  ASInv'
<1> DEFINE Same == /\ DOMAIN sh' = DOMAIN sh /\ sh'.now = sh.now /\ sh'.busy = sh.busy
                   /\ sh'.flying = sh.flying /\ sh.pc[c] # "flying"
           Drops == /\ sh'.dropTime = sh.dropTime /\ sh'.recently = sh.recently
                    /\ sh'.since = sh.since /\ sh'.cooled = sh.cooled
           Goes(l) == l # "flying" /\ sh'.pc = [sh.pc EXCEPT ![c] = l]
<1>1. ASSUME NEW l \in ASPlaces, Goes(l), Same, sh'.dropTime \in Nat, sh'.requests \in Nat,
             sh'.read \in [Three -> Nat], sh'.recently \in BOOLEAN, sh'.since \in Nat,
             sh'.cooled \in BOOLEAN, AS!OnlyRaceCoolsDown'
      PROVE  ASInv'
  <2>1. /\ OnlyMoves(Three, c, sh.pc, sh'.pc) /\ sh'.pc[c] = l
        /\ sh'.pc \in [Three -> ASPlaces]
    BY Zenon, <1>1, ASStep
  <2>2. ASType'
    BY Zenon, <1>1, <2>1 DEF ASInv, ASType
  <2> QED
    BY ZenonT(40), <1>1, <2>1, <2>2, ASMoves
<1> USE DEF AS!At
<1>2. Same /\ Drops => AS!OnlyRaceCoolsDown'
  BY Zenon DEF ASInv, AS!OnlyRaceCoolsDown
<1>3. CASE AS!Allow(c)
  <2>1. /\ Same /\ Drops /\ sh'.read = sh.read /\ sh'.requests = sh.requests + 1
        /\ Goes("thru") \/ Goes("flag")
    BY Zenon, <1>3 DEF AS!Allow, ASInv, ASType
  <2>2. sh.requests \in Nat
    BY Zenon DEF ASInv, ASType
  <2>3. sh'.requests \in Nat
    BY SMTT(40), <2>1, <2>2
  <2> HIDE DEF Goes
  <2> QED
    BY ZenonT(40), <1>1, <1>2, <2>1, <2>3 DEF ASInv, ASType, ASPlaces
<1>4. CASE AS!LoadFlag(c) \/ AS!HighThru(c)
  <2>1. /\ Same /\ Drops /\ sh'.read = sh.read /\ sh'.requests = sh.requests
        /\ Goes("time") \/ Goes("fly") \/ Goes("drop")
    <3>1. CASE AS!LoadFlag(c)
      BY Zenon, <3>1 DEF AS!LoadFlag, ASInv, ASType
    <3>2. CASE AS!HighThru(c)
      BY <3>2 DEF AS!HighThru, ASInv, ASType
    <3> QED
      BY ZenonT(40), <1>4, <3>1, <3>2
  <2> HIDE DEF Goes
  <2> QED
    BY ZenonT(40), <1>1, <1>2, <2>1 DEF ASInv, ASType, ASPlaces
<1>5. CASE AS!LoadTime(c)
  <2>1. /\ Same /\ Drops /\ sh'.requests = sh.requests
        /\ sh'.read = [sh.read EXCEPT ![c] = sh.dropTime]
        /\ Goes("fly") \/ Goes("hot")
    BY Zenon, <1>5 DEF AS!LoadTime, ASInv, ASType
  <2>2. sh'.read \in [Three -> Nat]
    BY <2>1 DEF ASInv, ASType
  <2> HIDE DEF Goes
  <2> QED
    BY ZenonT(40), <1>1, <1>2, <2>1, <2>2 DEF ASInv, ASType, ASPlaces
<1>6. CASE AS!StillHot(c)
  <2>1. CASE sh.now - sh.read[c] < CoolOff
    <3>1. /\ Same /\ Drops /\ sh'.read = sh.read /\ sh'.requests = sh.requests
          /\ Goes("thru")
      BY SMTT(40), <1>6, <2>1 DEF AS!StillHot, ASInv, ASType
    <3> HIDE DEF Goes
    <3> QED
      BY Zenon, <1>1, <1>2, <3>1 DEF ASInv, ASType, ASPlaces
  <2>2. CASE ~(sh.now - sh.read[c] < CoolOff)
    <3> DEFINE stale == sh.read[c] # sh.dropTime \/ sh.read[c] # sh.since
    <3>0. sh' = [sh EXCEPT !.pc[c] = "fly", !.recently = FALSE, !.cooled = @ \/ stale]
      BY Zenon, <1>6, <2>2 DEF AS!StillHot
    <3> HIDE DEF stale
    <3>1. /\ Same /\ sh'.read = sh.read /\ sh'.requests = sh.requests
          /\ Goes("fly") /\ sh'.dropTime = sh.dropTime /\ sh'.recently = FALSE
          /\ sh'.since = sh.since
          /\ sh'.cooled = (sh.cooled \/ stale)
      <4>1. sh.pc[c] # "flying"
        BY Zenon, <1>6 DEF AS!StillHot
      <4> QED
        BY Zenon, <3>0, <4>1 DEF ASInv, ASType
    <3>2. AS!OnlyRaceCoolsDown'
      BY ZenonT(40), <2>2, <3>1 DEF AS!OnlyRaceCoolsDown, stale
    <3>3. sh'.cooled \in BOOLEAN
      BY Zenon, <3>1 DEF ASInv, ASType
    <3> HIDE DEF Goes
    <3> QED
      BY ZenonT(40), <1>1, <3>1, <3>2, <3>3 DEF ASInv, ASType, ASPlaces
  <2> QED
    BY Zenon, <2>1, <2>2
<1>7. CASE AS!SetTime(c)
  <2>1. /\ Same /\ sh'.dropTime = sh.now /\ sh'.requests = sh.requests /\ sh'.read = sh.read
        /\ sh'.recently = sh.recently /\ sh'.since = sh.since /\ sh'.cooled = sh.cooled
        /\ Goes("set")
    BY Zenon, <1>7 DEF AS!SetTime, ASInv, ASType
  <2>2. AS!OnlyRaceCoolsDown'
    BY Zenon, <2>1 DEF ASInv, AS!OnlyRaceCoolsDown
  <2> HIDE DEF Goes
  <2> QED
    BY ZenonT(40), <1>1, <2>1, <2>2 DEF ASInv, ASType, ASPlaces
<1>8. CASE AS!SetFlag(c)
  <2>1. /\ Same /\ sh'.dropTime = sh.dropTime /\ sh'.requests = sh.requests
        /\ sh'.read = sh.read /\ sh'.recently = TRUE /\ sh'.since = sh.dropTime
        /\ sh'.cooled = FALSE /\ Goes("idle")
    BY Zenon, <1>8 DEF AS!SetFlag, ASInv, ASType
  <2>2. AS!OnlyRaceCoolsDown'
    BY ZenonT(40), <2>1 DEF AS!OnlyRaceCoolsDown
  <2> HIDE DEF Goes
  <2> QED
    BY ZenonT(40), <1>1, <2>1, <2>2 DEF ASInv, ASType, ASPlaces
<1> QED
  BY SMTT(40), <1>3, <1>4, <1>5, <1>6, <1>7, <1>8

\* The counter is the requests in flight, and after a drop the shedder stays hot, unless a caller
\* that read an earlier drop time takes the flag back.
SheddingFollowsLoad == AS!SheddingFollowsLoad

\* For any number of goroutines and any cool-off: the counter is the requests in flight, and a drop
\* keeps the shedder hot, but for the goroutine of stillHot that acts on an earlier drop's time.
THEOREM ShedderCountsAndCools ==
    ASSUME AS!ShedderAssumption
    PROVE  AS!Spec => []SheddingFollowsLoad
<1>1. ASInv /\ [AS!Next]_sh => ASInv'
  <2> SUFFICES ASSUME ASInv, [AS!Next]_sh PROVE ASInv'
    OBVIOUS
  <2>1. CASE UNCHANGED sh
    BY Zenon, <2>1 DEF ASInv, ASType, AS!OnlyRaceCoolsDown
  <2>2. CASE AS!Tick \/ AS!CpuChanges
    <3>1. /\ DOMAIN sh' = DOMAIN sh /\ (sh'.now = sh.now \/ sh'.now = sh.now + 1)
          /\ sh'.busy \in {sh.busy, ~sh.busy} /\ sh'.pc = sh.pc
          /\ sh'.flying = sh.flying /\ sh'.dropTime = sh.dropTime /\ sh'.requests = sh.requests
          /\ sh'.read = sh.read /\ sh'.recently = sh.recently /\ sh'.since = sh.since
          /\ sh'.cooled = sh.cooled
      <4>1. CASE AS!Tick
        BY Zenon, <4>1 DEF AS!Tick, ASInv, ASType
      <4>2. CASE AS!CpuChanges
        BY Zenon, <4>2 DEF AS!CpuChanges, ASInv, ASType
      <4> QED
        BY ZenonT(40), <2>2, <4>1, <4>2
    <3>2. sh.now \in Nat /\ sh.since \in Nat /\ CoolOff \in Nat
      BY Zenon DEF ASInv, ASType, AS!ShedderAssumption
    <3>3. /\ sh'.now \in Nat
          /\ sh'.now - sh'.since < CoolOff => sh.now - sh.since < CoolOff
      BY <3>1, <3>2
    <3>4. AS!OnlyRaceCoolsDown'
      BY ZenonT(40), <3>1, <3>3 DEF ASInv, AS!OnlyRaceCoolsDown
    <3> QED
      BY ZenonT(40), <3>1, <3>3, <3>4 DEF ASInv, ASType
  <2> QED
    BY ZenonT(40), <2>1, <2>2, ASCounts, ASAllows, ASSameCount DEF AS!Next, AS!ShedderAssumption
<1>2. AS!Init => ASInv
  <2> SUFFICES ASSUME AS!Init PROVE ASInv
    OBVIOUS
  <2>1. {c \in Three : sh.pc[c] \in {"flying"}} = {} /\ sh.flying = 0
    BY Zenon DEF AS!Init
  <2>2. sh.flying = Number(Three, sh.pc, {"flying"})
    BY Zenon, <2>1, FS_EmptySet DEF Number
  <2> QED
    BY <2>2 DEF AS!Init, ASInv, ASType, ASPlaces, AS!OnlyRaceCoolsDown
<1>3. ASInv => AS!SheddingFollowsLoad
  <2> SUFFICES ASSUME ASInv PROVE AS!FlyingIsInFlight
    BY Zenon DEF ASInv, AS!SheddingFollowsLoad
  <2>1. {c \in Three : sh.pc[c] \in {"flying"}} = {c \in Three : sh.pc[c] = "flying"}
    OBVIOUS
  <2> QED
    BY ZenonT(40), <2>1, ASSameCount DEF ASInv, Number, AS!FlyingIsInFlight, AS!At
<1> QED
  BY <1>1, <1>2, <1>3, PTL DEF SheddingFollowsLoad, AS!Spec
=============================================================================
