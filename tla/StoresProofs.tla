---------------------------- MODULE StoresProofs ----------------------------
(***************************************************************************)
(* Parts of core/stores, and proofs about each of them for every value of  *)
(* its constants: RedisLock, whose module is extended, BulkInserter,       *)
(* MongoSessions, KvStore and Cleaner.                                     *)
(***************************************************************************)
EXTENDS RedisLock, Sequences, TLAPS

CONSTANTS
    Callers,                \* of MongoSessions
    StoreKeys, StoreValues, Absent, Nodes,    \* of KvStore
    Tasks,                  \* of Cleaner
    \* the parameters of the parts, and their bounds
    MaxBulkRows, MaxInserts, MaxUpdates,
    MaxFailures, MaxDels,
    DrainWorkers, CleanWorkers, Delays, MaxDrains,
    Limit

VARIABLES bi, kv, cl, ms
-----------------------------------------------------------------------------
\* The lock of core/stores/redis/redislock.go excludes, for any number of locks and any expiry, as
\* long as no script runs after its caller gave up.

\* A caller that may rely on its lock owns the key in redis for that time.
ReliedIsOwned == \A l \in Locks : now < until[l] => key = l /\ until[l] <= expiry

\* Acquire never lets its caller rely on more than it asks for now, and asks for it from the
\* time it sends the script: the answer comes later, the key expires later still.
AskedBefore ==
    \A l \in Locks : pc[l] = "lock" => sent[l] <= now /\ until[l] <= sent[l] + px[l]

\* A script that said yes, whose caller does not know yet, has set the key.
YesIsOwned ==
    \A l \in Locks :
        pc[l] = "lock" /\ answer[l] = "yes" /\ now < sent[l] + px[l] =>
            key = l /\ sent[l] + px[l] <= expiry

\* Release ends the reliance before it sends its script.
DelIsUnrelied == \A l \in Locks : pc[l] = "del" => until[l] = 0

LockInv ==
    /\ TypeOK /\ AskedBefore /\ DelIsUnrelied
    /\ late = FALSE => ReliedIsOwned /\ YesIsOwned

\* The passing of time keeps the invariant: it only ends what a caller relies on.
LEMMA TickKeeps ==
    ASSUME RedisLockAssumption, LockInv, Tick
    PROVE  LockInv'
  BY SMTT(40) DEF LockInv, TypeOK, AskedBefore, DelIsUnrelied, ReliedIsOwned, YesIsOwned, Tick

\* Sending the script of Acquire.
LEMMA AcquireKeeps ==
    ASSUME RedisLockAssumption, LockInv, NEW l \in Locks, NEW n \in Seconds, Acquire(l, n)
    PROVE  LockInv'
<1> USE DEF RedisLockAssumption, LockInv, TypeOK, Acquire
<1>1. Expire(n) \in Nat
  BY SMTT(40) DEF Expire
<1> DEFINE u == Least(until[l], now + Expire(n))
<1>2. u \in Nat /\ u <= until[l] /\ u <= now + Expire(n)
  BY SMTT(40), <1>1 DEF Least
<1>3. until' = [until EXCEPT ![l] = u]
  BY Zenon
<1> HIDE DEF u
<1>4. TypeOK'
  BY SMTT(40), <1>1, <1>2, <1>3
<1>5. AskedBefore' /\ DelIsUnrelied'
  BY SMTT(40), <1>1, <1>2, <1>3 DEF AskedBefore, DelIsUnrelied
<1>6. (late = FALSE => ReliedIsOwned /\ YesIsOwned)'
  BY SMTT(40), <1>1, <1>2, <1>3 DEF ReliedIsOwned, YesIsOwned
<1> QED
  BY Zenon, <1>4, <1>5, <1>6

\* Sending the script of Release.
LEMMA ReleaseKeeps ==
    ASSUME RedisLockAssumption, LockInv, NEW l \in Locks, Release(l)
    PROVE  LockInv'
  BY SMTT(40) DEF RedisLockAssumption, LockInv, TypeOK, AskedBefore, DelIsUnrelied, ReliedIsOwned, YesIsOwned,
         Release

\* A script that runs for a caller that waits finds the key with another lock, or nobody else
\* relies on it.
LEMMA RunKeeps ==
    ASSUME RedisLockAssumption, LockInv, NEW l \in Locks, Run(l)
    PROVE  LockInv'
<1> USE DEF RedisLockAssumption, LockInv, TypeOK, Run
<1>1. CASE pc[l] = "lock" /\ Owner \in {l, Nil}
  <2>1. key' = l /\ expiry' = now + px[l] /\ answer' = [answer EXCEPT ![l] = "yes"]
    BY ZenonT(40), <1>1 DEF LockCommand
  <2>2. TypeOK' /\ AskedBefore' /\ DelIsUnrelied'
    BY <1>1, <2>1 DEF AskedBefore, DelIsUnrelied
  <2>3. ASSUME late = FALSE PROVE ReliedIsOwned' /\ YesIsOwned'
    BY SMTT(40), <1>1, <2>1, <2>3 DEF Owner, AskedBefore, ReliedIsOwned, YesIsOwned
  <2> QED
    BY Zenon, <2>2, <2>3
<1>2. CASE pc[l] = "del" /\ Owner = l
  <2>1. key' = Nil /\ expiry' = 0 /\ answer' = [answer EXCEPT ![l] = "yes"]
    BY Zenon, <1>2 DEF DelCommand
  <2>2. TypeOK' /\ AskedBefore' /\ DelIsUnrelied'
    BY Zenon, <1>2, <2>1 DEF AskedBefore, DelIsUnrelied
  <2>3. ASSUME late = FALSE PROVE ReliedIsOwned' /\ YesIsOwned'
    BY SMTT(40), <1>2, <2>1, <2>3 DEF Owner, DelIsUnrelied, ReliedIsOwned, YesIsOwned
  <2> QED
    BY Zenon, <2>2, <2>3
<1>3. CASE Owner # l /\ ~(pc[l] = "lock" /\ Owner = Nil)
  <2>1. UNCHANGED <<key, expiry>> /\ answer' = [answer EXCEPT ![l] = "no"]
    BY Zenon, <1>3 DEF LockCommand, DelCommand
  <2> QED
    BY Zenon, <2>1 DEF AskedBefore, DelIsUnrelied, ReliedIsOwned, YesIsOwned
<1> QED
  BY Zenon, <1>1, <1>2, <1>3

\* Acquire and Release return: what the script said is still true.
LEMMA ReturnKeeps ==
    ASSUME RedisLockAssumption, LockInv, NEW l \in Locks, Return(l)
    PROVE  LockInv'
<1> USE DEF RedisLockAssumption, LockInv, TypeOK, Return
<1>1. CASE pc[l] = "lock" /\ answer[l] = "yes"
  BY <1>1 DEF AskedBefore, DelIsUnrelied, ReliedIsOwned, YesIsOwned
<1>2. CASE ~(pc[l] = "lock" /\ answer[l] = "yes")
  BY Zenon, <1>2 DEF AskedBefore, DelIsUnrelied, ReliedIsOwned, YesIsOwned
<1> QED
  BY ZenonT(40), <1>1, <1>2

\* Or they fail, and the script may still run.
LEMMA GiveUpKeeps ==
    ASSUME RedisLockAssumption, LockInv, NEW l \in Locks, GiveUp(l)
    PROVE  LockInv'
<1> USE DEF RedisLockAssumption, LockInv, TypeOK, GiveUp
<1>1. abandoned' \subseteq [id : Locks, op : {"lock", "del"}, px : Nat]
  BY SMTT(40)
<1> QED
  BY SMTT(40), <1>1 DEF AskedBefore, DelIsUnrelied, ReliedIsOwned, YesIsOwned

\* It does: nothing is claimed from then on.
LEMMA RunLateKeeps ==
    ASSUME RedisLockAssumption, LockInv, NEW r \in abandoned, RunLate(r)
    PROVE  LockInv'
<1> USE DEF RedisLockAssumption, LockInv, TypeOK, RunLate
<1>1. r.id \in Locks /\ r.px \in Nat
  BY Zenon
<1>2. key' \in Locks \cup {Nil} /\ expiry' \in Nat
  BY SMTT(40), <1>1 DEF LockCommand, DelCommand
<1>3. TypeOK'
  BY Zenon, <1>2
<1>4. AskedBefore' /\ DelIsUnrelied'
  BY Zenon DEF AskedBefore, DelIsUnrelied
<1>5. late' # FALSE
  OBVIOUS
<1> QED
  BY Zenon, <1>3, <1>4, <1>5

\* Every action of Acquire and Release keeps the invariant.
LEMMA LockInvariant ==
    ASSUME RedisLockAssumption
    PROVE  Spec => []LockInv
<1>1. Init => LockInv
  <2> SUFFICES ASSUME Init PROVE LockInv
    OBVIOUS
  <2>1. now = 0 /\ \A l \in Locks : pc[l] = "idle" /\ until[l] = 0
    BY Zenon DEF Init
  <2>2. late \in BOOLEAN /\ abandoned \subseteq [id : Locks, op : {"lock", "del"}, px : Nat]
    BY Zenon DEF Init
  <2>3. TypeOK
    BY Zenon, <2>2 DEF Init, TypeOK
  <2> QED
    BY SMTT(40), <2>1, <2>3 DEF LockInv, AskedBefore, DelIsUnrelied, ReliedIsOwned, YesIsOwned
<1>2. LockInv /\ [Next]_vars => LockInv'
  <2> SUFFICES ASSUME LockInv, [Next]_vars PROVE LockInv'
    BY Zenon
  <2>1. CASE UNCHANGED vars
    BY Zenon, <2>1 DEF vars, LockInv, TypeOK, AskedBefore, DelIsUnrelied, ReliedIsOwned, YesIsOwned
  <2>2. CASE Next
    BY Zenon, <2>2, TickKeeps, AcquireKeeps, ReleaseKeeps, RunKeeps, ReturnKeeps, GiveUpKeeps,
       RunLateKeeps DEF Next
  <2> QED
    BY Zenon, <2>1, <2>2
<1> QED
  BY <1>1, <1>2, PTL DEF Spec

\* At most one lock of a key has a caller that may rely on it, for any number of locks, any
\* expiry and any clock, unless a script of Acquire or Release ran after its caller gave up.
THEOREM LockExcludes ==
    ASSUME RedisLockAssumption
    PROVE  Spec => []OnlyLateScriptBreaksExclusion
<1>1. LockInv => OnlyLateScriptBreaksExclusion
  BY Zenon DEF LockInv, TypeOK, ReliedIsOwned, OnlyLateScriptBreaksExclusion
<1> QED
  BY <1>1, LockInvariant, PTL

\* A script of one lock leaves the key of another alone, whenever it runs.
LEMMA ScriptsKeepOthers ==
    ASSUME RedisLockAssumption, NEW l \in Locks, NEW m \in Locks, l # m, Owner = l, NEW p,
           LockCommand(m, p) \/ DelCommand(m)
    PROVE  key' = key /\ expiry' = expiry
  BY Zenon DEF RedisLockAssumption, LockCommand, DelCommand

\* Neither Acquire nor Release of one lock takes the key from another that owns it, not even
\* with a script that runs late.
THEOREM OthersKeepTheirKey ==
    ASSUME RedisLockAssumption
    PROVE  Spec => OthersKeyIsSafe
<1> DEFINE Safe(l) ==
             Owner = l /\ now' = now =>
                \/ key' = key /\ expiry' = expiry
                \/ pc[l] # "idle" /\ answer[l] = "none" /\ answer'[l] # "none"
                \/ \E r \in abandoned : r.id = l /\ r \notin abandoned'
<1>1. TypeOK /\ [Next]_vars => [\A l \in Locks : Safe(l)]_vars
  <2> SUFFICES ASSUME TypeOK, Next, NEW l \in Locks, Owner = l, now' = now
               PROVE  Safe(l)
    BY Zenon DEF vars
  <2>1. CASE Tick
    BY Zenon, <2>1 DEF Tick, TypeOK
  <2>2. CASE \E m \in Locks : \/ \E n \in Seconds : Acquire(m, n)
                              \/ Release(m) \/ Return(m) \/ GiveUp(m)
    BY Zenon, <2>2 DEF Acquire, Release, Return, GiveUp
  <2>3. ASSUME NEW m \in Locks, Run(m) PROVE Safe(l)
    <3>1. CASE m = l
      BY Zenon, <2>3, <3>1 DEF Run, TypeOK
    <3>2. CASE m # l
      BY Zenon, <2>3, <3>2, ScriptsKeepOthers DEF Run
    <3> QED
      BY ZenonT(40), <3>1, <3>2
  <2>4. ASSUME NEW r \in abandoned, RunLate(r) PROVE Safe(l)
    <3>1. CASE r.id = l
      BY Zenon, <2>4, <3>1 DEF RunLate
    <3>2. CASE r.id # l
      <4>1. r.id \in Locks
        BY Zenon DEF TypeOK
      <4> QED
        BY Zenon, <2>4, <3>2, <4>1, ScriptsKeepOthers DEF RunLate
    <3> QED
      BY Zenon, <3>1, <3>2
  <2> QED
    BY ZenonT(40), <2>1, <2>2, <2>3, <2>4 DEF Next
<1>2. LockInv => TypeOK
  BY Zenon DEF LockInv
<1> QED
  BY <1>1, <1>2, LockInvariant, PTL DEF Spec, OthersKeyIsSafe
-----------------------------------------------------------------------------
\* BulkInserter of core/stores/sqlx, for any size of the bulks and any number of calls.

BI == INSTANCE BulkInserter

BIRecords == [n : Nat, format : BI!Statements, at : BI!Statements]

BIType ==
    /\ DOMAIN bi = {"stmt", "instmt", "values", "flight", "own", "pc", "next", "before", "inserts",
                    "updates", "done", "inserted", "raced", "missed"}
    /\ bi.stmt \in BI!Statements /\ bi.instmt \in BI!Statements /\ bi.next \in BI!Statements
    /\ bi.values \in SUBSET BIRecords /\ bi.own \in SUBSET BIRecords
    /\ bi.flight \in Seq(SUBSET BIRecords)
    /\ bi.pc \in {"idle", "flush", "flushFirst", "exec", "execFirst", "sync", "fn"}
    /\ bi.inserts \in Nat /\ bi.before \in Nat /\ bi.before <= bi.inserts

\* The numbers of the records of a batch, and of the batches in flight.
BINumbers(batch) == {r.n : r \in batch}
BIFlying == UNION {BINumbers(bi.flight[i]) : i \in 1..Len(bi.flight)}

\* Every record is inserted, or waits, or is on its way.
BIAll ==
    1..bi.inserts \subseteq bi.inserted \cup BINumbers(bi.values) \cup BINumbers(bi.own) \cup BIFlying

BIOwn == bi.pc \notin {"exec", "execFirst"} => bi.own = {}

\* Without a race a record waits only as long as the statement is the one it was inserted for, and
\* UpdateOrDelete comes ever closer to having all records before it in the table.
BISame ==
    /\ \A r \in bi.values \cup bi.own : r.at = bi.instmt
    /\ \A i \in 1..Len(bi.flight) : \A r \in bi.flight[i] : r.at = bi.instmt
    /\ \A r \in bi.done : r.with = r.at

BIBefore ==
    /\ bi.pc = "execFirst" => 1..bi.before \subseteq bi.inserted \cup BINumbers(bi.own)
    /\ bi.pc = "fn" => 1..bi.before \subseteq bi.inserted

BIInv ==
    /\ BIType /\ BIAll /\ BIOwn
    /\ ~bi.raced => BISame /\ BIBefore /\ ~bi.missed

\* A batch more in flight, and one less.
LEMMA BIAppend ==
    ASSUME NEW T, NEW f \in Seq(T), NEW b \in T
    PROVE  /\ Append(f, b) \in Seq(T) /\ Len(Append(f, b)) = Len(f) + 1 /\ Len(f) \in Nat
           /\ \A i \in 1..Len(f) : Append(f, b)[i] = f[i]
           /\ Append(f, b)[Len(f) + 1] = b
OBVIOUS

\* The batches in flight without the first one.
LEMMA BITail ==
    ASSUME NEW T, NEW f \in Seq(T), f # <<>>
    PROVE  /\ Tail(f) \in Seq(T) /\ Len(Tail(f)) = Len(f) - 1 /\ Len(f) \in Nat \ {0}
           /\ \A i \in 1..Len(Tail(f)) : Tail(f)[i] = f[i + 1]
           /\ Head(f) = f[1] /\ Head(f) \in T
OBVIOUS

\* No record is there at first.
LEMMA BIInit ==
    ASSUME BI!Init
    PROVE  BIInv
<1>1. BI!First \in BI!Statements
  BY Zenon DEF BI!First, BI!Statements
<1>2. BIType /\ BIOwn /\ BISame /\ BIBefore /\ ~bi.missed
  BY SMTT(40), <1>1 DEF BI!Init, BIType, BIOwn, BISame, BIBefore
<1>3. BIAll
  BY SMTT(40) DEF BI!Init, BIAll
<1> QED
  BY SMTT(40), <1>2, <1>3 DEF BIInv

\* The batch that Insert or TakeBatch hands to the background goroutine.
LEMMA BIHanded ==
    ASSUME BIInv, NEW batch \in SUBSET BIRecords, bi'.flight = Append(bi.flight, batch)
    PROVE  /\ bi'.flight \in Seq(SUBSET BIRecords)
           /\ BIFlying' = BIFlying \cup BINumbers(batch)
           /\ \A s : /\ \A r \in batch : r.at = s
                     /\ \A i \in 1..Len(bi.flight) : \A r \in bi.flight[i] : r.at = s
                     => \A i \in 1..Len(bi'.flight) : \A r \in bi'.flight[i] : r.at = s
<1>1. /\ bi'.flight \in Seq(SUBSET BIRecords) /\ Len(bi'.flight) = Len(bi.flight) + 1
      /\ Len(bi.flight) \in Nat
      /\ \A i \in 1..Len(bi.flight) : bi'.flight[i] = bi.flight[i]
      /\ bi'.flight[Len(bi.flight) + 1] = batch
  BY BIAppend DEF BIInv, BIType
<1>2. \A i \in 1..Len(bi'.flight) : i \in 1..Len(bi.flight) \/ i = Len(bi.flight) + 1
  BY <1>1
<1>3. 1..Len(bi.flight) \subseteq 1..Len(bi'.flight) /\ Len(bi.flight) + 1 \in 1..Len(bi'.flight)
  BY <1>1
<1>4. BIFlying' = BIFlying \cup BINumbers(batch)
  BY SMTT(40), <1>1, <1>2, <1>3 DEF BIFlying
<1> QED
  BY Zenon, <1>1, <1>2, <1>4

\* Insert adds a record to those that wait, or hands all of them on.
LEMMA BIInsert ==
    ASSUME BIInv, NEW args, BI!Insert(args)
    PROVE  BIInv'
<1> DEFINE batch == bi.values \cup {BI!Record}
<1>1. /\ bi'.inserts = bi.inserts + 1 /\ bi'.stmt = bi.stmt /\ bi'.instmt = bi.instmt
      /\ bi'.own = bi.own /\ bi'.pc = bi.pc /\ bi'.next = bi.next /\ bi'.before = bi.before
      /\ bi'.done = bi.done /\ bi'.inserted = bi.inserted /\ bi'.raced = bi.raced
      /\ bi'.missed = bi.missed /\ DOMAIN bi' = DOMAIN bi
      /\ \/ bi'.values = {} /\ bi'.flight = Append(bi.flight, batch)
         \/ bi'.values = batch /\ bi'.flight = bi.flight
  BY Zenon DEF BI!Insert, BIInv, BIType
<1>2. BI!Record \in BIRecords /\ BI!Record.n = bi.inserts + 1 /\ BI!Record.at = bi.instmt
  BY DEF BI!Record, BIRecords, BIInv, BIType
<1>3. batch \in SUBSET BIRecords /\ BINumbers(batch) = BINumbers(bi.values) \cup {bi.inserts + 1}
  BY <1>2 DEF BINumbers, BIInv, BIType
<1>4. ~bi.raced => \A r \in batch : r.at = bi.instmt
  BY Zenon, <1>2 DEF BIInv, BISame
<1> HIDE DEF batch
<1>5. bi.inserts \in Nat /\ 1..(bi.inserts + 1) \subseteq (1..bi.inserts) \cup {bi.inserts + 1}
  BY SMTT(40) DEF BIInv, BIType
<1>6. CASE bi'.values = {} /\ bi'.flight = Append(bi.flight, batch)
  <2>1. /\ bi'.flight \in Seq(SUBSET BIRecords)
        /\ BIFlying' = BIFlying \cup BINumbers(batch)
        /\ \A s : /\ \A r \in batch : r.at = s
                  /\ \A i \in 1..Len(bi.flight) : \A r \in bi.flight[i] : r.at = s
                  => \A i \in 1..Len(bi'.flight) : \A r \in bi'.flight[i] : r.at = s
    BY SMTT(40), <1>3, <1>6, BIHanded
  <2>2. BIType' /\ BIOwn'
    BY SMTT(40), <1>1, <1>6, <2>1 DEF BIInv, BIType, BIOwn
  <2>3. BIAll'
    BY Zenon, <1>1, <1>3, <1>5, <2>1 DEF BIInv, BIAll
  <2>4. ~bi.raced => BISame' /\ BIBefore' /\ ~bi'.missed
    BY SMTT(40), <1>1, <1>4, <1>6, <2>1 DEF BIInv, BISame, BIBefore
  <2> QED
    BY Zenon, <1>1, <2>2, <2>3, <2>4 DEF BIInv
<1>7. CASE bi'.values = batch /\ bi'.flight = bi.flight
  <2>1. BIType' /\ BIOwn' /\ BIFlying' = BIFlying
    BY SMTT(40), <1>1, <1>3, <1>7 DEF BIInv, BIType, BIOwn, BIFlying
  <2>2. BIAll'
    BY Zenon, <1>1, <1>3, <1>5, <1>7, <2>1 DEF BIInv, BIAll
  <2>3. ~bi.raced => BISame' /\ BIBefore' /\ ~bi'.missed
    BY SMTT(40), <1>1, <1>4, <1>7 DEF BIInv, BISame, BIBefore
  <2> QED
    BY Zenon, <1>1, <2>1, <2>2, <2>3 DEF BIInv
<1> QED
  BY SMTT(40), <1>1, <1>6, <1>7

\* A tick of the executor takes the records that wait, as a batch.
LEMMA BITakeBatch ==
    ASSUME BIInv, BI!TakeBatch
    PROVE  BIInv'
<1>1. /\ bi'.inserts = bi.inserts /\ bi'.stmt = bi.stmt /\ bi'.instmt = bi.instmt
      /\ bi'.own = bi.own /\ bi'.pc = bi.pc /\ bi'.next = bi.next /\ bi'.before = bi.before
      /\ bi'.done = bi.done /\ bi'.inserted = bi.inserted /\ bi'.raced = bi.raced
      /\ bi'.missed = bi.missed /\ DOMAIN bi' = DOMAIN bi
      /\ bi'.values = {} /\ bi'.flight = Append(bi.flight, bi.values)
  BY Zenon DEF BI!TakeBatch, BIInv, BIType
<1>2. bi.values \in SUBSET BIRecords
  BY Zenon DEF BIInv, BIType
<1>3. /\ bi'.flight \in Seq(SUBSET BIRecords)
      /\ BIFlying' = BIFlying \cup BINumbers(bi.values)
      /\ \A s : /\ \A r \in bi.values : r.at = s
                /\ \A i \in 1..Len(bi.flight) : \A r \in bi.flight[i] : r.at = s
                => \A i \in 1..Len(bi'.flight) : \A r \in bi'.flight[i] : r.at = s
  BY SMTT(40), <1>1, <1>2, BIHanded
<1>4. BIType' /\ BIOwn'
  BY SMTT(40), <1>1, <1>3 DEF BIInv, BIType, BIOwn
<1>5. BIAll'
  BY SMTT(40), <1>1, <1>3 DEF BIInv, BIAll
<1>6. ~bi.raced => BISame' /\ BIBefore' /\ ~bi'.missed
  BY SMTT(40), <1>1, <1>3 DEF BIInv, BISame, BIBefore
<1> QED
  BY SMTT(40), <1>1, <1>4, <1>5, <1>6 DEF BIInv

\* The background goroutine inserts the oldest batch.
LEMMA BIExecute ==
    ASSUME BIInv, BI!Execute
    PROVE  BIInv'
<1> DEFINE batch == Head(bi.flight)
<1>1. /\ bi'.inserts = bi.inserts /\ bi'.stmt = bi.stmt /\ bi'.instmt = bi.instmt
      /\ bi'.own = bi.own /\ bi'.pc = bi.pc /\ bi'.next = bi.next /\ bi'.before = bi.before
      /\ bi'.done = bi.done \cup {[format |-> r.format, at |-> r.at, with |-> bi.instmt] : r \in batch}
      /\ bi'.inserted = bi.inserted \cup BINumbers(batch) /\ bi'.raced = bi.raced
      /\ bi'.missed = bi.missed /\ DOMAIN bi' = DOMAIN bi
      /\ bi'.values = bi.values /\ bi'.flight = Tail(bi.flight)
  BY Zenon DEF BI!Execute, BI!Executed, BINumbers, BIInv, BIType
<1>2. /\ bi'.flight \in Seq(SUBSET BIRecords) /\ Len(bi'.flight) = Len(bi.flight) - 1
      /\ Len(bi.flight) \in Nat \ {0}
      /\ \A i \in 1..Len(bi'.flight) : bi'.flight[i] = bi.flight[i + 1]
      /\ batch = bi.flight[1]
  <2>1. bi.flight \in Seq(SUBSET BIRecords) /\ bi.flight # <<>> /\ bi'.flight = Tail(bi.flight)
    BY Zenon, <1>1 DEF BI!Execute, BIInv, BIType
  <2> QED
    BY SMTT(40), <2>1, BITail
<1> HIDE DEF batch
<1>3. /\ \A i \in 1..Len(bi'.flight) : i + 1 \in 1..Len(bi.flight)
      /\ \A i \in 1..Len(bi.flight) : i # 1 => i - 1 \in 1..Len(bi'.flight) /\ bi'.flight[i - 1] = bi.flight[i]
      /\ 1 \in 1..Len(bi.flight)
  BY SMTT(40), <1>2
<1>4. BIFlying \subseteq BIFlying' \cup BINumbers(batch)
  BY SMTT(40), <1>2, <1>3 DEF BIFlying
<1>5. BIType' /\ BIOwn'
  BY Zenon, <1>1, <1>2 DEF BIInv, BIType, BIOwn
<1>6. BIAll'
  BY SMTT(40), <1>1, <1>4 DEF BIInv, BIAll
<1>7. ~bi.raced => BISame' /\ BIBefore' /\ ~bi'.missed
  <2> SUFFICES ASSUME ~bi.raced PROVE BISame' /\ BIBefore' /\ ~bi'.missed
    BY Zenon
  <2>1. \A r \in batch : r.at = bi.instmt
    BY SMTT(40), <1>2, <1>3 DEF BIInv, BISame
  <2>2. \A r \in bi'.done : r.with = r.at
    BY SMTT(40), <1>1, <2>1 DEF BIInv, BISame
  <2>3. \A i \in 1..Len(bi'.flight) : \A r \in bi'.flight[i] : r.at = bi.instmt
    BY SMTT(40), <1>2, <1>3 DEF BIInv, BISame
  <2> QED
    BY SMTT(40), <1>1, <2>2, <2>3 DEF BIInv, BISame, BIBefore
<1> QED
  BY Zenon, <1>1, <1>5, <1>6, <1>7 DEF BIInv

\* UpdateStmt and UpdateOrDelete begin.
LEMMA BIBegins ==
    ASSUME BIInv, BI!UpdateOrDelete \/ \E s \in BI!Statements : BI!UpdateStmt(s)
    PROVE  BIInv'
<1> DEFINE Begun ==
             /\ bi'.inserts = bi.inserts /\ bi'.stmt = bi.stmt /\ bi'.instmt = bi.instmt
             /\ bi'.own = bi.own /\ bi'.done = bi.done /\ bi'.inserted = bi.inserted
             /\ bi'.missed = bi.missed /\ DOMAIN bi' = DOMAIN bi
             /\ bi'.values = bi.values /\ bi'.flight = bi.flight /\ (~bi'.raced => ~bi.raced)
             /\ bi.pc = "idle" /\ bi'.pc \in {"idle", "flush", "flushFirst"}
             /\ bi'.before \in {bi.before, bi.inserts} /\ bi'.next \in BI!Statements
<1>1. Begun
  <2>1. CASE BI!UpdateOrDelete
    BY Zenon, <2>1 DEF BI!UpdateOrDelete, BIInv, BIType
  <2>2. ASSUME NEW s \in BI!Statements, BI!UpdateStmt(s) PROVE Begun
    BY Zenon, <2>2 DEF BI!UpdateStmt, BIInv, BIType
  <2> HIDE DEF Begun
  <2> QED
    BY SMTT(40), <2>1, <2>2
<1>2. BIType' /\ BIOwn' /\ BIFlying' = BIFlying
  <2>1. BIType /\ BIOwn
    BY Zenon DEF BIInv
  <2>2. bi'.before \in Nat /\ bi'.before <= bi'.inserts
    BY SMTT(40), <1>1, <2>1 DEF BIType
  <2>3. bi'.pc \in {"idle", "flush", "flushFirst", "exec", "execFirst", "sync", "fn"}
    BY Zenon, <1>1
  <2>4. BIType'
    BY SMTT(40), <1>1, <2>1, <2>2, <2>3 DEF BIType
  <2>5. BIOwn'
    BY SMTT(40), <1>1, <2>1 DEF BIOwn
  <2>6. BIFlying' = BIFlying
    BY SMTT(40), <1>1 DEF BIFlying
  <2> QED
    BY SMTT(40), <2>4, <2>5, <2>6
<1>3. BIAll'
  BY SMTT(40), <1>1, <1>2 DEF BIInv, BIAll
<1>4. ~bi'.raced => BISame' /\ BIBefore' /\ ~bi'.missed
  BY <1>1 DEF BIInv, BISame, BIBefore
<1> QED
  BY <1>2, <1>3, <1>4 DEF BIInv

\* Flush takes the records that wait: without a race they are all that is not inserted yet.
LEMMA BIFlush ==
    ASSUME BIInv, BI!Flush
    PROVE  BIInv'
<1>1. /\ bi'.inserts = bi.inserts /\ bi'.stmt = bi.stmt /\ bi'.instmt = bi.instmt
      /\ bi'.own = bi.values /\ bi'.done = bi.done /\ bi'.inserted = bi.inserted
      /\ bi'.missed = bi.missed /\ DOMAIN bi' = DOMAIN bi
      /\ bi'.values = {} /\ bi'.flight = bi.flight
      /\ (~bi'.raced => ~bi.raced /\ bi.flight = <<>>)
      /\ bi.pc \in {"flush", "flushFirst"} /\ bi'.pc \in {"exec", "execFirst"}
      /\ bi'.before = bi.before /\ bi'.next = bi.next
  BY Zenon DEF BI!Flush, BIInv, BIType
<1>2. BIType' /\ BIOwn' /\ BIFlying' = BIFlying
  <2>1. BIType' /\ BIOwn'
    BY <1>1 DEF BIInv, BIType, BIOwn
  <2>2. BIFlying' = BIFlying
    BY <1>1 DEF BIFlying
  <2> QED
    BY <2>1, <2>2
<1>3. bi.own = {} /\ BINumbers({}) = {}
  BY Zenon, <1>1 DEF BIInv, BIOwn, BINumbers
<1>4. BIAll'
  BY SMTT(40), <1>1, <1>2, <1>3 DEF BIInv, BIAll
<1>5. ~bi'.raced => BISame' /\ BIBefore' /\ ~bi'.missed
  <2> SUFFICES ASSUME ~bi'.raced PROVE BISame' /\ BIBefore' /\ ~bi'.missed
    OBVIOUS
  <2>1. BIFlying = {}
    BY SMTT(40), <1>1 DEF BIFlying
  <2>2. 1..bi.before \subseteq 1..bi.inserts
    BY DEF BIInv, BIType
  <2>3. 1..bi.before \subseteq bi.inserted \cup BINumbers(bi.values)
    BY Zenon, <1>3, <2>1, <2>2 DEF BIInv, BIAll
  <2> QED
    BY <1>1, <2>3 DEF BIInv, BISame, BIBefore
<1> QED
  BY SMTT(40), <1>2, <1>4, <1>5 DEF BIInv

\* and inserts them.
LEMMA BIFlushExecutes ==
    ASSUME BIInv, BI!FlushExecutes
    PROVE  BIInv'
<1>1. /\ bi'.inserts = bi.inserts /\ bi'.stmt = bi.stmt /\ bi'.instmt = bi.instmt
      /\ bi'.own = {} /\ bi'.next = bi.next /\ bi'.before = bi.before
      /\ bi'.done = bi.done \cup {[format |-> r.format, at |-> r.at, with |-> bi.instmt] : r \in bi.own}
      /\ bi'.inserted = bi.inserted \cup BINumbers(bi.own) /\ bi'.raced = bi.raced
      /\ bi'.missed = bi.missed /\ DOMAIN bi' = DOMAIN bi
      /\ bi'.values = bi.values /\ bi'.flight = bi.flight
      /\ \/ bi.pc = "exec" /\ bi'.pc = "sync"
         \/ bi.pc = "execFirst" /\ bi'.pc = "fn"
  BY SMTT(40) DEF BI!FlushExecutes, BI!Executed, BINumbers, BIInv, BIType
<1>2. BIType' /\ BIOwn' /\ BIFlying' = BIFlying
  <2>1. BIType' /\ BIOwn'
    BY SMTT(40), <1>1 DEF BIInv, BIType, BIOwn
  <2>2. BIFlying' = BIFlying
    BY SMTT(40), <1>1 DEF BIFlying
  <2> QED
    BY <2>1, <2>2
<1>3. BIAll'
  BY SMTT(40), <1>1, <1>2 DEF BIInv, BIAll
<1>4. ~bi.raced => BISame' /\ BIBefore' /\ ~bi'.missed
  <2> SUFFICES ASSUME ~bi.raced PROVE BISame' /\ BIBefore' /\ ~bi'.missed
    OBVIOUS
  <2>1. BISame /\ BIBefore /\ ~bi.missed
    BY Zenon DEF BIInv
  <2>2. ASSUME NEW r \in bi'.done PROVE r.with = r.at
    <3>1. CASE r \in bi.done
      BY SMTT(40), <2>1, <3>1 DEF BISame
    <3>2. CASE r \notin bi.done
      <4>1. PICK q \in bi.own : r = [format |-> q.format, at |-> q.at, with |-> bi.instmt]
        BY SMTT(40), <1>1, <2>2, <3>2
      <4>2. q.at = bi.instmt
        BY Zenon, <2>1 DEF BISame
      <4> QED
        BY SMTT(40), <4>1, <4>2
    <3> QED
      BY SMTT(40), <3>1, <3>2
  <2>3. BISame'
    BY SMTT(40), <1>1, <2>1, <2>2 DEF BISame
  <2> QED
    BY SMTT(40), <1>1, <2>1, <2>3 DEF BIBefore
<1> QED
  BY SMTT(40), <1>1, <1>2, <1>3, <1>4 DEF BIInv

\* Sync changes the statement, and the function of UpdateOrDelete runs.
LEMMA BIReturns ==
    ASSUME BIInv, BI!Sync \/ BI!Fn
    PROVE  BIInv'
<1>1. /\ bi'.inserts = bi.inserts /\ bi'.stmt = bi.stmt /\ bi'.own = bi.own
      /\ bi'.next = bi.next /\ bi'.before = bi.before /\ bi'.done = bi.done
      /\ bi'.inserted = bi.inserted /\ DOMAIN bi' = DOMAIN bi
      /\ bi'.values = bi.values /\ bi'.flight = bi.flight /\ bi'.pc = "idle"
      /\ bi.pc \in {"sync", "fn"} /\ (~bi'.raced => ~bi.raced)
  BY ZenonT(40) DEF BI!Sync, BI!Fn, BIInv, BIType
<1>2. CASE BI!Sync
  <2>1. bi'.instmt = bi.next /\ bi'.missed = bi.missed
        /\ (~bi'.raced => bi.flight = <<>> /\ bi.values = {})
    BY Zenon, <1>2 DEF BI!Sync, BIInv, BIType
  <2>2. BIType' /\ BIOwn' /\ BIFlying' = BIFlying
    BY SMTT(40), <1>1, <2>1 DEF BIInv, BIType, BIOwn, BIFlying
  <2>3. BIAll'
    BY Zenon, <1>1, <2>2 DEF BIInv, BIAll
  <2>4. ~bi'.raced => BISame' /\ BIBefore' /\ ~bi'.missed
    BY SMTT(40), <1>1, <2>1 DEF BIInv, BIOwn, BISame, BIBefore
  <2> QED
    BY Zenon, <2>2, <2>3, <2>4 DEF BIInv
<1>3. CASE BI!Fn
  <2>1. bi'.instmt = bi.instmt /\ bi'.missed = ~(1..bi.before \subseteq bi.inserted)
        /\ bi.pc = "fn"
    BY Zenon, <1>3 DEF BI!Fn, BIInv, BIType
  <2>2. BIType' /\ BIOwn' /\ BIFlying' = BIFlying
    BY SMTT(40), <1>1, <2>1 DEF BIInv, BIType, BIOwn, BIFlying
  <2>3. BIAll'
    BY <1>1, <2>2 DEF BIInv, BIAll
  <2>4. ~bi'.raced => BISame' /\ BIBefore' /\ ~bi'.missed
    BY ZenonT(40), <1>1, <2>1 DEF BIInv, BISame, BIBefore
  <2> QED
    BY <2>2, <2>3, <2>4 DEF BIInv
<1> QED
  BY SMTT(40), <1>2, <1>3

\* Every record is inserted by the statement it was made for, and UpdateOrDelete sees the records
\* before it, unless calls overlap.
OnlyRacesMoveRecords == BI!OnlyRacesMoveRecords

\* UpdateStmt and UpdateOrDelete come between the records before and after them, but for races with
\* the background goroutine and, for UpdateStmt, with Insert.
THEOREM RecordsStayInOrder ==
    BI!Spec => []OnlyRacesMoveRecords
<1>1. BIInv /\ [BI!Next]_bi => BIInv'
  <2> SUFFICES ASSUME BIInv, [BI!Next]_bi PROVE BIInv'
    BY Zenon
  <2>1. CASE UNCHANGED bi
    BY SMTT(40), <2>1 DEF BIInv, BIType, BIAll, BIFlying, BINumbers, BIOwn, BISame, BIBefore
  <2> QED
    BY <2>1, BIInsert, BITakeBatch, BIExecute, BIBegins, BIFlush, BIFlushExecutes, BIReturns
       DEF BI!Next
<1>2. BI!Init => BIInv
  BY Zenon, BIInit
<1>3. BIInv => BI!OnlyRacesMoveRecords
  BY Zenon DEF BIInv, BISame, BI!OnlyRacesMoveRecords, BI!OnlyRacesMixStatements,
         BI!OnlyRacesMissRecords
<1> QED
  BY <1>1, <1>2, <1>3, PTL DEF OnlyRacesMoveRecords, BI!Spec
-----------------------------------------------------------------------------
\* Facts about finite sets and what they count.
INSTANCE FiniteSetTheorems

\* The parts count subsets of a finite set W of goroutines or tasks.  What Cardinality is of such a
\* set, and after u has joined it,
LEMMA CountJoin ==
    ASSUME NEW W, IsFiniteSet(W), NEW S \in SUBSET W, NEW u \in W
    PROVE  /\ Cardinality(S) \in Nat
           /\ Cardinality(S \cup {u}) = IF u \in S THEN Cardinality(S) ELSE Cardinality(S) + 1
  BY Zenon, FS_Subset, FS_CardinalityType, FS_AddElement

\* or left it.
LEMMA CountLeave ==
    ASSUME NEW W, IsFiniteSet(W), NEW S \in SUBSET W, NEW u \in W
    PROVE  /\ Cardinality(S \ {u}) \in Nat
           /\ Cardinality(S \ {u}) = IF u \in S THEN Cardinality(S) - 1 ELSE Cardinality(S)
  BY Zenon, FS_Subset, FS_CardinalityType, FS_RemoveElement

\* What the proofs use of the two.
LEMMA Count ==
    ASSUME NEW W, IsFiniteSet(W), NEW S \in SUBSET W, NEW u \in W
    PROVE  /\ Cardinality(S) \in Nat /\ Cardinality(S \ {u}) \in Nat
           /\ u \in S => Cardinality(S \ {u}) = Cardinality(S) - 1
           /\ u \notin S => Cardinality(S \cup {u}) = Cardinality(S) + 1
           /\ u \notin S => S \ {u} = S
           /\ Cardinality(S \ {u}) >= Cardinality(S) - 1
<1>1. /\ Cardinality(S) \in Nat
      /\ Cardinality(S \cup {u}) = IF u \in S THEN Cardinality(S) ELSE Cardinality(S) + 1
  BY Zenon, CountJoin
<1>2. /\ Cardinality(S \ {u}) \in Nat
      /\ Cardinality(S \ {u}) = IF u \in S THEN Cardinality(S) - 1 ELSE Cardinality(S)
  BY Zenon, CountLeave
<1> QED
  BY <1>1, <1>2

\* Two sets together.
LEMMA CountUnion ==
    ASSUME NEW S, IsFiniteSet(S), NEW T, IsFiniteSet(T)
    PROVE  /\ Cardinality(S) \in Nat /\ Cardinality(T) \in Nat
           /\ Cardinality(S \cup T) \in Nat
           /\ Cardinality(S \cup T) <= Cardinality(S) + Cardinality(T)
           /\ S \cap T = {} => Cardinality(S \cup T) = Cardinality(S) + Cardinality(T)
<1>1. IsFiniteSet(S \cup T) /\ IsFiniteSet(S \cap T)
  BY Zenon, FS_Union, FS_Intersection
<1>2. /\ Cardinality(S) \in Nat /\ Cardinality(T) \in Nat
      /\ Cardinality(S \cup T) \in Nat /\ Cardinality(S \cap T) \in Nat
  BY Zenon, <1>1, FS_CardinalityType
<1>3. Cardinality(S \cup T) = Cardinality(S) + Cardinality(T) - Cardinality(S \cap T)
  BY Zenon, FS_Union
<1>4. S \cap T = {} => Cardinality(S \cap T) = 0
  BY Zenon, FS_EmptySet
<1> QED
  BY <1>2, <1>3, <1>4
-----------------------------------------------------------------------------
\* The cluster of core/stores/kv/store.go, for any nodes, keys and values and any way in which the
\* ring spreads the keys.

KV == INSTANCE KvStore WITH Keys <- StoreKeys, Values <- StoreValues, Nil <- Absent

\* Cardinality and IsFiniteSet are those of the part.
LEMMA KVSameCount ==
    ASSUME NEW S
    PROVE  KV!Cardinality(S) = Cardinality(S) /\ KV!IsFiniteSet(S) = IsFiniteSet(S)
  BY Zenon DEF Cardinality, KV!Cardinality, IsFiniteSet, KV!IsFiniteSet

KVType ==
    /\ DOMAIN kv = {"pc", "ring", "data", "down", "failures", "todo", "asked", "val", "failed",
                    "gone", "dels"}
    /\ kv.pc \in {"new", "idle", "del"}
    /\ kv.ring \in [StoreKeys -> IF kv.pc = "new" THEN {Absent} ELSE Nodes]
    /\ kv.data \in [Nodes -> [StoreKeys -> StoreValues \cup {Absent}]]

\* Nothing is stored before NewStore.
KVEmpty == kv.pc = "new" => \A n \in Nodes, k \in StoreKeys : kv.data[n][k] = Absent

\* What Del has to do and has done: the keys still to try make up for those not yet tried, and the
\* deletes it counts and its errors for what is left of its two keys.
KVDel ==
    /\ kv.todo \in Seq(StoreKeys) /\ kv.val \in Nat /\ IsFiniteSet(kv.failed)
    /\ kv.pc = "del" =>
        /\ kv.gone \cup kv.failed \subseteq kv.asked
        /\ \A i \in 1..Len(kv.todo) : kv.todo[i] \in kv.asked
        /\ \A k \in kv.asked : k \in kv.gone \cup kv.failed
                                \/ \E i \in 1..Len(kv.todo) : kv.todo[i] = k
        /\ kv.val + Cardinality(kv.failed) + Len(kv.todo) <= 2

KVInv == KVType /\ KVEmpty /\ KV!NoStrayValue /\ KVDel

\* A store without nodes is the empty map.
LEMMA KVInit ==
    ASSUME KV!KvStoreAssumption, KV!Init
    PROVE  KVInv /\ KV!M!Init
<1>1. KVType /\ KVEmpty /\ KV!NoStrayValue
  BY Zenon DEF KV!Init, KVType, KVEmpty, KV!NoStrayValue
<1>2. KVDel
  BY FS_EmptySet DEF KV!Init, KVDel
<1>3. KV!M!Init
  BY Zenon DEF KV!Init, KV!M!Init, KV!Value
<1> QED
  BY Zenon, <1>1, <1>2, <1>3 DEF KVInv

\* NewStore spreads keys that have no value yet.
LEMMA KVNew ==
    ASSUME KV!KvStoreAssumption, KVInv, NEW ring \in [StoreKeys -> Nodes], KV!NewStore(ring)
    PROVE  KVInv' /\ KV!Value' = KV!Value
<1>1. KVType' /\ KVEmpty' /\ KV!NoStrayValue'
  BY Zenon DEF KVInv, KV!NewStore, KVType, KVEmpty, KV!NoStrayValue
<1>2. KVDel'
  BY Zenon DEF KVInv, KV!NewStore, KVType, KVDel
<1>3. KV!Value' = KV!Value
  BY Zenon DEF KV!KvStoreAssumption, KVInv, KV!NewStore, KVType, KVEmpty, KV!Value
<1> QED
  BY Zenon, <1>1, <1>2, <1>3 DEF KVInv

\* A value is written to, or deleted from, the node of its key.
LEMMA KVPut ==
    ASSUME KV!KvStoreAssumption, KVType, KVEmpty, KV!NoStrayValue, NEW k \in StoreKeys,
           NEW v \in StoreValues \cup {Absent}, kv.pc # "new", DOMAIN kv' = DOMAIN kv,
           kv'.pc = kv.pc, kv'.ring = kv.ring,
           kv'.data = [kv.data EXCEPT ![kv.ring[k]][k] = v]
    PROVE  KVType' /\ KVEmpty' /\ KV!NoStrayValue' /\ KV!Value' = [KV!Value EXCEPT ![k] = v]
<1>1. KVType' /\ KVEmpty' /\ KV!NoStrayValue'
  BY SMTT(40) DEF KVType, KVEmpty, KV!NoStrayValue
<1>2. \A j \in StoreKeys : kv.ring[j] \in Nodes /\ kv.ring[j] # Absent
  BY SMTT(40) DEF KV!KvStoreAssumption, KVType
<1>3. \A j \in StoreKeys : kv'.data[kv.ring[j]][j] = IF j = k THEN v ELSE kv.data[kv.ring[j]][j]
  BY SMTT(40), <1>2 DEF KVType
<1>4. /\ KV!Value = [j \in StoreKeys |-> kv.data[kv.ring[j]][j]]
      /\ KV!Value' = [j \in StoreKeys |-> kv'.data[kv.ring[j]][j]]
  BY <1>2 DEF KV!Value
<1> QED
  BY ZenonT(40), <1>1, <1>3, <1>4

\* A write goes to the node of its key, and is one of the map.
LEMMA KVWrite ==
    ASSUME KV!KvStoreAssumption, KVInv, NEW op, NEW k \in StoreKeys, NEW v \in StoreValues \cup {Absent},
           KV!Write(op, k, v)
    PROVE  KVInv' /\ KV!Value' = [KV!Value EXCEPT ![k] = v]
<1>1. /\ kv.pc # "new" /\ DOMAIN kv' = DOMAIN kv /\ kv'.pc = kv.pc /\ kv'.ring = kv.ring
      /\ kv'.data = [kv.data EXCEPT ![kv.ring[k]][k] = v]
  BY Zenon DEF KVInv, KVType, KV!Write, KV!GetRedis
<1>2. KVDel'
  BY Zenon DEF KVInv, KVType, KVDel, KV!Write
<1> QED
  BY Zenon, <1>1, <1>2, KVPut DEF KVInv

\* Del of two keys begins.
LEMMA KVDelBegins ==
    ASSUME KV!KvStoreAssumption, KVInv, NEW a \in StoreKeys, NEW b \in StoreKeys, KV!Del(<<a, b>>)
    PROVE  KVInv' /\ KV!Value' = KV!Value
<1>1. KVType' /\ KVEmpty' /\ KV!NoStrayValue' /\ KV!Value' = KV!Value
  BY Zenon DEF KVInv, KVType, KVEmpty, KV!NoStrayValue, KV!Value, KV!Del
<1>2. /\ kv'.todo = <<a, b>> /\ kv'.val = 0 /\ kv'.failed = {} /\ kv'.gone = {}
      /\ kv'.asked = {a, b}
  BY DEF KVInv, KVType, KV!Del
<1>3. KVDel'
  BY <1>2, FS_EmptySet DEF KVDel
<1> QED
  BY Zenon, <1>1, <1>3 DEF KVInv

\* One element more is at most one more to count.
LEMMA CountAdd ==
    ASSUME NEW S, NEW x, IsFiniteSet(S)
    PROVE  /\ IsFiniteSet(S \cup {x}) /\ Cardinality(S) \in Nat
           /\ Cardinality(S \cup {x}) \in Nat
           /\ Cardinality(S \cup {x}) <= Cardinality(S) + 1
<1>1. /\ IsFiniteSet(S \cup {x})
      /\ Cardinality(S \cup {x}) = (IF x \in S THEN Cardinality(S) ELSE Cardinality(S) + 1)
  BY Zenon, FS_AddElement
<1>2. Cardinality(S) \in Nat
  BY Zenon, FS_CardinalityType
<1> QED
  BY <1>1, <1>2

\* One key of Del: deleted on its node, or one error more.
LEMMA KVDelOne ==
    ASSUME KV!KvStoreAssumption, KVInv, KV!DelOne
    PROVE  /\ KVInv'
           /\ KV!Value' = KV!Value \/ \E k \in StoreKeys : KV!Value' = [KV!Value EXCEPT ![k] = Absent]
<1> DEFINE k == Head(kv.todo)
           rest == Tail(kv.todo)
<1>1. /\ kv.todo \in Seq(StoreKeys) /\ kv.todo # <<>> /\ kv.pc = "del"
      /\ kv.val \in Nat /\ IsFiniteSet(kv.failed)
  BY Zenon DEF KVInv, KVDel, KV!DelOne
<1>2. /\ k \in StoreKeys /\ rest \in Seq(StoreKeys) /\ Len(kv.todo) \in Nat
      /\ Len(rest) = Len(kv.todo) - 1 /\ k = kv.todo[1]
      /\ \A i \in 1..Len(rest) : rest[i] = kv.todo[i + 1]
  BY <1>1
<1>3. \A i \in 1..Len(kv.todo) : kv.todo[i] = k \/ \E j \in 1..Len(rest) : rest[j] = kv.todo[i]
  <2> SUFFICES ASSUME NEW i \in 1..Len(kv.todo), i # 1
               PROVE  \E j \in 1..Len(rest) : rest[j] = kv.todo[i]
    BY Zenon, <1>2
  <2>1. i - 1 \in 1..Len(rest) /\ rest[i - 1] = kv.todo[i]
    BY SMTT(40), <1>2
  <2> QED
    BY Zenon, <2>1
<1> DEFINE Fails     == kv' = [kv EXCEPT !.todo = rest, !.failed = @ \cup {k}]
           Deletes(n) == kv' = [kv EXCEPT !.todo = rest, !.data[kv.ring[k]][k] = Absent,
                                          !.gone = @ \cup {k}, !.val = n]
<1>4. Fails \/ Deletes(kv.val) \/ Deletes(kv.val + 1)
  BY Zenon DEF KV!DelOne, KV!GetRedis
<1> HIDE DEF k, rest
\* The keys of the call stay accounted for, whichever way this one went.
<1>5. ASSUME kv'.todo = rest, kv'.asked = kv.asked, kv'.pc = kv.pc,
             kv'.gone \cup kv'.failed = kv.gone \cup kv.failed \cup {k},
             kv'.val \in Nat, IsFiniteSet(kv'.failed),
             kv'.val + Cardinality(kv'.failed) <= kv.val + Cardinality(kv.failed) + 1,
             Cardinality(kv'.failed) \in Nat, Cardinality(kv.failed) \in Nat
      PROVE  KVDel'
  <2>1. k \in kv.asked
    BY SMTT(40), <1>1, <1>2 DEF KVInv, KVDel
  <2>2. \A i \in 1..Len(rest) : rest[i] \in kv.asked
    BY SMTT(40), <1>1, <1>2 DEF KVInv, KVDel
  <2>3. \A j \in kv.asked : j \in kv.gone \cup kv.failed \cup {k}
                             \/ \E i \in 1..Len(rest) : rest[i] = j
    BY SMTT(40), <1>1, <1>3 DEF KVInv, KVDel
  <2>4. kv'.val + Cardinality(kv'.failed) + Len(rest) <= 2
    <3>1. kv.val + Cardinality(kv.failed) + Len(kv.todo) <= 2
      BY Zenon, <1>1 DEF KVInv, KVDel
    <3>2. Len(kv.todo) \in Nat /\ Len(rest) = Len(kv.todo) - 1
      BY Zenon, <1>2
    <3>3. /\ kv.val \in Nat /\ kv'.val \in Nat
          /\ Cardinality(kv'.failed) \in Nat /\ Cardinality(kv.failed) \in Nat
          /\ kv'.val + Cardinality(kv'.failed) <= kv.val + Cardinality(kv.failed) + 1
      BY Zenon, <1>1, <1>5
    <3> QED
      BY SMTT(40), <3>1, <3>2, <3>3
  <2>5. kv.gone \cup kv.failed \cup {k} \subseteq kv.asked
    BY Zenon, <1>1, <2>1 DEF KVInv, KVDel
  <2>6. /\ kv'.todo \in Seq(StoreKeys) /\ kv'.gone \cup kv'.failed \subseteq kv'.asked
        /\ \A i \in 1..Len(kv'.todo) : kv'.todo[i] \in kv'.asked
    BY Zenon, <1>2, <1>5, <2>2, <2>5
  <2>7. \A j \in kv'.asked : j \in kv'.gone \cup kv'.failed
                              \/ \E i \in 1..Len(kv'.todo) : kv'.todo[i] = j
    BY Zenon, <1>5, <2>3
  <2>8. kv'.val + Cardinality(kv'.failed) + Len(kv'.todo) <= 2
    BY Zenon, <1>5, <2>4
  <2> QED
    BY ZenonT(40), <1>5, <2>6, <2>7, <2>8 DEF KVDel
<1>6. CASE Fails
  <2>1. KVType' /\ KVEmpty' /\ KV!NoStrayValue' /\ KV!Value' = KV!Value
    BY Zenon, <1>6 DEF KVInv, KVType, KVEmpty, KV!NoStrayValue, KV!Value
  <2>2. /\ kv'.todo = rest /\ kv'.failed = kv.failed \cup {k} /\ kv'.gone = kv.gone
        /\ kv'.asked = kv.asked /\ kv'.val = kv.val /\ kv'.pc = kv.pc
    BY Zenon, <1>6 DEF KVInv, KVType
  <2>3. /\ IsFiniteSet(kv.failed \cup {k}) /\ Cardinality(kv.failed) \in Nat
        /\ Cardinality(kv.failed \cup {k}) \in Nat
        /\ Cardinality(kv.failed \cup {k}) <= Cardinality(kv.failed) + 1
    BY ZenonT(40), <1>1, CountAdd
  <2>4. KVDel'
    BY SMTT(40), <1>1, <1>5, <2>2, <2>3
  <2> QED
    BY Zenon, <2>1, <2>4 DEF KVInv
<1>7. ASSUME NEW n \in Nat, n <= kv.val + 1, Deletes(n)
      PROVE  KVInv' /\ KV!Value' = [KV!Value EXCEPT ![k] = Absent]
  <2>1. /\ kv'.todo = rest /\ kv'.gone = kv.gone \cup {k} /\ kv'.failed = kv.failed
        /\ kv'.asked = kv.asked /\ kv'.val = n /\ kv'.pc = kv.pc /\ kv'.ring = kv.ring
        /\ kv'.data = [kv.data EXCEPT ![kv.ring[k]][k] = Absent] /\ DOMAIN kv' = DOMAIN kv
    BY Zenon, <1>7 DEF KVInv, KVType
  <2>2. KVType' /\ KVEmpty' /\ KV!NoStrayValue' /\ KV!Value' = [KV!Value EXCEPT ![k] = Absent]
    BY ZenonT(40), <1>1, <1>2, <2>1, KVPut DEF KVInv
  <2>3. Cardinality(kv.failed) \in Nat
    BY Zenon, <1>1, FS_CardinalityType
  <2>4. KVDel'
    BY SMTT(40), <1>1, <1>5, <1>7, <2>1, <2>3
  <2> QED
    BY Zenon, <2>2, <2>4 DEF KVInv
<1> HIDE DEF Fails, Deletes
<1> QED
  BY SMTT(40), <1>1, <1>2, <1>4, <1>6, <1>7

\* Del returns, or a node fails or recovers.
LEMMA KVOthers ==
    ASSUME KVInv, KV!DelReturns \/ \E n \in Nodes : KV!Fail(n) \/ KV!Recover(n)
    PROVE  KVInv' /\ KV!Value' = KV!Value
<1>1. CASE KV!DelReturns
  <2>1. KVType' /\ KVEmpty' /\ KV!NoStrayValue' /\ KV!Value' = KV!Value
    BY Zenon, <1>1 DEF KVInv, KVType, KVEmpty, KV!NoStrayValue, KV!Value, KV!DelReturns
  <2>2. kv'.todo = kv.todo /\ kv'.val = 0 /\ kv'.failed = {} /\ kv'.pc = "idle"
    BY Zenon, <1>1 DEF KVInv, KVType, KV!DelReturns
  <2>3. KVDel'
    BY <2>2, FS_EmptySet DEF KVInv, KVDel
  <2> QED
    BY Zenon, <2>1, <2>3 DEF KVInv
<1>2. ASSUME NEW n \in Nodes, KV!Fail(n) \/ KV!Recover(n)
      PROVE  KVInv' /\ KV!Value' = KV!Value
  <2>1. /\ kv'.todo = kv.todo /\ kv'.val = kv.val /\ kv'.failed = kv.failed /\ kv'.pc = kv.pc
        /\ kv'.gone = kv.gone /\ kv'.asked = kv.asked /\ kv'.ring = kv.ring
        /\ kv'.data = kv.data /\ DOMAIN kv' = DOMAIN kv
    BY ZenonT(40), <1>2 DEF KVInv, KVType, KV!Fail, KV!Recover
  <2>2. KVType' /\ KVEmpty' /\ KV!NoStrayValue' /\ KV!Value' = KV!Value
    BY <2>1 DEF KVInv, KVType, KVEmpty, KV!NoStrayValue, KV!Value
  <2>3. KVDel'
    BY Zenon, <2>1 DEF KVInv, KVDel
  <2> QED
    BY Zenon, <2>2, <2>3 DEF KVInv
<1> QED
  BY Zenon, <1>1, <1>2

\* The keys on all nodes together are one map, whatever fails, no node keeps a value of another
\* node's key, and Del leaves no key untried.
StoreIsAMap == KV!StoreIsAMap

\* The cluster of nodes is one map with Set and Del, each value is on the node of its key, and Del
\* tries every key and counts no delete that it did not make, for any nodes, keys, values and ring,
\* whenever nodes fail and recover.
THEOREM ClusterIsOneMap ==
    ASSUME KV!KvStoreAssumption
    PROVE  KV!Spec => StoreIsAMap
<1>1. KVInv /\ [KV!Next]_kv => KVInv' /\ [KV!M!Next]_(KV!Value)
  <2> SUFFICES ASSUME KVInv, [KV!Next]_kv PROVE KVInv' /\ [KV!M!Next]_(KV!Value)
    OBVIOUS
  <2>1. CASE UNCHANGED kv
    BY Zenon, <2>1 DEF KVInv, KVType, KVEmpty, KV!NoStrayValue, KVDel, KV!Value
  <2>2. ASSUME NEW op, NEW k \in StoreKeys, NEW v \in StoreValues \cup {Absent}, KV!Write(op, k, v)
        PROVE  KVInv' /\ KV!M!Next
    BY <2>2, KVWrite DEF KV!M!Next, KV!M!Set, KV!M!Del
  <2>3. CASE KV!DelOne
    BY Zenon, <2>3, KVDelOne DEF KV!M!Next, KV!M!Del
  <2>4. CASE \E op \in KV!Reads, k \in StoreKeys : KV!Read(op, k)
    BY ZenonT(40), <2>1, <2>4 DEF KV!Read
  <2> QED
    BY ZenonT(40), <2>1, <2>2, <2>3, <2>4, KVNew, KVDelBegins, KVOthers DEF KV!Next
<1>2. KVInv => KV!NoStrayValue /\ KV!DelTriesEveryKey
  <2> SUFFICES ASSUME KVInv, kv.pc = "del", kv.todo = <<>>
               PROVE  /\ kv.asked = kv.gone \cup kv.failed
                      /\ kv.val <= 2 - KV!Cardinality(kv.failed)
    BY Zenon DEF KVInv, KV!DelTriesEveryKey
  <2>1. Len(kv.todo) = 0 /\ Cardinality(kv.failed) \in Nat /\ kv.val \in Nat
    BY Zenon, FS_CardinalityType DEF KVInv, KVDel
  <2>2. kv.val <= 2 - Cardinality(kv.failed)
    BY SMTT(40), <2>1 DEF KVInv, KVDel
  <2> QED
    BY <2>1, <2>2, KVSameCount DEF KVInv, KVDel
<1> QED
  BY <1>1, <1>2, KVInit, PTL DEF KV!Spec, StoreIsAMap, KV!StoreIsAMap, KV!ClusterIsAMap, KV!M!Spec
-----------------------------------------------------------------------------
\* The clean tasks of core/stores/cache/cleaner.go, for any tasks, any number of delays and any sizes
\* of the two task runners.

CL == INSTANCE Cleaner

\* Cardinality and IsFiniteSet are those of the part.
LEMMA CLSameCount ==
    ASSUME NEW S
    PROVE  CL!Cardinality(S) = Cardinality(S) /\ CL!IsFiniteSet(S) = IsFiniteSet(S)
  BY DEF Cardinality, CL!Cardinality, IsFiniteSet, CL!IsFiniteSet

CLPlaces == {"none", "set", "retry", "wheel", "fired", "drained", "running", "done", "gaveUp", "lost"}

CLType ==
    /\ DOMAIN cl = {"at", "loop", "drains", "known", "drained", "tries"}
    /\ cl.at \in [Tasks -> CLPlaces]
    /\ cl.tries \in [Tasks -> Nat]

\* The goroutines of clean's runner, which never has more of them than workers.
CLBusy == {t \in Tasks : cl.at[t] \in {"running", "retry"}}

\* A task has a delay left until it is at an end, and gives up after the last one.
CLTries ==
    \A t \in Tasks :
        /\ cl.at[t] \notin {"done", "gaveUp"} => cl.tries[t] < Delays
        /\ cl.at[t] = "gaveUp" => cl.tries[t] = Delays

\* timers has the key of a task that is not in the wheel only after a Drain took it out, and only
\* then a retry gets lost.
CLKnown ==
    \A t \in Tasks :
        /\ t \in cl.known /\ cl.at[t] # "wheel" => t \in cl.drained
        /\ cl.at[t] = "lost" => t \in cl.drained

CLInv == CLType /\ Cardinality(CLBusy) <= CleanWorkers /\ CLTries /\ CLKnown

\* No task is anywhere at first, and both runners are idle.
LEMMA CLInit ==
    ASSUME CL!CleanerAssumption, CL!Init
    PROVE  CLInv
<1>1. CLType /\ CLTries /\ CLKnown
  BY DEF CL!CleanerAssumption, CL!Init, CLType, CLPlaces, CLTries, CLKnown
<1>2. CLBusy = {}
  BY Zenon DEF CL!Init, CLBusy
<1> QED
  BY SMTT(40), <1>1, <1>2, FS_EmptySet DEF CL!CleanerAssumption, CLInv

\* A runner that has no goroutine more than before stays within its workers.
LEMMA CLFewer ==
    ASSUME CL!CleanerAssumption, CLInv, CLBusy' \subseteq CLBusy
    PROVE  Cardinality(CLBusy)' <= CleanWorkers
<1>1. IsFiniteSet(CLBusy)
  BY Zenon, FS_Subset, CLSameCount DEF CL!CleanerAssumption, CLBusy
<1>2. /\ Cardinality(CLBusy') \in Nat /\ Cardinality(CLBusy) \in Nat
      /\ Cardinality(CLBusy') <= Cardinality(CLBusy)
  BY ZenonT(40), <1>1, FS_Subset, FS_CardinalityType
<1> QED
  BY <1>2 DEF CL!CleanerAssumption, CLInv

\* A task moves to another place, and timers and drained follow.
LEMMA CLMoved ==
    ASSUME CL!CleanerAssumption, CLInv, NEW t \in Tasks,
           NEW place \in CLPlaces \ {"running", "retry", "gaveUp"},
           cl'.at = [cl.at EXCEPT ![t] = place], cl'.tries = cl.tries, DOMAIN cl' = DOMAIN cl,
           cl.at[t] \notin {"done", "gaveUp"},
           cl'.known \ {t} \subseteq cl.known, cl.drained \subseteq cl'.drained,
           place # "wheel" /\ t \in cl'.known => t \in cl'.drained,
           place = "lost" => t \in cl'.drained
    PROVE  CLInv'
<1>1. CLBusy' \subseteq CLBusy
  BY Zenon DEF CLBusy, CLInv, CLType
<1>2. Cardinality(CLBusy)' <= CleanWorkers
  BY ZenonT(40), <1>1, CLFewer
<1>3. CLType'
  BY DEF CLInv, CLType
<1>4. CLTries' /\ CLKnown'
  BY DEF CLInv, CLType, CLTries, CLKnown
<1> QED
  BY ZenonT(40), <1>2, <1>3, <1>4 DEF CLInv

\* Every step of a task but that of clean leaves the runner of clean no fuller.
LEMMA CLOthers ==
    ASSUME CL!CleanerAssumption, CLInv, NEW t \in Tasks,
           CL!AddCleanTask(t) \/ CL!SetTask(t) \/ CL!Fire(t) \/ CL!DrainOne(t) \/ CL!Attempt(t)
    PROVE  CLInv'
<1>1. CASE CL!AddCleanTask(t)
  <2>1. /\ cl.at[t] = "none" /\ cl'.at = [cl.at EXCEPT ![t] = "set"] /\ cl'.tries = cl.tries
        /\ DOMAIN cl' = DOMAIN cl /\ cl'.known = cl.known /\ cl'.drained = cl.drained
    BY Zenon, <1>1 DEF CL!AddCleanTask, CL!Goes, CLInv, CLType
  <2>2. t \in cl.known => t \in cl.drained
    BY Zenon, <2>1 DEF CLInv, CLKnown
  <2> QED
    BY SMTT(40), <2>1, <2>2, CLMoved DEF CLPlaces
<1>2. CASE CL!SetTask(t)
  <2>1. cl.at[t] \in {"set", "retry"}
    BY ZenonT(40), <1>2 DEF CL!SetTask
  <2>2. CASE cl' = [CL!Goes(t, "wheel") EXCEPT !.known = @ \cup {t}]
    <3>1. /\ cl'.at = [cl.at EXCEPT ![t] = "wheel"] /\ cl'.tries = cl.tries
          /\ DOMAIN cl' = DOMAIN cl /\ cl'.known = cl.known \cup {t} /\ cl'.drained = cl.drained
      BY Zenon, <2>2 DEF CL!Goes, CLInv, CLType
    <3> QED
      BY SMTT(40), <2>1, <3>1, CLMoved DEF CLPlaces
  <2>3. CASE t \in cl.known /\ cl' = CL!Goes(t, "lost")
    <3>1. /\ cl'.at = [cl.at EXCEPT ![t] = "lost"] /\ cl'.tries = cl.tries
          /\ DOMAIN cl' = DOMAIN cl /\ cl'.known = cl.known /\ cl'.drained = cl.drained
      BY Zenon, <2>3 DEF CL!Goes, CLInv, CLType
    <3>2. t \in cl.drained
      BY ZenonT(40), <2>1, <2>3 DEF CLInv, CLKnown
    <3> QED
      BY ZenonT(40), <2>1, <3>1, <3>2, CLMoved DEF CLPlaces
  <2> QED
    BY ZenonT(40), <1>2, <2>2, <2>3 DEF CL!SetTask
<1>3. CASE CL!Fire(t)
  <2>1. /\ cl.at[t] = "wheel" /\ cl'.at = [cl.at EXCEPT ![t] = "fired"] /\ cl'.tries = cl.tries
        /\ DOMAIN cl' = DOMAIN cl /\ cl'.known = cl.known \ {t} /\ cl'.drained = cl.drained
    BY Zenon, <1>3 DEF CL!Fire, CL!Goes, CLInv, CLType
  <2> QED
    BY SMTT(40), <2>1, CLMoved DEF CLPlaces
<1>4. CASE CL!DrainOne(t)
  <2>1. /\ cl.at[t] = "wheel" /\ cl'.at = [cl.at EXCEPT ![t] = "drained"] /\ cl'.tries = cl.tries
        /\ DOMAIN cl' = DOMAIN cl /\ cl'.known = cl.known /\ cl'.drained = cl.drained \cup {t}
    BY ZenonT(40), <1>4 DEF CL!DrainOne, CL!CanDrain, CL!Goes, CLInv, CLType
  <2> QED
    BY Zenon, <2>1, CLMoved DEF CLPlaces
<1>5. CASE CL!Attempt(t)
  <2>1. PICK end \in {"done", IF cl.tries[t] + 1 < Delays THEN "retry" ELSE "gaveUp"} :
               cl' = [CL!Goes(t, end) EXCEPT !.tries[t] = @ + 1]
    BY Zenon, <1>5 DEF CL!Attempt
  <2>2. cl'.at = [cl.at EXCEPT ![t] = end] /\ cl'.tries = [cl.tries EXCEPT ![t] = cl.tries[t] + 1]
        /\ cl'.known = cl.known /\ cl'.drained = cl.drained /\ DOMAIN cl' = DOMAIN cl
    BY Zenon, <2>1 DEF CL!Goes, CLInv, CLType
  <2>3. cl.at[t] = "running" /\ cl.tries[t] < Delays /\ cl.tries[t] \in Nat
    BY Zenon, <1>5 DEF CL!Attempt, CLInv, CLType, CLTries
  <2>4. /\ end \in {"done", "retry", "gaveUp"}
        /\ end = "retry" => cl.tries[t] + 1 < Delays
        /\ end = "gaveUp" => cl.tries[t] + 1 = Delays
    BY SMTT(40), <2>1, <2>3 DEF CL!CleanerAssumption
  <2>5. CLBusy' \subseteq CLBusy
    BY ZenonT(40), <2>2, <2>3 DEF CLBusy, CLInv, CLType
  <2>6. Cardinality(CLBusy)' <= CleanWorkers
    BY ZenonT(40), <2>5, CLFewer
  <2>7. CLType'
    BY SMTT(40), <2>2, <2>3, <2>4 DEF CLInv, CLType, CLPlaces
  <2>8. CLTries'
    BY SMTT(40), <2>2, <2>3, <2>4 DEF CLInv, CLType, CLTries
  <2>9. CLKnown'
    BY ZenonT(40), <2>2, <2>3, <2>4 DEF CLInv, CLType, CLKnown
  <2> QED
    BY SMTT(40), <2>6, <2>7, <2>8, <2>9 DEF CLInv
<1> QED
  BY ZenonT(40), <1>1, <1>2, <1>3, <1>4, <1>5

\* Drain and its end move no task.
LEMMA CLDrain ==
    ASSUME CL!CleanerAssumption, CLInv, CL!Drain \/ CL!DrainEnds
    PROVE  CLInv'
<1>1. cl'.at = cl.at /\ cl'.tries = cl.tries /\ cl'.known = cl.known /\ cl'.drained = cl.drained
      /\ DOMAIN cl' = DOMAIN cl
  BY Zenon DEF CL!Drain, CL!DrainEnds, CLInv, CLType
<1> QED
  BY Zenon, <1>1 DEF CLInv, CLType, CLTries, CLKnown, CLBusy

\* clean schedules a task where the runner has room.
LEMMA CLClean ==
    ASSUME CL!CleanerAssumption, CLInv, NEW t \in Tasks, CL!Clean(t)
    PROVE  CLInv'
<1>1. cl'.at = [cl.at EXCEPT ![t] = "running"] /\ cl'.tries = cl.tries /\ cl'.known = cl.known
      /\ cl'.drained = cl.drained /\ DOMAIN cl' = DOMAIN cl /\ cl.at[t] \in {"fired", "drained"}
  BY ZenonT(40) DEF CL!Clean, CL!CanClean, CL!Goes, CLInv, CLType
<1>2. CLType' /\ CLTries' /\ CLKnown'
  BY SMTT(40), <1>1 DEF CLInv, CLType, CLPlaces, CLTries, CLKnown
<1>3. CLBusy' = CLBusy \cup {t} /\ CLBusy \in SUBSET Tasks /\ IsFiniteSet(Tasks)
  BY SMTT(40), <1>1, CLSameCount DEF CLBusy, CL!CleanerAssumption, CLInv, CLType
<1>4. Cardinality(CLBusy) < CleanWorkers
  BY Zenon, CLSameCount DEF CL!Clean, CL!CanClean, CL!In, CLBusy
<1>5. Cardinality(CLBusy) \in Nat
      /\ Cardinality(CLBusy \cup {t})
            = IF t \in CLBusy THEN Cardinality(CLBusy) ELSE Cardinality(CLBusy) + 1
  BY ZenonT(40), <1>3, CountJoin
<1> QED
  BY SMTT(40), <1>2, <1>3, <1>4, <1>5 DEF CL!CleanerAssumption, CLInv

\* A Drain that cannot go on has failed tasks in all goroutines of clean's runner, and those of its
\* own wait for them.
LEMMA CLBlocked ==
    ASSUME CL!CleanerAssumption, CLInv, cl.loop = "drain", ~CL!DrainGoesOn
    PROVE  /\ CL!Cardinality(CL!In({"wheel", "drained", "retry"})) > DrainWorkers + CleanWorkers
           /\ CL!Cardinality(CL!In({"retry"})) = CleanWorkers
<1> DEFINE W == CL!In({"wheel"})
           D == CL!In({"drained"})
           R == CL!In({"retry"})
<1>1. IsFiniteSet(Tasks) /\ W \in SUBSET Tasks /\ D \in SUBSET Tasks /\ R \in SUBSET Tasks
  BY Zenon, CLSameCount DEF CL!In, CL!CleanerAssumption
<1>2. IsFiniteSet(W) /\ IsFiniteSet(D) /\ IsFiniteSet(R)
  BY ZenonT(40), <1>1, FS_Subset
<1>3. W # {} /\ ~(Cardinality(D) < DrainWorkers)
  BY Zenon, CLSameCount DEF CL!DrainGoesOn, CL!CanDrain, CL!In
<1>4. D # {}
  BY SMTT(40), <1>3, FS_EmptySet DEF CL!CleanerAssumption
<1>5. CLBusy = R
  BY Zenon DEF CL!DrainGoesOn, CLBusy, CL!In
<1>6. ~(Cardinality(R) < CleanWorkers)
  <2>1. PICK t \in Tasks : cl.at[t] = "drained"
    BY Zenon, <1>4 DEF CL!In
  <2>2. CL!In({"running", "retry"}) = R
    BY Zenon, <1>5 DEF CLBusy, CL!In
  <2> QED
    BY ZenonT(40), <2>1, <2>2, CLSameCount DEF CL!DrainGoesOn, CL!CanClean
<1>7. /\ W \cap D = {} /\ (W \cup D) \cap R = {}
      /\ CL!In({"wheel", "drained", "retry"}) = (W \cup D) \cup R
  BY Zenon DEF CL!In
<1> HIDE DEF W, D, R
<1>8. /\ Cardinality(W) \in Nat /\ Cardinality(D) \in Nat
      /\ Cardinality(W \cup D) = Cardinality(W) + Cardinality(D) /\ IsFiniteSet(W \cup D)
  BY ZenonT(40), <1>2, <1>7, CountUnion, FS_Union
<1>9. Cardinality(R) \in Nat
      /\ Cardinality((W \cup D) \cup R) = Cardinality(W \cup D) + Cardinality(R)
  BY ZenonT(40), <1>2, <1>7, <1>8, CountUnion
<1>10. Cardinality(W) > 0
  BY SMTT(40), <1>2, <1>3, <1>8, FS_EmptySet
<1>11. Cardinality(R) = CleanWorkers
  BY SMTT(40), <1>5, <1>6, <1>9 DEF CL!CleanerAssumption, CLInv
<1>12. Cardinality((W \cup D) \cup R) > DrainWorkers + CleanWorkers
  BY SMTT(40), <1>3, <1>8, <1>9, <1>10, <1>11 DEF CL!CleanerAssumption
<1> QED
  BY SMTT(40), <1>7, <1>11, <1>12, CLSameCount DEF R

\* A Drain gets to every task, unless failed tasks fill both task runners, and a task that fails is
\* tried after every delay, unless a Drain left its key behind.
OnlyDrainStopsTasks == CL!OnlyDrainStopsTasks

\* The delayed deletes go on until they succeed or their delays are used up, but for what a Drain
\* blocks, with more tasks than the runners have room for, or loses.
THEOREM TasksGoOn ==
    ASSUME CL!CleanerAssumption
    PROVE  CL!Spec => []OnlyDrainStopsTasks
<1>1. CLInv /\ [CL!Next]_cl => CLInv'
  <2> SUFFICES ASSUME CLInv, [CL!Next]_cl PROVE CLInv'
    OBVIOUS
  <2>1. CASE UNCHANGED cl
    BY Zenon, <2>1 DEF CLInv, CLType, CLTries, CLKnown, CLBusy
  <2> QED
    BY ZenonT(40), <2>1, CLDrain, CLOthers, CLClean DEF CL!Next
<1>2. CL!Init => CLInv
  BY Zenon, CLInit
<1>3. CLInv => CL!OnlyDrainStopsTasks
  <2> SUFFICES ASSUME CLInv PROVE CL!OnlyFullPoolsBlockDrain /\ CL!OnlyDrainLosesRetries
    BY Zenon DEF CL!OnlyDrainStopsTasks
  <2>1. CL!OnlyFullPoolsBlockDrain
    BY Zenon, CLBlocked DEF CL!OnlyFullPoolsBlockDrain
  <2>2. CL!OnlyDrainLosesRetries
    BY ZenonT(40) DEF CLInv, CLTries, CLKnown, CL!OnlyDrainLosesRetries
  <2> QED
    BY ZenonT(40), <2>1, <2>2
<1> QED
  BY <1>1, <1>2, <1>3, PTL DEF OnlyDrainStopsTasks, CL!Spec
-----------------------------------------------------------------------------
\* The sessions of core/stores/mongo/model.go, for any number of callers and any limit.

MS == INSTANCE MongoSessions

\* Cardinality and IsFiniteSet are those of the part.
LEMMA MSSameCount ==
    ASSUME NEW S
    PROVE  MS!Cardinality(S) = Cardinality(S) /\ MS!IsFiniteSet(S) = IsFiniteSet(S)
  BY DEF Cardinality, MS!Cardinality, IsFiniteSet, MS!IsFiniteSet

MSPlaces == {"idle", "taken", "put", "close", "holds", "session"}
MSType ==
    /\ DOMAIN ms = {"pc", "kind", "tokens", "open", "broken", "driver"}
    /\ ms.pc \in [Callers -> MSPlaces] /\ ms.kind \in [Callers -> {"none", "query", "execute"}]
    /\ ms.tokens \in Nat /\ ms.open \in SUBSET Callers

\* The callers between TakeSession and the Return of their token.
MSHolders == {c \in Callers : ms.pc[c] \in {"taken", "put"}}

\* The tokens are counted, and a caller's copy is open from take to close: neither follows from
\* the other, for the token comes back before the copy is closed.
MSInv ==
    /\ MSType /\ MS!SessionEndsWithItsMethod
    /\ ms.tokens = Cardinality(MSHolders) /\ ms.tokens <= Limit

\* Nobody has a session at first.
LEMMA MSInit ==
    ASSUME MS!MongoSessionsAssumption, MS!Init
    PROVE  MSInv
<1>1. MSHolders = {}
  BY Zenon DEF MS!Init, MSHolders
<1> QED
  BY SMTT(40), <1>1, FS_EmptySet
  DEF MS!MongoSessionsAssumption, MS!Init, MSInv, MSType, MSPlaces, MS!SessionEndsWithItsMethod

\* A step that takes c from a place to one where it counts as much, and leaves the rest alone.
LEMMA MSMoves ==
    ASSUME MS!MongoSessionsAssumption, MSInv, NEW c \in Callers, NEW l \in MSPlaces,
           DOMAIN ms' = DOMAIN ms, ms'.kind = ms.kind, ms'.tokens = ms.tokens, ms'.open = ms.open,
           ms'.pc = [ms.pc EXCEPT ![c] = l],
           ms.pc[c] \in {"taken", "put"} <=> l \in {"taken", "put"},
           ms.pc[c] = "close" <=> l = "close"
    PROVE  MSInv'
<1>1. MSType' /\ MSHolders' = MSHolders
  BY DEF MSInv, MSType, MSHolders
<1>2. MS!SessionEndsWithItsMethod'
  BY ZenonT(40) DEF MSInv, MSType, MS!SessionEndsWithItsMethod
<1> QED
  BY ZenonT(40), <1>1, <1>2 DEF MSInv

\* TakeSession: one token and one open copy more, or neither.
LEMMA MSTakes ==
    ASSUME MS!MongoSessionsAssumption, MSInv, NEW c \in Callers, NEW m, MS!TakeSession(c, m)
    PROVE  MSInv'
<1>1. CASE ms' = ms
  BY ZenonT(40), <1>1 DEF MSInv, MSType, MSHolders, MS!SessionEndsWithItsMethod
<1>2. CASE /\ ms.tokens < Limit
           /\ ms' = [ms EXCEPT !.pc[c] = "taken", !.kind[c] = MS!Kind(m), !.tokens = @ + 1,
                               !.open = @ \cup {c}]
  <2>1. PICK k \in {"query", "execute"} : k = MS!Kind(m)
    BY Zenon DEF MS!Kind
  <2>2. /\ MSType' /\ ms'.tokens = ms.tokens + 1 /\ ms.tokens < Limit
        /\ ms'.open = ms.open \cup {c}
        /\ ms.pc[c] = "idle" /\ ms'.pc = [ms.pc EXCEPT ![c] = "taken"]
    BY SMTT(40), <1>2, <2>1 DEF MSInv, MSType, MSPlaces, MS!TakeSession
  <2>3. MSHolders' = MSHolders \cup {c} /\ c \notin MSHolders
    BY ZenonT(40), <2>2 DEF MSInv, MSType, MSHolders
  <2>4. MS!SessionEndsWithItsMethod'
    BY ZenonT(40), <2>2 DEF MSInv, MSType, MS!SessionEndsWithItsMethod
  <2>5. IsFiniteSet(Callers) /\ MSHolders \in SUBSET Callers
    BY ZenonT(40), MSSameCount DEF MS!MongoSessionsAssumption, MSHolders
  <2>6. Cardinality(MSHolders \cup {c}) = Cardinality(MSHolders) + 1
    BY ZenonT(40), <2>3, <2>5, Count
  <2>7. ms'.tokens = Cardinality(MSHolders') /\ ms'.tokens <= Limit
    <3>1. ms.tokens = Cardinality(MSHolders) /\ ms.tokens \in Nat /\ Limit \in Nat
      BY Zenon DEF MSInv, MSType, MS!MongoSessionsAssumption
    <3>2. Cardinality(MSHolders') = Cardinality(MSHolders) + 1
      BY ZenonT(40), <2>3, <2>6
    <3> QED
      BY SMTT(40), <2>2, <3>1, <3>2
  <2> QED
    BY SMTT(40), <2>2, <2>4, <2>7 DEF MSInv
<1> QED
  BY Zenon, <1>1, <1>2 DEF MS!TakeSession

\* The Return of putSession: the token is back, the copy still open.
LEMMA MSReturns ==
    ASSUME MS!MongoSessionsAssumption, MSInv, NEW c \in Callers, MS!Return(c)
    PROVE  MSInv'
<1>1. IsFiniteSet(Callers) /\ MSHolders \in SUBSET Callers /\ c \in MSHolders
  BY Zenon, MSSameCount DEF MS!MongoSessionsAssumption, MSHolders, MS!Return
<1>2. /\ Cardinality(MSHolders \ {c}) = Cardinality(MSHolders) - 1
      /\ Cardinality(MSHolders \ {c}) \in Nat /\ Cardinality(MSHolders) \in Nat
  BY Zenon, <1>1, Count
<1>3. /\ MSType' /\ ms'.tokens = ms.tokens - 1 /\ ms'.open = ms.open
      /\ ms.pc[c] = "put" /\ ms'.pc = [ms.pc EXCEPT ![c] = "close"]
  BY Zenon, <1>2 DEF MSInv, MSType, MSPlaces, MS!Return
<1>4. MSHolders' = MSHolders \ {c}
  BY ZenonT(40), <1>3 DEF MSInv, MSType, MSHolders
<1>5. MS!SessionEndsWithItsMethod'
  BY <1>3 DEF MSInv, MSType, MS!SessionEndsWithItsMethod
<1> QED
  BY SMTT(40), <1>2, <1>3, <1>4, <1>5 DEF MSInv, MSType, MS!MongoSessionsAssumption

\* Close of the copy, with which the method ends.
LEMMA MSCloses ==
    ASSUME MS!MongoSessionsAssumption, MSInv, NEW c \in Callers, MS!Close(c)
    PROVE  MSInv'
<1>1. PICK l \in {"holds", "idle"} :
         /\ MSType' /\ ms'.tokens = ms.tokens /\ ms'.open = ms.open \ {c}
         /\ ms.pc[c] = "close" /\ ms'.pc = [ms.pc EXCEPT ![c] = l]
  BY Zenon DEF MSInv, MSType, MSPlaces, MS!Close
<1>2. MSHolders' = MSHolders
  BY Zenon, <1>1 DEF MSInv, MSType, MSHolders
<1>3. MS!SessionEndsWithItsMethod'
  BY Zenon, <1>1 DEF MSInv, MSType, MS!SessionEndsWithItsMethod
<1> QED
  BY ZenonT(40), <1>1, <1>2, <1>3 DEF MSInv

\* Not more sessions are open than the limit, and each is closed when its method has returned.
SessionsAreReturned == MS!SessionsAreReturned

\* Not more copies of the session are in use than the limit, a copy is open exactly while its method
\* runs, and the tokens are those of the callers that have one, for any number of callers.
THEOREM SessionsComeBack ==
    ASSUME MS!MongoSessionsAssumption
    PROVE  MS!Spec => []SessionsAreReturned
<1>1. MSInv /\ [MS!Next]_ms => MSInv'
  <2> SUFFICES ASSUME MSInv, [MS!Next]_ms PROVE MSInv'
    OBVIOUS
  <2>1. CASE UNCHANGED ms
    BY Zenon, <2>1 DEF MSInv, MSType, MSHolders, MS!SessionEndsWithItsMethod
  <2>2. CASE MS!Break
    BY Zenon, <2>2 DEF MS!Break, MSInv, MSType, MSHolders, MS!SessionEndsWithItsMethod
  <2>3. ASSUME NEW c \in Callers,
               MS!Run(c) \/ MS!UseQuery(c) \/ MS!StartSession(c) \/ MS!Transact(c) \/ MS!EndSession(c)
        PROVE  MSInv'
    <3>1. PICK l \in MSPlaces :
             /\ DOMAIN ms' = DOMAIN ms /\ ms'.kind = ms.kind /\ ms'.tokens = ms.tokens
             /\ ms'.open = ms.open /\ ms'.pc = [ms.pc EXCEPT ![c] = l]
             /\ ms.pc[c] \in {"taken", "put"} <=> l \in {"taken", "put"}
             /\ ms.pc[c] = "close" <=> l = "close"
      BY Zenon, <2>3 DEF MSInv, MSType, MSPlaces, MS!Run, MS!UseQuery, MS!StartSession, MS!Transact,
                  MS!EndSession, MS!Goes
    <3> QED
      BY Zenon, <3>1, MSMoves
  <2> QED
    BY SMTT(40), <2>1, <2>2, <2>3, MSTakes, MSReturns, MSCloses DEF MS!Next
<1>2. MSInv => MS!SessionsAreReturned
  <2> SUFFICES ASSUME MSInv PROVE MS!SessionsAreReturned
    OBVIOUS
  <2> DEFINE Closing == {c \in Callers : ms.pc[c] = "close"}
  <2>1. ms.open = MSHolders \cup Closing
    BY Zenon DEF MSInv, MS!SessionEndsWithItsMethod, MSHolders
  <2>2. IsFiniteSet(MSHolders) /\ IsFiniteSet(Closing)
    BY ZenonT(40), FS_Subset, MSSameCount DEF MS!MongoSessionsAssumption, MSHolders
  <2>3. Cardinality(ms.open) <= Cardinality(MSHolders) + Cardinality(Closing)
    BY SMTT(40), <2>1, <2>2, CountUnion
  <2>4. MS!SessionsAreLimited
    <3>1. Cardinality(ms.open) \in Nat /\ Cardinality(MSHolders) \in Nat
          /\ Cardinality(Closing) \in Nat
      BY SMTT(40), <2>1, <2>2, CountUnion
    <3>2. Cardinality(ms.open) <= Limit + Cardinality(Closing)
      BY SMTT(40), <2>3, <3>1 DEF MSInv, MS!MongoSessionsAssumption
    <3> QED
      BY ZenonT(40), <3>2, MSSameCount DEF MSInv, MS!SessionsAreLimited, MSHolders
  <2> QED
    BY Zenon, <2>4 DEF MSInv, MS!SessionsAreReturned
<1> QED
  BY <1>1, <1>2, MSInit, PTL DEF SessionsAreReturned, MS!Spec
=============================================================================
