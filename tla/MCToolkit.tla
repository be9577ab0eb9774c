------------------------------ MODULE MCToolkit ------------------------------
(***************************************************************************)
(* The parts of core that a program uses directly, each on a small         *)
(* instance: those of SyncProofs, with its properties, and those           *)
(* instantiated below.  subject says which part a behaviour is about; the  *)
(* others keep their initial state.                                        *)
(***************************************************************************)
EXTENDS SyncProofs, TLC

CONSTANTS
    Err,                \* an error
    Expirers,           \* goroutines in which the wheel of Cache executes
    n1, n2, n3,         \* nodes of ConsistentHash
    HashOf, Pipelines, Words, Mappings

VARIABLES
    subject,
    data, lru, armed, cPc, cKey, had, fresh, cResult, barrier, fetched, raced,  \* of Cache
    rw, ch, fx, kw                                      \* of the other parts

C  == INSTANCE Cache WITH Callers <- Two, Limit <- 1, pc <- cPc, key <- cKey, result <- cResult,
                          flight <- barrier
RW == INSTANCE RollingWindow WITH Size <- 3, Interval <- 2, MaxTime <- 12, MaxAdds <- 4,
                                  MaxDrift <- 1

\* The hashes of two replicas of each of three nodes, interleaved.
MCHashOf == n1 :> (0 :> 1 @@ 1 :> 4) @@ n2 :> (0 :> 2 @@ 1 :> 5) @@ n3 :> (0 :> 3 @@ 1 :> 0)
CH == INSTANCE ConsistentHash WITH Nodes <- {n1, n2, n3}, Callers <- Two, Replicas <- 2,
                                   Hashes <- 0..6, MaxAdds <- 3

\* Every operation of a stream before every terminal operation, and every two operations.
Operations == {"Buffer", "Concat", "Distinct", "Head", "Skip", "Split", "Tail", "Group", "Merge",
               "Reverse", "Sort", "Walk", "WalkUnlimited"}
Terminals  == {"First", "AnyMach", "AllMach", "NoneMatch", "ForAll", "Reduce", "Count", "Last",
               "ForEach"}
MCPipelines == {<<<<o>>, t>> : o \in Operations, t \in Terminals}
                 \cup {<<<<o, p>>, t>> : o, p \in Operations, t \in {"ForEach"}}
FX == INSTANCE Stream WITH Items <- <<3, 2, 1>>, Others <- <<5>>, Workers <- 1, N <- 2

\* One or two words over two characters; the substitutes are of another character, or not.
AllWords == UNION {[1..n -> {1, 2}] : n \in 1..3}
MCWords == {{v, w} : v, w \in AllWords}
MCMappings == {[w \in s |-> <<3>>] : s \in MCWords}
                \cup {<<1>> :> <<1, 1>>, <<1, 2>> :> <<3, 1>>, <<1>> :> <<>>}
KW == INSTANCE Keywords WITH Alphabet <- {1, 2}, MaxText <- 4, MaxGrown <- 7

\* The hashes of two elements: their locations differ in one of the two maps.
MCBloomHashes ==
    [e \in BloomElements |-> IF e = CHOOSE x \in BloomElements : TRUE THEN [i \in 0..1 |-> 3 * i]
                             ELSE [i \in 0..1 |-> 5 - 2 * i]]

ASSUME P!PoolAssumption /\ LockedCallsAssumption /\ SM!SafeMapAssumption
ASSUME TL!TimeoutLimitAssumption /\ BF!BloomAssumption

poolVars == <<idle, created, holding, waiting, woken>>
smVars == <<dirtyOld, dirtyNew, deletionOld, deletionNew>>
cVars == <<data, lru, armed, cPc, cKey, had, fresh, cResult, barrier, fetched, raced>>
all == <<subject, vars, poolVars, lockedVars, smVars, tl, bf, cVars, rw, ch, fx, kw>>

Subjects == {"SingleFlight", "Pool", "LockedCalls", "SafeMap", "Bloom", "TimeoutLimit",
             "Cache", "RollingWindow", "ConsistentHash", "Stream", "Keywords"}

MCInit ==
    /\ subject \in Subjects
    /\ Init /\ P!Init /\ LockedInit /\ SM!Init /\ BF!Init /\ TL!Init
    /\ C!Init /\ RW!Init /\ CH!Init /\ FX!Init /\ KW!Init

\* A step of subject s leaves the other parts alone.
Of(s) ==
    /\ UNCHANGED subject
    /\ IF s = "SingleFlight"      THEN TRUE ELSE UNCHANGED vars
    /\ IF s = "Pool"              THEN TRUE ELSE UNCHANGED poolVars
    /\ IF s = "LockedCalls"       THEN TRUE ELSE UNCHANGED lockedVars
    /\ IF s = "SafeMap"           THEN TRUE ELSE UNCHANGED smVars
    /\ IF s = "Bloom"             THEN TRUE ELSE UNCHANGED bf
    /\ IF s = "TimeoutLimit"      THEN TRUE ELSE UNCHANGED tl
    /\ IF s = "Cache"             THEN TRUE ELSE UNCHANGED cVars
    /\ IF s = "RollingWindow"     THEN TRUE ELSE UNCHANGED rw
    /\ IF s = "ConsistentHash"    THEN TRUE ELSE UNCHANGED ch
    /\ IF s = "Stream"            THEN TRUE ELSE UNCHANGED fx
    /\ IF s = "Keywords"          THEN TRUE ELSE UNCHANGED kw

MCNext ==
    \/ subject = "SingleFlight"      /\ Next    /\ Of("SingleFlight")
    \/ subject = "Pool"              /\ P!Next  /\ Of("Pool")
    \/ subject = "LockedCalls"       /\ LockedNext /\ Of("LockedCalls")
    \/ subject = "SafeMap"           /\ SM!Next /\ Of("SafeMap")
    \/ subject = "Bloom"             /\ BF!Next /\ Of("Bloom")
    \/ subject = "TimeoutLimit"      /\ TL!Next /\ Of("TimeoutLimit")
    \/ subject = "Cache"             /\ C!Next  /\ Of("Cache")
    \/ subject = "RollingWindow"     /\ RW!Next /\ Of("RollingWindow")
    \/ subject = "ConsistentHash"    /\ CH!Next /\ Of("ConsistentHash")
    \/ subject = "Stream"            /\ FX!Next /\ Of("Stream")
    \/ subject = "Keywords"          /\ KW!Next /\ Of("Keywords")

\* The fairness of the parts that have a liveness property, see their FairSpec.
MCSpec ==
    /\ MCInit /\ [][MCNext]_all
    /\ \A c \in Callers : WF_vars(subject = "SingleFlight" /\ Step(c))
    /\ \A c \in Two : WF_cVars(subject = "Cache" /\ C!CallerStep(c))
    /\ \A e \in Expirers : WF_cVars(subject = "Cache" /\ C!ExpirerStep(e))
    /\ \A i \in 1..FX!MaxLength : WF_fx(subject = "Stream" /\ FX!Step(i))
    /\ WF_kw(subject = "Keywords" /\ KW!Step)
-----------------------------------------------------------------------------
\* The type invariant of the part.
MCTypeOK ==
    CASE subject = "SingleFlight"        -> TypeOK
      [] subject = "Pool"                -> P!TypeOK
      [] subject = "LockedCalls"         -> LockedTypeOK
      [] subject = "SafeMap"             -> SM!TypeOK
      [] subject = "Bloom"               -> BF!TypeOK
      [] subject = "TimeoutLimit"        -> TL!TypeOK
      [] subject = "Cache"               -> C!TypeOK
      [] subject = "RollingWindow"       -> RW!TypeOK
      [] subject = "ConsistentHash"      -> CH!TypeOK
      [] subject = "Stream"              -> FX!TypeOK
      [] subject = "Keywords"            -> KW!TypeOK

\* Cache: data, LRU list and statistics agree, and data without a timer comes from a Set between the
\* two halves of a Del only.
CacheKeepsTrack == subject = "Cache" => C!CacheKeepsTrack

\* RollingWindow: Reduce sees all that was added in the last intervals, once, and nothing older, but
\* for slips of the clock within updateOffset; IgnoreCurrentBucket leaves out the current interval.
ReduceSeesTheWindow == subject = "RollingWindow" => RW!ReduceSeesTheWindow

\* ConsistentHash: every virtual node has its key, unless two updates of a node overlapped; adding a
\* node moves values to that node only, and removing one only its own.
NodesKeepTheirValues == CH!NodesKeepTheirValues

\* Stream: the answer of a pipeline is one that the meaning of its stages allows, whatever
\* the interleaving of their goroutines.
StreamAnswers == subject = "Stream" => FX!StreamAnswers

\* Trie and Replacer: every word is found at every place, and a text without words comes out as it
\* is.
MatchesAreExact == subject = "Keywords" => KW!MatchesAreExact

\* Calls come to their end.  SingleFlight and Cache: whoever joined an execution returns.  Stream:
\* every goroutine of a pipeline ends, but for Reduce.  Replacer: Replace returns, when no substitute
\* can be part of a word.
CallsReturn ==
    /\ subject = "SingleFlight" => WaitersReturn
    /\ subject = "Cache"        => C!TakesReturn
    /\ subject = "Stream"       => FX!StreamIsDrained
    /\ subject = "Keywords"     => KW!OnlyWordsInSubstitutesLoop
=============================================================================
