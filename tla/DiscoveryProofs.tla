--------------------------- MODULE DiscoveryProofs ---------------------------
(***************************************************************************)
(* Discovery of services through etcd, and proofs for every value of its   *)
(* constants: Registry, for the subscribers, and Publisher.                *)
(***************************************************************************)
EXTENDS Naturals, Sequences, TLAPS

CONSTANTS
    Subs, Exclusive, Reloader, Keys, Values, Unset,           \* of Registry
    \* the parameters of the parts, and their bounds
    MaxChanges, MaxBreaks,
    MaxLeases, MaxPublisherPauses, MaxEtcdErrors

VARIABLES rg, pb
-----------------------------------------------------------------------------
\* The subscribers of a prefix (Registry.tla), for any subscribers, keys and values.  What is known of
\* a key is what etcd has, or a process has yet to see a change of it; what a subscriber holds is what
\* is known, or a process has yet to tell it.

RG == INSTANCE Registry WITH ExclusiveSubs <- Exclusive, Nil <- Unset

RGPairs      == [Keys -> Values \cup {Unset}]
RGContainers == [mapping : RGPairs, held : [Values -> SUBSET Keys]]

RGType ==
    /\ DOMAIN rg = {"log", "etcd", "values", "listeners", "reload", "breaks", "pc", "from", "seen",
                    "calls", "to", "items", "changed", "raced"}
    /\ rg.log \in Seq(Keys \X (Values \cup {Unset}))
    /\ rg.etcd \in RGPairs /\ rg.values \in RGPairs
    /\ rg.listeners \subseteq Subs
    /\ rg.reload \in {"idle", "wait"}
    /\ rg.pc \in [RG!Procs -> {"new", "register", "get", "load", "watch", "rewatch", "stream",
                               "listeners", "apply", "off"}]
    /\ rg.from \in [RG!Procs -> Nat]
    /\ rg.seen \in [RG!Procs -> RGPairs]
    /\ rg.calls \in [RG!Procs -> [add : SUBSET (Keys \X Values), remove : SUBSET Keys]]
    /\ rg.to \in [RG!Procs -> SUBSET Subs]
    /\ rg.items \in [Subs -> RGContainers]

\* Where the processes are, and whom they call.
RGPlaces ==
    /\ rg.pc[Reloader] \notin {"new", "register"}
    /\ \A s \in RG!Procs :
        /\ rg.from[s] <= Len(rg.log)
        /\ rg.pc[s] \in {"listeners", "apply"} => rg.from[s] < Len(rg.log)
        /\ rg.pc[s] \notin {"register", "watch", "stream"} => rg.calls[s] = RG!NoCalls
        /\ \A t \in rg.to[s] : rg.pc[t] # "new"
    /\ \A t \in rg.listeners : rg.pc[t] # "new"
    /\ \A t \in Subs : rg.pc[t] = "new" => rg.items[t].mapping = RG!None

RGOK == RGType /\ RGPlaces

\* The log ends in what etcd has, and a load has seen that if nothing has changed since.
RGLog ==
    \A n \in 1..Len(rg.log) :
        (\A j \in (n + 1)..Len(rg.log) : rg.log[j][1] # rg.log[n][1])
            => rg.etcd[rg.log[n][1]] = rg.log[n][2]

RGSeen ==
    \A s \in RG!Procs :
        rg.pc[s] = "load" /\ rg.from[s] = Len(rg.log) => rg.seen[s] = rg.etcd

\* A process that loads or watches, and one that has yet to see a change of key k.
RGWorking == {"get", "load", "watch", "rewatch", "stream", "listeners", "apply"}

RGBehind(s, k) ==
    \/ rg.pc[s] \in {"get", "load"}
    \/ rg.pc[s] \in {"watch", "rewatch"} /\ rg.from[s] < Len(rg.log)
    \/ /\ rg.pc[s] \in {"stream", "listeners", "apply"}
       /\ \E n \in (rg.from[s] + 1)..Len(rg.log) : rg.log[n][1] = k

RGCovered == rg.reload = "idle" /\ rg.listeners # {}

RGWatched == RGCovered => \E s \in RG!Procs : rg.pc[s] \in RGWorking

RGTracks ==
    RGCovered /\ ~rg.raced
        => \A k \in Keys : rg.values[k] = rg.etcd[k] \/ \E s \in RG!Procs : RGBehind(s, k)

RGKnown == RGLog /\ RGSeen /\ RGWatched /\ RGTracks

\* The two maps of a container agree, and an exclusive one has one key for a value.
RGMatch(c) == \A v \in Values : c.held[v] = {k \in Keys : c.mapping[k] = v}
RGOne(c)   == \A v \in Values : \A j, k \in c.held[v] : j = k

RGHeld ==
    ~rg.changed => /\ \A t \in Subs : RGMatch(rg.items[t])
                   /\ \A t \in Exclusive : RGOne(rg.items[t])

\* What process s still has to tell subscriber t of key k.
RGTells(s, t, k) ==
    t \in rg.to[s] /\ (<<k, rg.values[k]>> \in rg.calls[s].add \/ k \in rg.calls[s].remove)

\* A process announces what is known.  It withdraws what is not known any more; a key that it has to
\* withdraw and that has a value now is announced with that value first, to a subscriber that has
\* another one.
RGCalls ==
    \A s \in RG!Procs :
        /\ \A p \in rg.calls[s].add : rg.values[p[1]] = p[2]
        /\ \A t \in rg.to[s] \ Exclusive, k \in rg.calls[s].remove :
               rg.values[k] = Unset \/ (/\ <<k, rg.values[k]>> \in rg.calls[s].add
                                      /\ rg.items[t].mapping[k] \notin {Unset, rg.values[k]})

RGTold ==
    \A t \in Subs \ Exclusive, k \in Keys :
        rg.pc[t] # "new"
            => rg.items[t].mapping[k] = rg.values[k] \/ \E s \in RG!Procs : RGTells(s, t, k)

RGListened == ~rg.raced /\ ~rg.changed => RGCalls /\ RGTold

RGInv == RGOK /\ RGKnown /\ RGHeld /\ RGListened

\* Nothing is known, nobody listens and all containers are empty at first.
LEMMA RGInit ==
    ASSUME RG!RegistryAssumption, RG!Init
    PROVE  RGInv
<1>1. /\ rg.log = <<>> /\ rg.etcd = RG!None /\ rg.values = RG!None /\ rg.listeners = {}
      /\ rg.reload = "idle"
      /\ rg.pc = [s \in RG!Procs |-> IF s = Reloader THEN "off" ELSE "new"]
      /\ rg.from = [s \in RG!Procs |-> 0] /\ rg.seen = [s \in RG!Procs |-> RG!None]
      /\ rg.calls = [s \in RG!Procs |-> RG!NoCalls] /\ rg.to = [s \in RG!Procs |-> {}]
      /\ rg.items = [s \in Subs |-> [mapping |-> RG!None, held |-> [v \in Values |-> {}]]]
  BY Zenon DEF RG!Init
<1>2. RG!None \in RGPairs /\ \A k \in Keys : RG!None[k] = Unset
  BY Zenon DEF RG!None, RGPairs
<1>3. RGType
  <2>1. DOMAIN rg = {"log", "etcd", "values", "listeners", "reload", "breaks", "pc", "from", "seen",
                     "calls", "to", "items", "changed", "raced"}
    BY Zenon DEF RG!Init
  <2>2. RG!NoCalls \in [add : SUBSET (Keys \X Values), remove : SUBSET Keys]
    BY Zenon DEF RG!NoCalls
  <2>3. [mapping |-> RG!None, held |-> [v \in Values |-> {}]] \in RGContainers
    BY Zenon, <1>2 DEF RGContainers
  <2> QED
    BY <1>1, <1>2, <2>1, <2>2, <2>3 DEF RGType
<1>4. RGPlaces
  BY <1>1 DEF RGPlaces, RG!Procs, RG!RegistryAssumption
<1>5. RGKnown
  BY <1>1 DEF RGKnown, RGLog, RGSeen, RGWatched, RGTracks, RGCovered
<1>6. RGHeld
  BY <1>1, <1>2 DEF RGHeld, RGMatch, RGOne, RG!RegistryAssumption
<1>7. RGListened
  BY <1>1 DEF RGListened, RGCalls, RGTold, RG!NoCalls, RG!Procs, RG!RegistryAssumption
<1> QED
  BY Zenon, <1>3, <1>4, <1>5, <1>6, <1>7 DEF RGInv, RGOK
-----------------------------------------------------------------------------
\* What is known and what has been told does not change when a process without calls moves on, or
\* takes other subscribers to call next.
LEMMA RGSameTold ==
    ASSUME RGInv, rg'.values = rg.values, rg'.items = rg.items, rg'.changed = rg.changed,
           ~rg'.raced => ~rg.raced,
           \A t \in Subs : rg'.pc[t] # "new" => rg.pc[t] # "new",
           \A s \in RG!Procs : /\ rg'.calls[s] = rg.calls[s]
                               /\ rg'.to[s] = rg.to[s] \/ rg.calls[s] = RG!NoCalls
    PROVE  RGHeld' /\ RGListened'
<1>1. RGHeld'
  BY DEF RGInv, RGHeld, RGMatch, RGOne
<1>2. ASSUME ~rg'.raced, ~rg'.changed PROVE RGCalls' /\ RGTold'
  <2>1. RGCalls /\ RGTold
    BY Zenon, <1>2 DEF RGInv, RGListened
  <2>2. RGCalls'
    BY <2>1 DEF RGCalls, RG!NoCalls
  <2>3. ASSUME NEW t \in Subs, NEW k \in Keys, NEW s \in RG!Procs, RGTells(s, t, k)
        PROVE  RGTells(s, t, k)'
    BY <2>3 DEF RGTells, RG!NoCalls
  <2>4. RGTold'
    BY Zenon, <2>1, <2>3 DEF RGTold
  <2> QED
    BY Zenon, <2>2, <2>4
<1> QED
  BY Zenon, <1>1, <1>2 DEF RGListened

\* What etcd, the loads and the watches have is unchanged when a process moves on among the places
\* that mean the same for it.
LEMMA RGSameKnown ==
    ASSUME RGInv, rg'.values = rg.values, rg'.etcd = rg.etcd, rg'.log = rg.log,
           rg'.from = rg.from, rg'.seen = rg.seen, rg'.listeners = rg.listeners,
           rg'.reload = rg.reload, ~rg'.raced => ~rg.raced,
           \A s \in RG!Procs :
               /\ rg'.pc[s] = "load" => rg.pc[s] = "load"
               /\ rg.pc[s] \in RGWorking => rg'.pc[s] \in RGWorking
               /\ rg.pc[s] \in {"get", "load"} => rg'.pc[s] \in {"get", "load"}
               /\ rg.pc[s] \in {"watch", "rewatch"} => rg'.pc[s] \in {"watch", "rewatch"}
               /\ rg.pc[s] \in {"stream", "listeners", "apply"}
                    => rg'.pc[s] \in {"stream", "listeners", "apply"}
    PROVE  RGKnown'
<1>1. RGLog' /\ RGSeen' /\ RGWatched'
  BY DEF RGInv, RGKnown, RGLog, RGSeen, RGWatched, RGCovered
<1>2. ASSUME NEW s \in RG!Procs, NEW k \in Keys, RGBehind(s, k) PROVE RGBehind(s, k)'
  BY Zenon, <1>2 DEF RGBehind
<1>3. RGTracks'
  BY Zenon, <1>2 DEF RGInv, RGKnown, RGTracks, RGCovered
<1> QED
  BY Zenon, <1>1, <1>3 DEF RGKnown

\* A change in etcd: every process that loads or watches has yet to see it.
LEMMA RGEtcdChange ==
    ASSUME RGInv, NEW k \in Keys, NEW v \in Values \cup {Unset}, RG!EtcdChange(k, v)
    PROVE  RGInv'
<1>1. /\ rg'.etcd = [rg.etcd EXCEPT ![k] = v] /\ rg'.log = Append(rg.log, <<k, v>>)
      /\ rg'.values = rg.values /\ rg'.listeners = rg.listeners /\ rg'.reload = rg.reload
      /\ rg'.pc = rg.pc /\ rg'.from = rg.from /\ rg'.seen = rg.seen /\ rg'.calls = rg.calls
      /\ rg'.to = rg.to /\ rg'.items = rg.items /\ rg'.changed = rg.changed
      /\ rg'.raced = rg.raced /\ DOMAIN rg' = DOMAIN rg
  BY Zenon DEF RG!EtcdChange, RGInv, RGOK, RGType
<1>2. RGType
  BY Zenon DEF RGInv, RGOK
<1>3. /\ Len(rg.log) \in Nat /\ Len(rg'.log) = Len(rg.log) + 1
      /\ rg'.log[Len(rg.log) + 1] = <<k, v>>
      /\ \A n \in 1..Len(rg.log) : rg'.log[n] = rg.log[n] /\ rg.log[n][1] \in Keys
      /\ rg'.log \in Seq(Keys \X (Values \cup {Unset}))
  BY <1>1, <1>2 DEF RGType
<1>4. RGType'
  BY <1>1, <1>2, <1>3 DEF RGType, RGPairs
<1>5. RGPlaces'
  BY <1>1, <1>3 DEF RGInv, RGOK, RGPlaces, RGType
<1>6. RGHeld' /\ RGListened'
  BY Zenon, <1>1, RGSameTold
<1>7. RGLog'
  <2> SUFFICES ASSUME NEW n \in 1..Len(rg'.log),
                      \A j \in (n + 1)..Len(rg'.log) : rg'.log[j][1] # rg'.log[n][1]
               PROVE  rg'.etcd[rg'.log[n][1]] = rg'.log[n][2]
    BY Zenon DEF RGLog
  <2>1. CASE n = Len(rg.log) + 1
    BY <1>1, <1>2, <1>3, <2>1 DEF RGType, RGPairs
  <2>2. CASE n \in 1..Len(rg.log)
    <3>1. rg.log[n][1] # k
      <4>1. Len(rg.log) + 1 \in (n + 1)..Len(rg'.log) /\ rg'.log[n] = rg.log[n]
        BY <1>3, <2>2
      <4>2. rg'.log[Len(rg.log) + 1][1] = k
        BY <1>3
      <4> QED
        BY Zenon, <4>1, <4>2
    <3>2. ASSUME NEW j \in (n + 1)..Len(rg.log) PROVE rg.log[j][1] # rg.log[n][1]
      <4>1. /\ j \in 1..Len(rg.log) /\ j \in (n + 1)..Len(rg'.log)
        BY <1>3, <2>2
      <4>2. rg'.log[j] = rg.log[j] /\ rg'.log[n] = rg.log[n]
        BY Zenon, <1>3, <2>2, <4>1
      <4> QED
        BY Zenon, <4>1, <4>2
    <3>3. rg.etcd[rg.log[n][1]] = rg.log[n][2]
      BY Zenon, <2>2, <3>2 DEF RGInv, RGKnown, RGLog
    <3> QED
      BY <1>1, <1>2, <1>3, <2>2, <3>1, <3>3 DEF RGType, RGPairs
  <2> QED
    BY <1>3, <2>1, <2>2
<1>8. RGSeen' /\ RGWatched'
  BY <1>1, <1>3 DEF RGInv, RGOK, RGPlaces, RGType, RGKnown, RGSeen, RGWatched, RGCovered
<1>9. ASSUME NEW s \in RG!Procs, NEW j \in Keys, RGBehind(s, j) PROVE RGBehind(s, j)'
  BY <1>1, <1>2, <1>3, <1>9 DEF RGBehind, RGType
<1>10. ASSUME NEW s \in RG!Procs, rg.pc[s] \in RGWorking PROVE RGBehind(s, k)'
  <2>1. rg.from[s] \in Nat /\ rg.from[s] <= Len(rg.log)
    BY Zenon DEF RGInv, RGOK, RGPlaces, RGType
  <2>2. Len(rg.log) + 1 \in (rg'.from[s] + 1)..Len(rg'.log) /\ rg'.log[Len(rg.log) + 1][1] = k
    BY <1>1, <1>3, <2>1
  <2> QED
    BY <1>1, <1>3, <1>10, <2>1, <2>2 DEF RGBehind, RGWorking
<1>11. RGTracks'
  <2> SUFFICES ASSUME RGCovered, ~rg.raced, NEW j \in Keys
               PROVE  rg'.values[j] = rg'.etcd[j] \/ \E s \in RG!Procs : RGBehind(s, j)'
    BY Zenon, <1>1 DEF RGTracks, RGCovered
  <2>1. CASE j = k
    BY Zenon, <1>10, <2>1 DEF RGInv, RGKnown, RGWatched
  <2>2. CASE j # k
    <3>1. rg'.values[j] = rg.values[j] /\ rg'.etcd[j] = rg.etcd[j]
      BY Zenon, <1>1, <1>2, <2>2 DEF RGType, RGPairs
    <3> QED
      BY Zenon, <1>9, <3>1 DEF RGInv, RGKnown, RGTracks
  <2> QED
    BY Zenon, <2>1, <2>2
<1> QED
  BY Zenon, <1>4, <1>5, <1>6, <1>7, <1>8, <1>11 DEF RGInv, RGOK, RGKnown
-----------------------------------------------------------------------------
\* Monitor: the new subscriber is empty, and is to be told all that is known.
LEMMA RGMonitor ==
    ASSUME RG!RegistryAssumption, RGInv, NEW s \in RG!Procs, RG!Monitor(s)
    PROVE  RGInv'
<1>1. /\ rg.pc[s] = "new" /\ s \in Subs /\ rg.calls[s] = RG!NoCalls
      /\ rg'.pc = [rg.pc EXCEPT ![s] = "register"] /\ rg'.to = [rg.to EXCEPT ![s] = {s}]
      /\ rg'.calls = [rg.calls EXCEPT ![s] = [add |-> RG!Pairs(rg.values), remove |-> {}]]
      /\ rg'.etcd = rg.etcd /\ rg'.log = rg.log /\ rg'.values = rg.values
      /\ rg'.listeners = rg.listeners /\ rg'.reload = rg.reload
      /\ rg'.from = rg.from /\ rg'.seen = rg.seen
      /\ rg'.items = rg.items /\ rg'.changed = rg.changed
      /\ rg'.raced = rg.raced /\ DOMAIN rg' = DOMAIN rg
  BY Zenon DEF RG!Monitor, RG!At, RG!Procs, RGInv, RGOK, RGType, RGPlaces
<1>2. RGType
  BY Zenon DEF RGInv, RGOK
<1>3. /\ RG!Pairs(rg.values) \subseteq Keys \X Values
      /\ \A p \in RG!Pairs(rg.values) : rg.values[p[1]] = p[2]
      /\ \A k \in Keys : rg.values[k] # Unset => <<k, rg.values[k]>> \in RG!Pairs(rg.values)
  BY <1>2 DEF RG!Pairs, RGType, RGPairs
<1>4. RGType'
  BY <1>1, <1>2, <1>3 DEF RGType
<1>5. \A t \in RG!Procs : t # s => /\ rg'.pc[t] = rg.pc[t] /\ rg'.calls[t] = rg.calls[t]
                                   /\ rg'.to[t] = rg.to[t]
  BY <1>1, <1>2 DEF RGType
<1>6. /\ rg'.pc[s] = "register" /\ rg'.to[s] = {s} /\ rg'.calls[s].add = RG!Pairs(rg.values)
      /\ rg'.calls[s].remove = {}
  BY <1>1, <1>2 DEF RGType
<1>7. RGPlaces'
  BY <1>1, <1>5, <1>6 DEF RGInv, RGOK, RGPlaces, RGType, RG!Procs, RG!RegistryAssumption
<1>8. RGKnown'
  BY Zenon, <1>1, <1>5, <1>6, RGSameKnown DEF RGWorking
<1>9. RGHeld'
  BY <1>1 DEF RGInv, RGHeld, RGMatch, RGOne
<1>10. ASSUME ~rg'.raced, ~rg'.changed PROVE RGCalls' /\ RGTold'
  <2>1. RGCalls /\ RGTold
    BY Zenon, <1>1, <1>10 DEF RGInv, RGListened
  <2>2. RGCalls'
    BY <1>1, <1>3, <1>5, <1>6, <2>1 DEF RGCalls
  <2>3. ASSUME NEW t \in Subs, NEW k \in Keys, NEW u \in RG!Procs, RGTells(u, t, k)
        PROVE  RGTells(u, t, k)'
    <3>1. u # s
      BY <1>1, <2>3 DEF RGTells, RG!NoCalls
    <3> QED
      BY Zenon, <1>1, <1>5, <2>3, <3>1 DEF RGTells
  <2>4. ASSUME NEW k \in Keys
        PROVE  rg'.items[s].mapping[k] = rg'.values[k] \/ RGTells(s, s, k)'
    <3>1. rg.items[s].mapping[k] = Unset
      BY <1>1 DEF RGInv, RGOK, RGPlaces, RG!None
    <3> QED
      BY <1>1, <1>3, <1>6, <3>1 DEF RGTells
  <2>5. RGTold'
    <3> SUFFICES ASSUME NEW t \in Subs \ Exclusive, NEW k \in Keys, rg'.pc[t] # "new"
                 PROVE  \/ rg'.items[t].mapping[k] = rg'.values[k]
                        \/ \E u \in RG!Procs : RGTells(u, t, k)'
      BY Zenon DEF RGTold
    <3>1. CASE t = s
      BY Zenon, <2>4, <3>1
    <3>2. CASE t # s
      <4>1. rg.pc[t] # "new"
        BY Zenon, <1>5, <3>2 DEF RG!Procs
      <4> QED
        BY Zenon, <1>1, <2>1, <2>3, <4>1 DEF RGTold
    <3> QED
      BY Zenon, <3>1, <3>2
  <2> QED
    BY Zenon, <2>2, <2>5
<1> QED
  BY Zenon, <1>4, <1>7, <1>8, <1>9, <1>10 DEF RGInv, RGOK, RGListened

\* A listener more, whose process is going to load.
LEMMA RGRegister ==
    ASSUME RGInv, NEW s \in RG!Procs, RG!Register(s)
    PROVE  RGInv'
<1>1. /\ rg.pc[s] = "register" /\ s \in Subs /\ rg.calls[s] = RG!NoCalls
      /\ rg'.pc = [rg.pc EXCEPT ![s] = "get"] /\ rg'.to = [rg.to EXCEPT ![s] = {}]
      /\ rg'.listeners = rg.listeners \cup {s}
      /\ rg'.etcd = rg.etcd /\ rg'.log = rg.log /\ rg'.values = rg.values
      /\ rg'.calls = rg.calls /\ rg'.reload = rg.reload
      /\ rg'.from = rg.from /\ rg'.seen = rg.seen
      /\ rg'.items = rg.items /\ rg'.changed = rg.changed
      /\ rg'.raced = rg.raced /\ DOMAIN rg' = DOMAIN rg
  BY Zenon DEF RG!Register, RG!At, RG!Idle, RG!Procs, RGInv, RGOK, RGType, RGPlaces
<1>2. RGType
  BY Zenon DEF RGInv, RGOK
<1>3. RGType'
  BY <1>1, <1>2 DEF RGType
<1>4. /\ \A t \in RG!Procs : t # s => rg'.pc[t] = rg.pc[t] /\ rg'.to[t] = rg.to[t]
      /\ rg'.pc[s] = "get" /\ rg'.to[s] = {}
  BY <1>1, <1>2 DEF RGType
<1>5. RGPlaces'
  BY <1>1, <1>4 DEF RGInv, RGOK, RGPlaces, RGType, RG!Procs
<1>6. RGHeld' /\ RGListened'
  BY Zenon, <1>1, <1>4, RGSameTold DEF RG!Procs
<1>7. RGLog' /\ RGSeen'
  BY <1>1, <1>4 DEF RGInv, RGKnown, RGLog, RGSeen
<1>8. RGWatched' /\ RGTracks'
  BY Zenon, <1>4 DEF RGWatched, RGTracks, RGBehind, RGWorking
<1> QED
  BY Zenon, <1>3, <1>5, <1>6, <1>7, <1>8 DEF RGInv, RGOK, RGKnown

\* A load has seen what etcd has.
LEMMA RGGet ==
    ASSUME RGInv, NEW s \in RG!Procs, RG!Get(s)
    PROVE  RGInv'
<1>1. /\ rg.pc[s] = "get" /\ rg'.pc = [rg.pc EXCEPT ![s] = "load"]
      /\ rg'.seen = [rg.seen EXCEPT ![s] = rg.etcd]
      /\ rg'.from = [rg.from EXCEPT ![s] = Len(rg.log)]
      /\ rg'.etcd = rg.etcd /\ rg'.log = rg.log /\ rg'.values = rg.values
      /\ rg'.listeners = rg.listeners /\ rg'.reload = rg.reload
      /\ rg'.calls = rg.calls /\ rg'.to = rg.to
      /\ rg'.items = rg.items /\ rg'.changed = rg.changed
      /\ rg'.raced = rg.raced /\ DOMAIN rg' = DOMAIN rg
  BY Zenon DEF RG!Get, RG!At, RGInv, RGOK, RGType
<1>2. RGType /\ Len(rg.log) \in Nat
  BY DEF RGInv, RGOK, RGType
<1>3. RGType'
  BY <1>1, <1>2 DEF RGType
<1>4. /\ \A t \in RG!Procs : t # s => /\ rg'.pc[t] = rg.pc[t] /\ rg'.from[t] = rg.from[t]
                                      /\ rg'.seen[t] = rg.seen[t]
      /\ rg'.pc[s] = "load" /\ rg'.from[s] = Len(rg.log) /\ rg'.seen[s] = rg.etcd
  BY <1>1, <1>2 DEF RGType
<1>5. RGPlaces'
  BY <1>1, <1>2, <1>4 DEF RGInv, RGOK, RGPlaces, RGType, RG!Procs
<1>6. RGHeld' /\ RGListened'
  BY Zenon, <1>1, <1>4, RGSameTold DEF RG!Procs
<1>7. RGLog' /\ RGSeen'
  BY <1>1, <1>4 DEF RGInv, RGKnown, RGLog, RGSeen
<1>8. RGWatched' /\ RGTracks'
  BY Zenon, <1>4 DEF RGWatched, RGTracks, RGBehind, RGWorking
<1> QED
  BY <1>3, <1>5, <1>6, <1>7, <1>8 DEF RGInv, RGOK, RGKnown

\* Nobody calls and every subscriber is among those to be told, if nothing races: all of them have
\* what is known.
LEMMA RGQuiet ==
    ASSUME RGInv, NEW s \in RG!Procs, rg.calls[s] = RG!NoCalls, ~RG!Mixing(s), ~rg.raced,
           ~rg.changed
    PROVE  /\ \A u \in RG!Procs : rg.calls[u] = RG!NoCalls
           /\ \A t \in Subs \ Exclusive : rg.pc[t] # "new" => rg.items[t].mapping = rg.values
<1>1. \A u \in RG!Procs : rg.calls[u] = RG!NoCalls
  BY Zenon DEF RG!Mixing, RG!Idle
<1>2. ASSUME NEW t \in Subs \ Exclusive, rg.pc[t] # "new" PROVE rg.items[t].mapping = rg.values
  <2>1. \A u \in RG!Procs, k \in Keys : ~RGTells(u, t, k)
    BY <1>1 DEF RGTells, RG!NoCalls
  <2>2. RGTold
    BY Zenon DEF RGInv, RGListened
  <2>3. \A k \in Keys : rg.items[t].mapping[k] = rg.values[k]
    BY Zenon, <1>2, <2>1, <2>2 DEF RGTold
  <2>4. rg.items[t].mapping \in RGPairs /\ rg.values \in RGPairs
    BY Zenon DEF RGInv, RGOK, RGType, RGContainers
  <2> QED
    BY <2>3, <2>4 DEF RGPairs
<1> QED
  BY Zenon, <1>1, <1>2

\* handleChanges: what is known is what the load saw, and the subscribers are to be told the
\* differences.
LEMMA RGHandleChanges ==
    ASSUME RG!RegistryAssumption, RGInv, NEW s \in RG!Procs, RG!HandleChanges(s)
    PROVE  RGInv'
<1> DEFINE m == rg.seen[s]
           gone == {p[1] : p \in RG!Pairs(rg.values) \ RG!Pairs(m)}
<1>1. /\ rg.pc[s] = "load" /\ rg.calls[s] = RG!NoCalls
      /\ rg'.pc = [rg.pc EXCEPT ![s] = "watch"] /\ rg'.to = [rg.to EXCEPT ![s] = rg.listeners]
      /\ rg'.calls = [rg.calls EXCEPT ![s] = [add |-> RG!Pairs(m) \ RG!Pairs(rg.values),
                                              remove |-> gone]]
      /\ rg'.values = m /\ rg'.seen = [rg.seen EXCEPT ![s] = RG!None]
      /\ rg'.etcd = rg.etcd /\ rg'.log = rg.log
      /\ rg'.listeners = rg.listeners /\ rg'.reload = rg.reload /\ rg'.from = rg.from
      /\ rg'.items = rg.items /\ rg'.changed = rg.changed /\ DOMAIN rg' = DOMAIN rg
  BY Zenon DEF RG!HandleChanges, RG!At, RGInv, RGOK, RGType, RGPlaces
<1>2. ~rg'.raced => ~rg.raced /\ ~RG!Unheard(rg.listeners) /\ ~RG!Mixing(s)
  BY Zenon DEF RG!HandleChanges, RGInv, RGOK, RGType
<1>3. RGType /\ m \in RGPairs /\ rg.values \in RGPairs
  BY Zenon DEF RGInv, RGOK, RGType
<1>4. ASSUME NEW a \in RGPairs
      PROVE  /\ RG!Pairs(a) \subseteq Keys \X Values
             /\ \A p \in RG!Pairs(a) : a[p[1]] = p[2] /\ p[1] \in Keys /\ p[2] # Unset
                                       /\ p = <<p[1], p[2]>>
             /\ \A k \in Keys : a[k] # Unset => <<k, a[k]>> \in RG!Pairs(a)
  BY DEF RG!Pairs, RGPairs
<1>5. gone \subseteq Keys
      /\ (\A k \in gone : rg.values[k] # Unset /\ m[k] # rg.values[k])
      /\ (\A k \in Keys : rg.values[k] # Unset /\ m[k] = Unset => k \in gone)
  <2>1. ASSUME NEW k \in gone PROVE k \in Keys /\ rg.values[k] # Unset /\ m[k] # rg.values[k]
    <3>1. PICK p \in RG!Pairs(rg.values) \ RG!Pairs(m) : k = p[1]
      OBVIOUS
    <3>2. k \in Keys /\ rg.values[k] = p[2] /\ p[2] # Unset /\ p = <<k, p[2]>>
      BY Zenon, <1>3, <1>4, <3>1
    <3>3. m[k] # p[2]
      BY <1>3, <1>4, <3>1, <3>2
    <3> QED
      BY Zenon, <3>2, <3>3
  <2>2. ASSUME NEW k \in Keys, rg.values[k] # Unset, m[k] = Unset PROVE k \in gone
    <3>1. <<k, rg.values[k]>> \in RG!Pairs(rg.values)
      BY Zenon, <1>3, <1>4, <2>2
    <3>2. <<k, rg.values[k]>> \notin RG!Pairs(m)
      BY Zenon, <1>3, <1>4, <2>2
    <3> QED
      BY <3>1, <3>2
  <2> QED
    BY Zenon, <2>1, <2>2
<1>6. \A k \in Keys : m[k] # Unset /\ m[k] # rg.values[k]
                        => <<k, m[k]>> \in RG!Pairs(m) \ RG!Pairs(rg.values)
  BY Zenon, <1>3, <1>4
<1> HIDE DEF m, gone
<1>7. RGType'
  <2>1. RG!None \in RGPairs
    BY Zenon DEF RG!None, RGPairs
  <2> QED
    BY <1>1, <1>3, <1>4, <1>5, <2>1 DEF RGType
<1>8. /\ \A t \in RG!Procs : t # s => /\ rg'.pc[t] = rg.pc[t] /\ rg'.calls[t] = rg.calls[t]
                                      /\ rg'.to[t] = rg.to[t] /\ rg'.seen[t] = rg.seen[t]
      /\ rg'.pc[s] = "watch" /\ rg'.to[s] = rg.listeners /\ rg'.calls[s].remove = gone
      /\ rg'.calls[s].add = RG!Pairs(m) \ RG!Pairs(rg.values)
  BY <1>1, <1>3 DEF RGType
<1>9. RGPlaces'
  BY <1>1, <1>8 DEF RGInv, RGOK, RGPlaces, RGType, RG!Procs
<1>10. RGHeld'
  BY <1>1 DEF RGInv, RGHeld, RGMatch, RGOne
<1>11. RGLog' /\ RGSeen' /\ RGWatched'
  BY <1>1, <1>8 DEF RGInv, RGKnown, RGLog, RGSeen, RGWatched, RGCovered, RGWorking
<1>12. RGTracks'
  <2>1. CASE rg.from[s] = Len(rg.log)
    BY Zenon, <1>1, <2>1 DEF RGInv, RGKnown, RGSeen, RGTracks, m
  <2>2. CASE rg.from[s] < Len(rg.log)
    BY Zenon, <1>1, <1>8, <2>2 DEF RGTracks, RGBehind
  <2>3. rg.from[s] \in Nat /\ Len(rg.log) \in Nat /\ rg.from[s] <= Len(rg.log)
    BY <1>3 DEF RGInv, RGOK, RGPlaces, RGType
  <2> QED
    BY <2>1, <2>2, <2>3
<1>13. ASSUME ~rg'.raced, ~rg'.changed PROVE RGCalls' /\ RGTold'
  <2>1. ~rg.raced /\ ~rg.changed /\ ~RG!Unheard(rg.listeners) /\ ~RG!Mixing(s)
    BY Zenon, <1>1, <1>2, <1>13
  <2>2. /\ \A u \in RG!Procs : rg.calls[u] = RG!NoCalls
        /\ \A t \in Subs \ Exclusive : rg.pc[t] # "new" => rg.items[t].mapping = rg.values
    BY Zenon, <1>1, <2>1, RGQuiet
  <2>3. \A t \in Subs : rg.pc[t] # "new" => t \in rg.listeners
    BY Zenon, <2>1 DEF RG!Unheard, RG!At
  <2>4. \A t \in rg.listeners : t \in Subs /\ rg.pc[t] # "new"
    BY Zenon, <1>3 DEF RGInv, RGOK, RGPlaces, RGType
  <2>5. ASSUME NEW u \in RG!Procs, u # s
        PROVE  rg'.calls[u].add = {} /\ rg'.calls[u].remove = {}
    BY <1>8, <2>2, <2>5 DEF RG!NoCalls
  <2>6. \A p \in rg'.calls[s].add : rg'.values[p[1]] = p[2]
    BY <1>1, <1>3, <1>4, <1>8
  <2>7. ASSUME NEW t \in rg'.to[s] \ Exclusive, NEW k \in gone
        PROVE  m[k] = Unset \/ (/\ <<k, m[k]>> \in rg'.calls[s].add
                              /\ rg'.items[t].mapping[k] \notin {Unset, m[k]})
    <3>1. rg'.items[t].mapping[k] = rg.values[k]
      BY <1>1, <1>8, <2>2, <2>4
    <3> QED
      BY Zenon, <1>5, <1>6, <1>8, <3>1
  <2>8. RGCalls'
    BY <1>1, <1>8, <2>5, <2>6, <2>7 DEF RGCalls
  <2>9. ASSUME NEW t \in Subs \ Exclusive, NEW k \in Keys, rg'.pc[t] # "new"
        PROVE  rg'.items[t].mapping[k] = rg'.values[k] \/ RGTells(s, t, k)'
    <3>1. rg.pc[t] # "new"
      BY Zenon, <1>1, <1>8, <2>9 DEF RG!Procs
    <3>2. rg'.items[t].mapping[k] = rg.values[k] /\ t \in rg'.to[s]
      BY <1>1, <1>8, <2>2, <2>3, <3>1
    <3> QED
      BY Zenon, <1>1, <1>5, <1>6, <1>8, <3>2 DEF RGTells
  <2> QED
    BY Zenon, <2>8, <2>9 DEF RGTold
<1> QED
  BY Zenon, <1>7, <1>9, <1>10, <1>11, <1>12, <1>13 DEF RGInv, RGOK, RGKnown, RGListened

\* A watch that begins later than its load is a race; otherwise it has nothing to see yet.
LEMMA RGWatch ==
    ASSUME RGInv, NEW s \in RG!Procs, RG!Watch(s)
    PROVE  RGInv'
<1>1. /\ rg.pc[s] \in {"watch", "rewatch"} /\ rg.calls[s] = RG!NoCalls
      /\ rg'.pc = [rg.pc EXCEPT ![s] = "stream"] /\ rg'.to = [rg.to EXCEPT ![s] = {}]
      /\ rg'.from = [rg.from EXCEPT ![s] = Len(rg.log)]
      /\ rg'.etcd = rg.etcd /\ rg'.log = rg.log /\ rg'.values = rg.values
      /\ rg'.listeners = rg.listeners /\ rg'.reload = rg.reload
      /\ rg'.calls = rg.calls /\ rg'.seen = rg.seen
      /\ rg'.items = rg.items /\ rg'.changed = rg.changed /\ DOMAIN rg' = DOMAIN rg
  BY Zenon DEF RG!Watch, RG!Idle, RGInv, RGOK, RGType
<1>2. ~rg'.raced => ~rg.raced /\ ~(rg.from[s] < Len(rg.log))
  BY Zenon DEF RG!Watch, RGInv, RGOK, RGType
<1>3. RGType /\ Len(rg.log) \in Nat
  BY DEF RGInv, RGOK, RGType
<1>4. RGType'
  BY <1>1, <1>3 DEF RGType
<1>5. /\ \A t \in RG!Procs : t # s => /\ rg'.pc[t] = rg.pc[t] /\ rg'.from[t] = rg.from[t]
                                      /\ rg'.to[t] = rg.to[t]
      /\ rg'.pc[s] = "stream" /\ rg'.from[s] = Len(rg.log) /\ rg'.to[s] = {}
  BY <1>1, <1>3 DEF RGType
<1>6. RGPlaces'
  BY <1>1, <1>3, <1>5 DEF RGInv, RGOK, RGPlaces, RGType, RG!Procs
<1>7. \A t \in Subs : rg'.pc[t] # "new" => rg.pc[t] # "new"
  BY Zenon, <1>1, <1>5 DEF RG!Procs
<1>8. RGHeld' /\ RGListened'
  BY Zenon, <1>1, <1>2, <1>5, <1>7, RGSameTold
<1>9. RGLog' /\ RGSeen' /\ RGWatched'
  BY SMTT(40), <1>1, <1>5 DEF RGInv, RGKnown, RGLog, RGSeen, RGWatched, RGCovered, RGWorking
<1>10. ASSUME ~rg'.raced, NEW t \in RG!Procs, NEW k \in Keys, RGBehind(t, k)
       PROVE  RGBehind(t, k)'
  <2>1. t # s
    BY Zenon, <1>1, <1>2, <1>10 DEF RGBehind
  <2> QED
    BY <1>1, <1>5, <1>10, <2>1 DEF RGBehind
<1>11. RGTracks'
  BY Zenon, <1>1, <1>2, <1>10 DEF RGInv, RGKnown, RGTracks, RGCovered
<1> QED
  BY Zenon, <1>4, <1>6, <1>8, <1>9, <1>11 DEF RGInv, RGOK, RGKnown

\* A watcher that takes the next event, or the listeners for it, and one whose stream has ended: it
\* has as much to see as before.
LEMMA RGStreams ==
    ASSUME RGInv, NEW s \in RG!Procs, RG!Event(s) \/ RG!CopyListeners(s) \/ RG!StreamEnds(s)
    PROVE  RGInv'
<1>1. /\ rg.pc[s] \in {"stream", "listeners"} /\ rg.calls[s] = RG!NoCalls
      /\ rg'.pc \in {[rg.pc EXCEPT ![s] = "listeners"], [rg.pc EXCEPT ![s] = "apply"],
                     [rg.pc EXCEPT ![s] = "rewatch"]}
      /\ rg'.to \in {rg.to, [rg.to EXCEPT ![s] = {}], [rg.to EXCEPT ![s] = rg.listeners]}
      /\ rg'.from = rg.from /\ rg'.etcd = rg.etcd /\ rg'.log = rg.log /\ rg'.values = rg.values
      /\ rg'.listeners = rg.listeners /\ rg'.reload = rg.reload
      /\ rg'.calls = rg.calls /\ rg'.seen = rg.seen /\ rg'.items = rg.items
      /\ rg'.changed = rg.changed /\ rg'.raced = rg.raced /\ DOMAIN rg' = DOMAIN rg
      /\ rg'.pc # [rg.pc EXCEPT ![s] = "rewatch"] => rg.from[s] < Len(rg.log)
  <2>1. CASE RG!Event(s)
    BY Zenon, <2>1 DEF RG!Event, RG!At, RG!Idle, RGInv, RGOK, RGType
  <2>2. CASE RG!CopyListeners(s)
    BY Zenon, <2>2 DEF RG!CopyListeners, RG!At, RGInv, RGOK, RGType, RGPlaces
  <2>3. CASE RG!StreamEnds(s)
    BY Zenon, <2>3 DEF RG!StreamEnds, RG!At, RG!Idle, RGInv, RGOK, RGType
  <2> QED
    BY Zenon, <2>1, <2>2, <2>3
<1>2. RGType
  BY Zenon DEF RGInv, RGOK
<1>3. RGType'
  <2>1. CASE RG!Event(s)
    <3>1. rg'.pc = [rg.pc EXCEPT ![s] = "listeners"] /\ rg'.to = [rg.to EXCEPT ![s] = {}]
      BY Zenon, <1>2, <2>1 DEF RG!Event, RGType
    <3> QED
      BY <1>1, <1>2, <3>1 DEF RGType
  <2>2. CASE RG!CopyListeners(s)
    <3>1. rg'.pc = [rg.pc EXCEPT ![s] = "apply"] /\ rg'.to = [rg.to EXCEPT ![s] = rg.listeners]
      BY Zenon, <1>2, <2>2 DEF RG!CopyListeners, RGType
    <3> QED
      BY <1>1, <1>2, <3>1 DEF RGType
  <2>3. CASE RG!StreamEnds(s)
    <3>1. rg'.pc = [rg.pc EXCEPT ![s] = "rewatch"] /\ rg'.to = rg.to
      BY Zenon, <1>2, <2>3 DEF RG!StreamEnds, RGType
    <3> QED
      BY <1>1, <1>2, <3>1 DEF RGType
  <2> QED
    BY Zenon, <2>1, <2>2, <2>3
<1>4. /\ \A t \in RG!Procs : t # s => rg'.pc[t] = rg.pc[t] /\ rg'.to[t] = rg.to[t]
      /\ rg'.pc[s] \in {"listeners", "apply", "rewatch"}
      /\ rg'.to[s] \subseteq rg.to[s] \cup rg.listeners
      /\ rg'.pc[s] # "rewatch" => rg.from[s] < Len(rg.log)
  BY <1>1, <1>2 DEF RGType
<1>5. \A t \in Subs : rg'.pc[t] = "new" <=> rg.pc[t] = "new"
  BY Zenon, <1>1, <1>4 DEF RG!Procs
<1>6. RGPlaces'
  <2>1. rg'.pc[Reloader] \notin {"new", "register"}
    BY Zenon, <1>4 DEF RGInv, RGOK, RGPlaces, RG!Procs
  <2>2. ASSUME NEW u \in RG!Procs
        PROVE  /\ rg'.from[u] <= Len(rg'.log)
               /\ rg'.pc[u] \in {"listeners", "apply"} => rg'.from[u] < Len(rg'.log)
               /\ rg'.pc[u] \notin {"register", "watch", "stream"} => rg'.calls[u] = RG!NoCalls
               /\ \A t \in rg'.to[u] : t \in Subs /\ rg.pc[t] # "new"
    BY SMTT(40), <1>1, <1>4 DEF RGInv, RGOK, RGPlaces, RGType
  <2>3. \A t \in rg'.listeners : t \in Subs /\ rg.pc[t] # "new"
    BY Zenon, <1>1 DEF RGInv, RGOK, RGPlaces, RGType
  <2> QED
    BY <1>1, <1>5, <2>1, <2>2, <2>3 DEF RGInv, RGOK, RGPlaces
<1>7. RGHeld' /\ RGListened'
  BY Zenon, <1>1, <1>4, <1>5, RGSameTold
<1>8. RGLog' /\ RGSeen' /\ RGWatched'
  BY <1>1, <1>4 DEF RGInv, RGKnown, RGLog, RGSeen, RGWatched, RGCovered, RGWorking
<1>9. ASSUME NEW t \in RG!Procs, NEW k \in Keys, RGBehind(t, k) PROVE RGBehind(t, k)'
  <2>1. CASE t = s
    <3>1. PICK n \in (rg.from[s] + 1)..Len(rg.log) : rg.log[n][1] = k
      BY Zenon, <1>1, <1>9, <2>1 DEF RGBehind
    <3>2. rg.from[s] < Len(rg.log)
      BY <1>2, <3>1 DEF RGType
    <3> QED
      BY Zenon, <1>1, <1>4, <2>1, <3>1, <3>2 DEF RGBehind
  <2>2. CASE t # s
    BY <1>1, <1>4, <1>9, <2>2 DEF RGBehind
  <2> QED
    BY Zenon, <2>1, <2>2
<1>10. RGTracks'
  BY Zenon, <1>1, <1>9 DEF RGInv, RGKnown, RGTracks, RGCovered
<1> QED
  BY Zenon, <1>3, <1>6, <1>7, <1>8, <1>10 DEF RGInv, RGOK, RGKnown

\* An event is applied: the watcher has seen one change more, and the subscribers are to be told.
LEMMA RGApply ==
    ASSUME RG!RegistryAssumption, RGInv, NEW s \in RG!Procs, RG!Apply(s)
    PROVE  RGInv'
<1> DEFINE n == rg.from[s] + 1
           k == rg.log[n][1]
           v == rg.log[n][2]
           new == IF v = Unset THEN [add |-> {}, remove |-> {k}]
                  ELSE [add |-> {<<k, v>>}, remove |-> {}]
<1>1. /\ rg.pc[s] = "apply" /\ rg.calls[s] = RG!NoCalls
      /\ rg'.pc = [rg.pc EXCEPT ![s] = "stream"] /\ rg'.from = [rg.from EXCEPT ![s] = n]
      /\ rg'.values = [rg.values EXCEPT ![k] = v] /\ rg'.calls = [rg.calls EXCEPT ![s] = new]
      /\ rg'.etcd = rg.etcd /\ rg'.log = rg.log /\ rg'.to = rg.to
      /\ rg'.listeners = rg.listeners /\ rg'.reload = rg.reload /\ rg'.seen = rg.seen
      /\ rg'.items = rg.items /\ rg'.changed = rg.changed /\ DOMAIN rg' = DOMAIN rg
  BY Zenon DEF RG!Apply, RG!At, RGInv, RGOK, RGType, RGPlaces
<1>2. ~rg'.raced => ~rg.raced /\ ~RG!Unheard(rg.to[s]) /\ ~RG!Mixing(s)
  BY Zenon DEF RG!Apply, RGInv, RGOK, RGType
<1>3. RGType
  BY DEF RGInv, RGOK
<1>4. rg.from[s] \in Nat /\ Len(rg.log) \in Nat /\ n \in 1..Len(rg.log)
  BY <1>1, <1>3 DEF RGInv, RGOK, RGPlaces, RGType
<1>5. k \in Keys /\ v \in Values \cup {Unset}
  BY SMTT(40), <1>3, <1>4 DEF RGType
<1> HIDE DEF n, k, v
<1>6. /\ new \in [add : SUBSET (Keys \X Values), remove : SUBSET Keys]
      /\ v = Unset => new.add = {} /\ new.remove = {k}
      /\ v # Unset => new.add = {<<k, v>>} /\ new.remove = {}
  <2>1. CASE v = Unset
    BY Zenon, <1>5, <2>1
  <2>2. CASE v # Unset
    <3>1. {<<k, v>>} \in SUBSET (Keys \X Values) /\ {} \in SUBSET Keys
      BY <1>5, <2>2
    <3> QED
      BY Zenon, <2>2, <3>1
  <2> QED
    BY Zenon, <2>1, <2>2
<1> HIDE DEF new
<1>7. RGType'
  BY <1>1, <1>3, <1>4, <1>5, <1>6 DEF RGType, RGPairs
<1>8. /\ \A t \in RG!Procs : t # s => /\ rg'.pc[t] = rg.pc[t] /\ rg'.calls[t] = rg.calls[t]
                                      /\ rg'.from[t] = rg.from[t]
      /\ rg'.pc[s] = "stream" /\ rg'.from[s] = n /\ rg'.calls[s] = new
      /\ rg'.values[k] = v /\ \A j \in Keys : j # k => rg'.values[j] = rg.values[j]
  BY <1>1, <1>3, <1>5 DEF RGType, RGPairs
<1>9. RGPlaces'
  BY <1>1, <1>4, <1>8 DEF RGInv, RGOK, RGPlaces, RGType, RG!Procs
<1>10. RGHeld'
  BY <1>1 DEF RGInv, RGHeld, RGMatch, RGOne
<1>11. RGLog' /\ RGSeen' /\ RGWatched'
  BY <1>1, <1>8 DEF RGInv, RGKnown, RGLog, RGSeen, RGWatched, RGCovered, RGWorking
<1>12. ASSUME NEW t \in RG!Procs, NEW j \in Keys, j # k, RGBehind(t, j) PROVE RGBehind(t, j)'
  <2>1. CASE t = s
    <3>1. PICK i \in (rg.from[s] + 1)..Len(rg.log) : rg.log[i][1] = j
      BY Zenon, <1>1, <1>12, <2>1 DEF RGBehind
    <3>2. i # n
      BY Zenon, <1>12, <3>1 DEF k
    <3>3. i \in (n + 1)..Len(rg.log)
      BY <1>4, <3>1, <3>2 DEF n
    <3> QED
      BY Zenon, <1>1, <1>8, <2>1, <3>1, <3>3 DEF RGBehind
  <2>2. CASE t # s
    BY <1>1, <1>8, <1>12, <2>2 DEF RGBehind
  <2> QED
    BY Zenon, <2>1, <2>2
<1>13. ASSUME NEW j \in Keys, j = k PROVE v = rg.etcd[k] \/ RGBehind(s, j)'
  <2>1. CASE \E i \in (n + 1)..Len(rg.log) : rg.log[i][1] = j
    BY <1>1, <1>8, <2>1 DEF RGBehind
  <2>2. CASE \A i \in (n + 1)..Len(rg.log) : rg.log[i][1] # j
    BY Zenon, <1>4, <1>13, <2>2 DEF RGInv, RGKnown, RGLog, k, v
  <2> QED
    BY Zenon, <2>1, <2>2
<1>14. RGTracks'
  <2> SUFFICES ASSUME RGCovered, ~rg'.raced, NEW j \in Keys
               PROVE  rg'.values[j] = rg'.etcd[j] \/ \E t \in RG!Procs : RGBehind(t, j)'
    BY Zenon, <1>1 DEF RGTracks, RGCovered
  <2>1. CASE j = k
    BY Zenon, <1>1, <1>8, <1>13, <2>1
  <2>2. CASE j # k
    <3>1. rg.values[j] = rg.etcd[j] \/ \E t \in RG!Procs : RGBehind(t, j)
      BY Zenon, <1>2 DEF RGInv, RGKnown, RGTracks
    <3> QED
      BY Zenon, <1>1, <1>8, <1>12, <2>2, <3>1
  <2> QED
    BY Zenon, <2>1, <2>2
<1>15. ASSUME ~rg'.raced, ~rg'.changed PROVE RGCalls' /\ RGTold'
  <2>1. ~rg.raced /\ ~rg.changed /\ ~RG!Unheard(rg.to[s]) /\ ~RG!Mixing(s)
    BY Zenon, <1>1, <1>2, <1>15
  <2>2. /\ \A u \in RG!Procs : rg.calls[u] = RG!NoCalls
        /\ \A t \in Subs \ Exclusive : rg.pc[t] # "new" => rg.items[t].mapping = rg.values
    BY Zenon, <1>1, <2>1, RGQuiet
  <2>3. \A t \in Subs : rg.pc[t] # "new" => t \in rg.to[s]
    BY Zenon, <2>1 DEF RG!Unheard, RG!At
  <2>4. ASSUME NEW u \in RG!Procs, u # s
        PROVE  rg'.calls[u].add = {} /\ rg'.calls[u].remove = {}
    BY <1>8, <2>2, <2>4 DEF RG!NoCalls
  <2>5. /\ \A p \in rg'.calls[s].add : rg'.values[p[1]] = p[2]
        /\ \A j \in rg'.calls[s].remove : rg'.values[j] = Unset
    BY <1>6, <1>8
  <2>6. RGCalls'
    BY Zenon, <2>4, <2>5 DEF RGCalls
  <2>7. ASSUME NEW t \in Subs \ Exclusive, NEW j \in Keys, rg'.pc[t] # "new"
        PROVE  rg'.items[t].mapping[j] = rg'.values[j] \/ RGTells(s, t, j)'
    <3>1. rg.pc[t] # "new"
      BY Zenon, <1>1, <1>8, <2>7 DEF RG!Procs
    <3>2. rg'.items[t].mapping[j] = rg.values[j] /\ t \in rg'.to[s]
      BY <1>1, <2>2, <2>3, <3>1
    <3>3. CASE j = k
      BY Zenon, <1>6, <1>8, <3>2, <3>3 DEF RGTells
    <3>4. CASE j # k
      BY Zenon, <1>8, <3>2, <3>4
    <3> QED
      BY Zenon, <3>3, <3>4
  <2> QED
    BY <2>6, <2>7 DEF RGTold
<1> QED
  BY <1>7, <1>9, <1>10, <1>11, <1>14, <1>15 DEF RGInv, RGOK, RGKnown, RGListened

\* reload begins, its watchers quit, and it starts one that loads: then that one has yet to see all.
LEMMA RGReloads ==
    ASSUME RGInv, RG!Reload \/ RG!Reloaded \/ \E s \in RG!Procs : RG!WatcherQuits(s)
    PROVE  RGInv'
<1>1. CASE RG!Reload
  <2>1. /\ rg'.reload = "wait" /\ rg'.pc = rg.pc /\ rg'.to = rg.to /\ rg'.from = rg.from
        /\ rg'.etcd = rg.etcd /\ rg'.log = rg.log /\ rg'.values = rg.values
        /\ rg'.listeners = rg.listeners /\ rg'.calls = rg.calls /\ rg'.seen = rg.seen
        /\ rg'.items = rg.items /\ rg'.changed = rg.changed /\ rg'.raced = rg.raced
        /\ DOMAIN rg' = DOMAIN rg
    BY Zenon, <1>1 DEF RG!Reload, RGInv, RGOK, RGType
  <2>2. RGType' /\ RGPlaces'
    BY <2>1 DEF RGInv, RGOK, RGType, RGPlaces
  <2>3. RGHeld' /\ RGListened'
    BY Zenon, <2>1, RGSameTold
  <2>4. RGKnown'
    BY <2>1 DEF RGInv, RGKnown, RGLog, RGSeen, RGWatched, RGTracks, RGCovered
  <2> QED
    BY Zenon, <2>2, <2>3, <2>4 DEF RGInv, RGOK
<1>2. CASE RG!Reloaded
  <2>1. /\ rg'.reload = "idle" /\ rg'.pc = [rg.pc EXCEPT ![Reloader] = "get"] /\ rg'.to = rg.to
        /\ rg'.etcd = rg.etcd /\ rg'.log = rg.log /\ rg'.values = rg.values
        /\ rg'.from = rg.from
        /\ rg'.listeners = rg.listeners /\ rg'.calls = rg.calls /\ rg'.seen = rg.seen
        /\ rg'.items = rg.items /\ rg'.changed = rg.changed /\ rg'.raced = rg.raced
        /\ DOMAIN rg' = DOMAIN rg
    BY Zenon, <1>2 DEF RG!Reloaded, RGInv, RGOK, RGType
  <2>2. rg.pc[Reloader] = "off" /\ Reloader \in RG!Procs
    BY Zenon, <1>2 DEF RG!Reloaded, RG!Watchers, RG!At, RG!Procs
  <2>3. RGType'
    BY <2>1, <2>2 DEF RGInv, RGOK, RGType
  <2>4. /\ \A t \in RG!Procs : t # Reloader => rg'.pc[t] = rg.pc[t]
        /\ rg'.pc[Reloader] = "get" /\ rg.calls[Reloader] = RG!NoCalls
    BY Zenon, <2>1, <2>2 DEF RGInv, RGOK, RGType, RGPlaces
  <2>5. \A t \in Subs : rg'.pc[t] = "new" <=> rg.pc[t] = "new"
    BY Zenon, <2>2, <2>4 DEF RG!Procs
  <2>6. RGPlaces'
    <3>1. \A s \in RG!Procs :
            /\ rg'.from[s] <= Len(rg'.log)
            /\ rg'.pc[s] \in {"listeners", "apply"} => rg'.from[s] < Len(rg'.log)
            /\ rg'.pc[s] \notin {"register", "watch", "stream"} => rg'.calls[s] = RG!NoCalls
            /\ \A t \in rg'.to[s] : t \in Subs /\ rg.pc[t] # "new"
      BY <2>1, <2>4 DEF RGInv, RGOK, RGPlaces, RGType
    <3>2. \A t \in rg'.listeners : t \in Subs /\ rg.pc[t] # "new"
      BY Zenon, <2>1 DEF RGInv, RGOK, RGPlaces, RGType
    <3> QED
      BY <2>1, <2>4, <2>5, <3>1, <3>2 DEF RGInv, RGOK, RGPlaces
  <2>7. RGHeld' /\ RGListened'
    BY Zenon, <2>1, <2>5, RGSameTold
  <2>8. RGLog' /\ RGSeen'
    BY <2>1, <2>4 DEF RGInv, RGKnown, RGLog, RGSeen
  <2>9. RGWatched' /\ RGTracks'
    BY Zenon, <2>2, <2>4 DEF RGWatched, RGTracks, RGBehind, RGWorking
  <2> QED
    BY Zenon, <2>3, <2>6, <2>7, <2>8, <2>9 DEF RGInv, RGOK, RGKnown
<1>3. ASSUME NEW s \in RG!Procs, RG!WatcherQuits(s) PROVE RGInv'
  <2>1. /\ rg.pc[s] = "stream" /\ rg.calls[s] = RG!NoCalls /\ rg.reload # "idle"
        /\ rg'.pc = [rg.pc EXCEPT ![s] = "off"] /\ rg'.to = [rg.to EXCEPT ![s] = {}]
        /\ rg'.from = [rg.from EXCEPT ![s] = 0] /\ rg'.reload = rg.reload
        /\ rg'.etcd = rg.etcd /\ rg'.log = rg.log /\ rg'.values = rg.values
        /\ rg'.listeners = rg.listeners /\ rg'.calls = rg.calls /\ rg'.seen = rg.seen
        /\ rg'.items = rg.items /\ rg'.changed = rg.changed /\ rg'.raced = rg.raced
        /\ DOMAIN rg' = DOMAIN rg
    BY Zenon, <1>3 DEF RG!WatcherQuits, RG!At, RG!Idle, RG!Free, RGInv, RGOK, RGType
  <2>2. RGType'
    BY <2>1 DEF RGInv, RGOK, RGType
  <2>3. /\ \A t \in RG!Procs : t # s => /\ rg'.pc[t] = rg.pc[t] /\ rg'.to[t] = rg.to[t]
                                        /\ rg'.from[t] = rg.from[t]
        /\ rg'.pc[s] = "off" /\ rg'.to[s] = {} /\ rg'.from[s] = 0
    BY <2>1 DEF RGInv, RGOK, RGType
  <2>4. \A t \in Subs : rg'.pc[t] = "new" <=> rg.pc[t] = "new"
    BY Zenon, <2>1, <2>3 DEF RG!Procs
  <2>5. RGPlaces'
    <3>1. \A u \in RG!Procs :
            /\ rg'.from[u] <= Len(rg'.log)
            /\ rg'.pc[u] \in {"listeners", "apply"} => rg'.from[u] < Len(rg'.log)
            /\ rg'.pc[u] \notin {"register", "watch", "stream"} => rg'.calls[u] = RG!NoCalls
            /\ \A t \in rg'.to[u] : t \in Subs /\ rg.pc[t] # "new"
      BY <2>1, <2>3 DEF RGInv, RGOK, RGPlaces, RGType
    <3>2. \A t \in rg'.listeners : t \in Subs /\ rg.pc[t] # "new"
      BY Zenon, <2>1 DEF RGInv, RGOK, RGPlaces, RGType
    <3>3. rg'.pc[Reloader] \notin {"new", "register"}
      BY Zenon, <2>1, <2>3 DEF RGInv, RGOK, RGPlaces, RG!Procs
    <3> QED
      BY <2>1, <2>4, <3>1, <3>2, <3>3 DEF RGInv, RGOK, RGPlaces
  <2>6. RGHeld' /\ RGListened'
    BY Zenon, <2>1, <2>3, <2>4, RGSameTold
  <2>7. RGKnown'
    BY SMTT(40), <2>1, <2>3 DEF RGInv, RGKnown, RGLog, RGSeen, RGWatched, RGTracks, RGCovered
  <2> QED
    BY Zenon, <2>2, <2>5, <2>6, <2>7 DEF RGInv, RGOK
<1> QED
  BY Zenon, <1>1, <1>2, <1>3
-----------------------------------------------------------------------------
\* doRemoveKey takes the keys out of both maps.
LEMMA RGWithoutKeys ==
    ASSUME RG!RegistryAssumption, NEW c \in RGContainers, NEW ks \in SUBSET Keys
    PROVE  /\ RG!WithoutKeys(c, ks) \in RGContainers
           /\ \A k \in Keys :
                RG!WithoutKeys(c, ks).mapping[k] = IF k \in ks THEN Unset ELSE c.mapping[k]
           /\ \A v \in Values :
                RG!WithoutKeys(c, ks).held[v] = c.held[v] \ {k \in ks : c.mapping[k] = v}
           /\ RGMatch(c) => RGMatch(RG!WithoutKeys(c, ks))
           /\ RGOne(c) => RGOne(RG!WithoutKeys(c, ks))
<1> DEFINE d == RG!WithoutKeys(c, ks)
<1>1. /\ d = [mapping |-> d.mapping, held |-> d.held]
      /\ d.mapping = [k \in Keys |-> IF k \in ks THEN Unset ELSE c.mapping[k]]
      /\ d.held = [v \in Values |-> c.held[v] \ {k \in ks : c.mapping[k] = v}]
  BY Zenon DEF RG!WithoutKeys
<1>2. c.mapping \in [Keys -> Values \cup {Unset}] /\ c.held \in [Values -> SUBSET Keys]
  BY Zenon DEF RGContainers, RGPairs
<1> HIDE DEF d
<1>3. d.mapping \in [Keys -> Values \cup {Unset}] /\ d.held \in [Values -> SUBSET Keys]
  BY <1>1, <1>2
<1>4. d \in RGContainers
  BY Zenon, <1>1, <1>3 DEF RGContainers, RGPairs
<1>5. /\ \A k \in Keys : d.mapping[k] = IF k \in ks THEN Unset ELSE c.mapping[k]
      /\ \A v \in Values : d.held[v] = c.held[v] \ {k \in ks : c.mapping[k] = v}
  BY Zenon, <1>1
<1>6. RGMatch(c) => RGMatch(d)
  <2> SUFFICES ASSUME RGMatch(c), NEW v \in Values
               PROVE  d.held[v] = {k \in Keys : d.mapping[k] = v}
    BY Zenon DEF RGMatch
  <2>1. c.held[v] = {k \in Keys : c.mapping[k] = v} /\ v # Unset
    BY Zenon DEF RGMatch, RG!RegistryAssumption
  <2> QED
    BY <1>5, <2>1
<1>7. RGOne(c) => RGOne(d)
  BY Zenon, <1>5 DEF RGOne
<1> QED
  BY Zenon, <1>4, <1>5, <1>6, <1>7 DEF d

\* addKv: the key has the value now, and nothing else changes in a container that is not exclusive.
\* The maps agree as before if the key had no other value, and an exclusive container has one key
\* for the value.
LEMMA RGWithKey ==
    ASSUME RG!RegistryAssumption, NEW c \in RGContainers, NEW k \in Keys, NEW v \in Values, NEW t
    PROVE  /\ RG!WithKey(c, k, v, t \in Exclusive) \in RGContainers
           /\ RG!WithKey(c, k, v, t \in Exclusive).mapping[k] = v
           /\ t \notin Exclusive
                => \A j \in Keys :
                        j # k => RG!WithKey(c, k, v, t \in Exclusive).mapping[j] = c.mapping[j]
           /\ RGMatch(c) /\ c.mapping[k] \in {Unset, v}
                => RGMatch(RG!WithKey(c, k, v, t \in Exclusive))
           /\ t \in Exclusive /\ RGMatch(c) /\ RGOne(c)
                => RGOne(RG!WithKey(c, k, v, t \in Exclusive))
<1> DEFINE b == IF t \in Exclusive THEN RG!WithoutKeys(c, c.held[v]) ELSE c
           d == RG!WithKey(c, k, v, t \in Exclusive)
<1>1. /\ d = [mapping |-> d.mapping, held |-> d.held]
      /\ d.mapping = [b.mapping EXCEPT ![k] = v] /\ d.held = [b.held EXCEPT ![v] = @ \cup {k}]
  BY Zenon DEF RG!WithKey
<1>2. c.held[v] \in SUBSET Keys /\ c.held \in [Values -> SUBSET Keys]
  BY Zenon DEF RGContainers
<1>3. /\ t \in Exclusive => b = RG!WithoutKeys(c, c.held[v])
      /\ t \notin Exclusive => b = c
  OBVIOUS
<1> HIDE DEF b, d
<1>4. /\ b \in RGContainers
      /\ t \in Exclusive
            => /\ \A j \in Keys : b.mapping[j] = IF j \in c.held[v] THEN Unset ELSE c.mapping[j]
               /\ \A u \in Values : b.held[u] = c.held[u] \ {j \in c.held[v] : c.mapping[j] = u}
      /\ RGMatch(c) => RGMatch(b)
      /\ RGOne(c) => RGOne(b)
  BY <1>2, <1>3, RGWithoutKeys
<1>5. b.mapping \in [Keys -> Values \cup {Unset}] /\ b.held \in [Values -> SUBSET Keys]
  BY Zenon, <1>4 DEF RGContainers, RGPairs
<1>6. d.mapping \in [Keys -> Values \cup {Unset}] /\ d.held \in [Values -> SUBSET Keys]
  BY <1>1, <1>5
<1>7. d \in RGContainers
  BY Zenon, <1>1, <1>6 DEF RGContainers, RGPairs
<1>8. /\ d.mapping[k] = v /\ \A j \in Keys : j # k => d.mapping[j] = b.mapping[j]
      /\ d.held[v] = b.held[v] \cup {k} /\ \A u \in Values : u # v => d.held[u] = b.held[u]
  BY Zenon, <1>1, <1>5
<1>9. ASSUME RGMatch(c), c.mapping[k] \in {Unset, v} PROVE RGMatch(d)
  <2> SUFFICES ASSUME NEW u \in Values PROVE d.held[u] = {j \in Keys : d.mapping[j] = u}
    BY Zenon DEF RGMatch
  <2>1. b.held[u] = {j \in Keys : b.mapping[j] = u} /\ u # Unset /\ v # Unset
    BY Zenon, <1>4, <1>9 DEF RGMatch, RG!RegistryAssumption
  <2>2. b.mapping[k] \in {Unset, v}
    BY Zenon, <1>3, <1>4, <1>9
  <2> QED
    BY <1>8, <2>1, <2>2
<1>10. ASSUME t \in Exclusive, RGMatch(c), RGOne(c) PROVE RGOne(d)
  <2>1. b.held[v] = {}
    BY Zenon, <1>4, <1>10 DEF RGMatch
  <2>2. RGOne(b)
    BY Zenon, <1>4, <1>10
  <2> SUFFICES ASSUME NEW u \in Values PROVE \A i, j \in d.held[u] : i = j
    BY Zenon DEF RGOne
  <2>3. CASE u = v
    BY Zenon, <1>8, <2>1, <2>3
  <2>4. CASE u # v
    BY Zenon, <1>8, <2>2, <2>4 DEF RGOne
  <2> QED
    BY Zenon, <2>3, <2>4
<1> QED
  BY Zenon, <1>3, <1>7, <1>8, <1>9, <1>10 DEF d

\* The calls of a process after one of them was made.
LEMMA RGRecord ==
    ASSUME RGType, NEW s \in RG!Procs, NEW X
    PROVE  /\ [rg.calls[s] EXCEPT !.add = X] = [add |-> X, remove |-> rg.calls[s].remove]
           /\ [rg.calls[s] EXCEPT !.remove = X] = [add |-> rg.calls[s].add, remove |-> X]
<1>1. rg.calls[s] = [add |-> rg.calls[s].add, remove |-> rg.calls[s].remove]
  BY Zenon DEF RGType
<1> QED
  BY <1>1

\* OnAdd: the subscribers that are called have the pair.
LEMMA RGOnAdd ==
    ASSUME RG!RegistryAssumption, RGInv, NEW s \in RG!Procs, RG!OnAdd(s)
    PROVE  RGInv'
<1>1. PICK p \in rg.calls[s].add :
        rg' = [rg EXCEPT !.calls[s].add = @ \ {p},
                         !.items = [t \in Subs |-> IF t \in rg.to[s]
                                      THEN RG!WithKey(@[t], p[1], p[2], t \in Exclusive)
                                      ELSE @[t]],
                         !.changed = @ \/ \E t \in rg.to[s] :
                                              rg.items[t].mapping[p[1]] \notin {Unset, p[2]}]
  BY Zenon DEF RG!OnAdd
<1>2. RGType
  BY Zenon DEF RGInv, RGOK
<1>3. PICK k \in Keys, v \in Values : p = <<k, v>>
  BY <1>1, <1>2 DEF RGType
<1>4. /\ rg'.etcd = rg.etcd /\ rg'.log = rg.log /\ rg'.values = rg.values /\ rg'.pc = rg.pc
      /\ rg'.from = rg.from /\ rg'.seen = rg.seen /\ rg'.to = rg.to
      /\ rg'.listeners = rg.listeners /\ rg'.reload = rg.reload /\ rg'.raced = rg.raced
      /\ DOMAIN rg' = DOMAIN rg
      /\ rg'.calls = [rg.calls EXCEPT ![s].add = @ \ {p}]
      /\ rg'.items = [t \in Subs |-> IF t \in rg.to[s]
                                     THEN RG!WithKey(rg.items[t], k, v, t \in Exclusive)
                                     ELSE rg.items[t]]
  BY Zenon, <1>1, <1>2, <1>3 DEF RGType
<1>5. ~rg'.changed => ~rg.changed /\ \A t \in rg.to[s] : rg.items[t].mapping[k] \in {Unset, v}
  BY Zenon, <1>1, <1>2, <1>3 DEF RGType
<1>6. /\ rg'.calls = [rg.calls EXCEPT ![s] = [add |-> rg.calls[s].add \ {p},
                                              remove |-> rg.calls[s].remove]]
      /\ rg'.calls[s] = [add |-> rg.calls[s].add \ {p}, remove |-> rg.calls[s].remove]
      /\ \A u \in RG!Procs : u # s => rg'.calls[u] = rg.calls[u]
  <2>1. [rg.calls[s] EXCEPT !.add = @ \ {p}]
            = [add |-> rg.calls[s].add \ {p}, remove |-> rg.calls[s].remove]
    BY Zenon, <1>2, RGRecord
  <2>2. rg'.calls = [rg.calls EXCEPT ![s] = [add |-> rg.calls[s].add \ {p},
                                             remove |-> rg.calls[s].remove]]
    BY Zenon, <1>4, <2>1
  <2> QED
    BY Zenon, <1>2, <2>2 DEF RGType
<1>7. \A t \in Subs : /\ rg.items[t] \in RGContainers
                      /\ t \notin rg.to[s] => rg'.items[t] = rg.items[t]
                      /\ t \in rg.to[s]
                            => rg'.items[t] = RG!WithKey(rg.items[t], k, v, t \in Exclusive)
  BY Zenon, <1>2, <1>4 DEF RGType
<1>8. RGType'
  <2>1. rg'.items \in [Subs -> RGContainers]
    BY <1>4, <1>7, RGWithKey
  <2>2. rg'.calls \in [RG!Procs -> [add : SUBSET (Keys \X Values), remove : SUBSET Keys]]
    BY <1>2, <1>6 DEF RGType
  <2> QED
    BY Zenon, <1>2, <1>4, <2>1, <2>2 DEF RGType
<1>9. RGPlaces'
  <2>1. \A t \in rg.to[s] : rg.pc[t] # "new"
    BY Zenon DEF RGInv, RGOK, RGPlaces
  <2>2. rg.pc[s] \in {"register", "watch", "stream"}
    BY <1>1 DEF RGInv, RGOK, RGPlaces, RG!NoCalls
  <2> QED
    BY <1>4, <1>6, <1>7, <2>1, <2>2 DEF RGInv, RGOK, RGPlaces
<1>10. RGKnown'
  BY Zenon, <1>4, RGSameKnown
<1>11. RGHeld'
  <2> SUFFICES ASSUME ~rg'.changed
               PROVE  /\ \A t \in Subs : RGMatch(rg'.items[t])
                      /\ \A t \in Exclusive : RGOne(rg'.items[t])
    BY Zenon DEF RGHeld, RGMatch, RGOne
  <2>1. /\ \A t \in Subs : RGMatch(rg.items[t])
        /\ \A t \in Exclusive : t \in Subs /\ RGOne(rg.items[t])
    BY Zenon, <1>5 DEF RGInv, RGHeld, RG!RegistryAssumption
  <2>2. ASSUME NEW t \in Subs PROVE RGMatch(rg'.items[t])
    <3>1. CASE t \in rg.to[s]
      BY <1>5, <1>7, <2>1, <3>1, RGWithKey
    <3>2. CASE t \notin rg.to[s]
      BY Zenon, <1>7, <2>1, <3>2
    <3> QED
      BY Zenon, <3>1, <3>2
  <2>3. ASSUME NEW t \in Exclusive PROVE RGOne(rg'.items[t])
    <3>1. CASE t \in rg.to[s]
      BY <1>7, <2>1, <3>1, RGWithKey
    <3>2. CASE t \notin rg.to[s]
      BY Zenon, <1>7, <2>1, <3>2
    <3> QED
      BY <3>1, <3>2
  <2> QED
    BY Zenon, <2>2, <2>3
<1>12. ASSUME ~rg'.raced, ~rg'.changed PROVE RGCalls' /\ RGTold'
  <2>1. RGCalls /\ RGTold
    BY Zenon, <1>4, <1>5, <1>12 DEF RGInv, RGListened
  <2>2. rg.values[k] = v
    BY Zenon, <1>1, <1>3, <2>1 DEF RGCalls
  <2>3. ASSUME NEW t \in Subs \ Exclusive
        PROVE  /\ t \in rg.to[s] => rg'.items[t].mapping[k] = v
               /\ t \notin rg.to[s] => rg'.items[t].mapping[k] = rg.items[t].mapping[k]
               /\ \A j \in Keys : j # k => rg'.items[t].mapping[j] = rg.items[t].mapping[j]
    BY <1>7, RGWithKey
  <2>4. ASSUME NEW u \in RG!Procs, NEW q \in rg'.calls[u].add PROVE rg'.values[q[1]] = q[2]
    BY <1>4, <1>6, <2>1, <2>4 DEF RGCalls
  <2>5. ASSUME NEW u \in RG!Procs, NEW t \in rg'.to[u] \ Exclusive,
               NEW j \in rg'.calls[u].remove
        PROVE  rg'.values[j] = Unset \/ (/\ <<j, rg'.values[j]>> \in rg'.calls[u].add
                                       /\ rg'.items[t].mapping[j] \notin {Unset, rg'.values[j]})
    <3>1. t \in rg.to[u] \ Exclusive /\ j \in rg.calls[u].remove /\ t \in Subs /\ j \in Keys
      BY <1>2, <1>4, <1>6, <2>5 DEF RGType
    <3>2. \/ rg.values[j] = Unset
          \/ /\ <<j, rg.values[j]>> \in rg.calls[u].add
             /\ rg.items[t].mapping[j] \notin {Unset, rg.values[j]}
      BY Zenon, <2>1, <3>1 DEF RGCalls
    <3>3. CASE j = k
      <4>1. rg.values[j] = v /\ rg.values[j] # Unset
        BY Zenon, <2>2, <3>3 DEF RG!RegistryAssumption
      <4>2. CASE t \in rg.to[s]
        BY Zenon, <1>5, <1>12, <3>2, <3>3, <4>1, <4>2
      <4>3. CASE t \notin rg.to[s]
        <5>1. u # s
          BY Zenon, <3>1, <4>3
        <5> QED
          BY Zenon, <1>4, <1>6, <2>3, <3>1, <3>2, <3>3, <4>3, <5>1
      <4> QED
        BY Zenon, <4>2, <4>3
    <3>4. CASE j # k
      <4>1. <<j, rg.values[j]>> # p
        BY Zenon, <1>3, <3>4
      <4>2. <<j, rg.values[j]>> \in rg.calls[u].add => <<j, rg.values[j]>> \in rg'.calls[u].add
        BY <1>6, <4>1
      <4>3. rg'.values[j] = rg.values[j] /\ rg'.items[t].mapping[j] = rg.items[t].mapping[j]
        <5>1. t \in Subs \ Exclusive /\ j \in Keys
          BY Zenon, <3>1
        <5>2. rg'.items[t].mapping[j] = rg.items[t].mapping[j]
          BY Zenon, <2>3, <3>4, <5>1
        <5> QED
          BY Zenon, <1>4, <5>2
      <4> QED
        BY Zenon, <3>2, <4>2, <4>3
    <3> QED
      BY Zenon, <3>3, <3>4
  <2>6. RGCalls'
    BY Zenon, <2>4, <2>5 DEF RGCalls
  <2>7. ASSUME NEW t \in Subs \ Exclusive, NEW j \in Keys, rg'.pc[t] # "new"
        PROVE  \/ rg'.items[t].mapping[j] = rg'.values[j]
               \/ \E u \in RG!Procs : RGTells(u, t, j)'
    <3>1. CASE j = k /\ t \in rg.to[s]
      BY <1>4, <2>2, <2>3, <3>1
    <3>2. CASE ~(j = k /\ t \in rg.to[s])
      <4>1. rg'.items[t].mapping[j] = rg.items[t].mapping[j]
        BY Zenon, <2>3, <3>2
      <4>2. ASSUME NEW u \in RG!Procs, RGTells(u, t, j) PROVE RGTells(u, t, j)'
        <5>1. CASE u = s
          <6>1. <<j, rg.values[j]>> # p
            BY Zenon, <1>3, <3>2, <4>2, <5>1 DEF RGTells
          <6> QED
            BY <1>4, <1>6, <4>2, <5>1, <6>1 DEF RGTells
        <5>2. CASE u # s
          BY Zenon, <1>4, <1>6, <4>2, <5>2 DEF RGTells
        <5> QED
          BY Zenon, <5>1, <5>2
      <4> QED
        BY Zenon, <1>4, <2>1, <2>7, <4>1, <4>2 DEF RGTold
    <3> QED
      BY Zenon, <3>1, <3>2
  <2> QED
    BY Zenon, <2>6, <2>7 DEF RGTold
<1> QED
  BY Zenon, <1>8, <1>9, <1>10, <1>11, <1>12 DEF RGInv, RGOK, RGListened

\* OnDelete: the subscribers that are called have the key no more.
LEMMA RGOnDelete ==
    ASSUME RG!RegistryAssumption, RGInv, NEW s \in RG!Procs, RG!OnDelete(s)
    PROVE  RGInv'
<1>1. PICK k \in rg.calls[s].remove :
        rg' = [rg EXCEPT !.calls[s].remove = @ \ {k},
                         !.items = [t \in Subs |-> IF t \in rg.to[s]
                                                   THEN RG!WithoutKeys(@[t], {k}) ELSE @[t]]]
  BY Zenon DEF RG!OnDelete
<1>2. RGType
  BY Zenon DEF RGInv, RGOK
<1>3. k \in Keys /\ rg.calls[s].add = {}
  BY Zenon, <1>1, <1>2 DEF RGType, RG!OnDelete
<1>4. /\ rg'.etcd = rg.etcd /\ rg'.log = rg.log /\ rg'.values = rg.values /\ rg'.pc = rg.pc
      /\ rg'.from = rg.from /\ rg'.seen = rg.seen /\ rg'.to = rg.to
      /\ rg'.listeners = rg.listeners /\ rg'.reload = rg.reload /\ rg'.raced = rg.raced
      /\ rg'.changed = rg.changed /\ DOMAIN rg' = DOMAIN rg
      /\ rg'.calls = [rg.calls EXCEPT ![s].remove = @ \ {k}]
      /\ rg'.items = [t \in Subs |-> IF t \in rg.to[s] THEN RG!WithoutKeys(rg.items[t], {k})
                                                       ELSE rg.items[t]]
  BY Zenon, <1>1, <1>2 DEF RGType
<1>5. /\ rg'.calls = [rg.calls EXCEPT ![s] = [add |-> rg.calls[s].add,
                                              remove |-> rg.calls[s].remove \ {k}]]
      /\ rg'.calls[s] = [add |-> rg.calls[s].add, remove |-> rg.calls[s].remove \ {k}]
      /\ \A u \in RG!Procs : u # s => rg'.calls[u] = rg.calls[u]
  <2>1. [rg.calls[s] EXCEPT !.remove = @ \ {k}]
            = [add |-> rg.calls[s].add, remove |-> rg.calls[s].remove \ {k}]
    BY Zenon, <1>2, RGRecord
  <2>2. rg'.calls = [rg.calls EXCEPT ![s] = [add |-> rg.calls[s].add,
                                             remove |-> rg.calls[s].remove \ {k}]]
    BY Zenon, <1>4, <2>1
  <2> QED
    BY Zenon, <1>2, <2>2 DEF RGType
<1>6. \A t \in Subs : /\ rg.items[t] \in RGContainers
                      /\ t \notin rg.to[s] => rg'.items[t] = rg.items[t]
                      /\ t \in rg.to[s] => rg'.items[t] = RG!WithoutKeys(rg.items[t], {k})
  BY Zenon, <1>2, <1>4 DEF RGType
<1>7. RGType'
  <2>1. rg'.items \in [Subs -> RGContainers]
    BY <1>3, <1>4, <1>6, RGWithoutKeys
  <2>2. rg'.calls \in [RG!Procs -> [add : SUBSET (Keys \X Values), remove : SUBSET Keys]]
    BY <1>2, <1>5 DEF RGType
  <2> QED
    BY Zenon, <1>2, <1>4, <2>1, <2>2 DEF RGType
<1>8. RGPlaces'
  <2>1. \A t \in rg.to[s] : rg.pc[t] # "new"
    BY Zenon DEF RGInv, RGOK, RGPlaces
  <2>2. rg.pc[s] \in {"register", "watch", "stream"}
    BY <1>1 DEF RGInv, RGOK, RGPlaces, RG!NoCalls
  <2> QED
    BY <1>4, <1>5, <1>6, <2>1, <2>2 DEF RGInv, RGOK, RGPlaces
<1>9. RGKnown'
  BY Zenon, <1>4, RGSameKnown
<1>10. RGHeld'
  <2> SUFFICES ASSUME ~rg.changed
               PROVE  /\ \A t \in Subs : RGMatch(rg'.items[t])
                      /\ \A t \in Exclusive : RGOne(rg'.items[t])
    BY Zenon, <1>4 DEF RGHeld, RGMatch, RGOne
  <2>1. /\ \A t \in Subs : RGMatch(rg.items[t])
        /\ \A t \in Exclusive : t \in Subs /\ RGOne(rg.items[t])
    BY Zenon DEF RGInv, RGHeld, RG!RegistryAssumption
  <2> QED
    BY <1>3, <1>6, <2>1, RGWithoutKeys
<1>11. ASSUME ~rg'.raced, ~rg'.changed PROVE RGCalls' /\ RGTold'
  <2>1. RGCalls /\ RGTold
    BY Zenon, <1>4, <1>11 DEF RGInv, RGListened
  <2>2. ASSUME NEW t \in Subs \ Exclusive
        PROVE  /\ t \in rg.to[s] => rg'.items[t].mapping[k] = Unset
               /\ t \notin rg.to[s] => rg'.items[t].mapping[k] = rg.items[t].mapping[k]
               /\ \A j \in Keys : j # k => rg'.items[t].mapping[j] = rg.items[t].mapping[j]
    BY <1>3, <1>6, RGWithoutKeys
  <2>3. \A t \in rg.to[s] \ Exclusive, j \in rg.calls[s].remove : rg.values[j] = Unset
    BY Zenon, <1>3, <2>1 DEF RGCalls
  <2>4. ASSUME NEW u \in RG!Procs, NEW q \in rg'.calls[u].add PROVE rg'.values[q[1]] = q[2]
    BY <1>4, <1>5, <2>1, <2>4 DEF RGCalls
  <2>5. ASSUME NEW u \in RG!Procs, NEW t \in rg'.to[u] \ Exclusive,
               NEW j \in rg'.calls[u].remove
        PROVE  rg'.values[j] = Unset \/ (/\ <<j, rg'.values[j]>> \in rg'.calls[u].add
                                       /\ rg'.items[t].mapping[j] \notin {Unset, rg'.values[j]})
    <3>1. t \in rg.to[u] \ Exclusive /\ j \in rg.calls[u].remove /\ t \in Subs /\ j \in Keys
      BY <1>2, <1>4, <1>5, <2>5 DEF RGType
    <3>2. CASE t \in rg.to[s] /\ j = k
      BY <1>1, <1>4, <2>3, <3>1, <3>2
    <3>3. CASE ~(t \in rg.to[s] /\ j = k)
      <4>1. rg'.items[t].mapping[j] = rg.items[t].mapping[j]
        BY Zenon, <2>2, <3>1, <3>3
      <4>2. rg'.calls[u].add = rg.calls[u].add
        BY <1>5
      <4>3. \/ rg.values[j] = Unset
            \/ /\ <<j, rg.values[j]>> \in rg.calls[u].add
               /\ rg.items[t].mapping[j] \notin {Unset, rg.values[j]}
        BY Zenon, <2>1, <3>1 DEF RGCalls
      <4> QED
        BY Zenon, <1>4, <4>1, <4>2, <4>3
    <3> QED
      BY Zenon, <3>2, <3>3
  <2>6. RGCalls'
    BY Zenon, <2>4, <2>5 DEF RGCalls
  <2>7. ASSUME NEW t \in Subs \ Exclusive, NEW j \in Keys, rg'.pc[t] # "new"
        PROVE  \/ rg'.items[t].mapping[j] = rg'.values[j]
               \/ \E u \in RG!Procs : RGTells(u, t, j)'
    <3>1. CASE j = k /\ t \in rg.to[s]
      <4>1. rg.values[k] = Unset /\ rg'.items[t].mapping[k] = Unset
        BY Zenon, <1>1, <2>2, <2>3, <3>1
      <4> QED
        BY Zenon, <1>4, <3>1, <4>1
    <3>2. CASE ~(j = k /\ t \in rg.to[s])
      <4>1. rg'.items[t].mapping[j] = rg.items[t].mapping[j]
        BY Zenon, <2>2, <3>2
      <4>2. ASSUME NEW u \in RG!Procs, RGTells(u, t, j) PROVE RGTells(u, t, j)'
        <5>1. CASE u = s
          <6>1. j # k
            BY Zenon, <3>2, <4>2, <5>1 DEF RGTells
          <6> QED
            BY <1>4, <1>5, <4>2, <5>1, <6>1 DEF RGTells
        <5>2. CASE u # s
          BY Zenon, <1>4, <1>5, <4>2, <5>2 DEF RGTells
        <5> QED
          BY Zenon, <5>1, <5>2
      <4> QED
        BY Zenon, <1>4, <2>1, <2>7, <4>1, <4>2 DEF RGTold
    <3> QED
      BY Zenon, <3>1, <3>2
  <2> QED
    BY Zenon, <2>6, <2>7 DEF RGTold
<1> QED
  BY Zenon, <1>7, <1>8, <1>9, <1>10, <1>11 DEF RGInv, RGOK, RGListened
-----------------------------------------------------------------------------
\* Facts about finite sets and what they count.
INSTANCE FiniteSetTheorems

\* Cardinality is that of the part.
LEMMA RGSameCount ==
    ASSUME NEW S
    PROVE  RG!Cardinality(S) = Cardinality(S)
  BY Zenon DEF Cardinality, RG!Cardinality, IsFiniteSet, RG!IsFiniteSet

\* Once all is quiet, a subscriber has the values in etcd, but for the gaps and for a key that got
\* another value; and but for such a key, no value of an exclusive one has two keys.
THEOREM SubscribersHaveTheValues ==
    ASSUME RG!RegistryAssumption
    PROVE  RG!Spec => [](RG!OnlyGapsLoseValues /\ RG!ExclusiveIsOneToOne)
<1>1. RG!Init => RGInv
  BY Zenon, RGInit
<1>2. RGInv /\ [RG!Next]_rg => RGInv'
  <2> SUFFICES ASSUME RGInv, [RG!Next]_rg PROVE RGInv'
    OBVIOUS
  <2>1. CASE UNCHANGED rg
    <3>1. RGType' /\ RGPlaces'
      BY Zenon, <2>1 DEF RGInv, RGOK, RGType, RGPlaces
    <3>2. RGKnown'
      BY Zenon, <2>1, RGSameKnown
    <3>3. RGHeld' /\ RGListened'
      BY Zenon, <2>1, RGSameTold
    <3> QED
      BY Zenon, <3>1, <3>2, <3>3 DEF RGInv, RGOK
  <2>2. CASE RG!Next
    BY SMTT(40), <2>2, RGEtcdChange, RGMonitor, RGRegister, RGGet, RGHandleChanges, RGWatch, RGStreams,
       RGApply, RGReloads, RGOnAdd, RGOnDelete DEF RG!Next, RG!Step
  <2> QED
    BY Zenon, <2>1, <2>2
<1>3. ASSUME RGInv PROVE RG!OnlyGapsLoseValues
  <2> SUFFICES ASSUME RG!Settled, ~rg.changed, ~rg.raced, NEW t \in rg.listeners \ Exclusive
               PROVE  RG!Got(t) = RG!InEtcd
    BY Zenon DEF RG!OnlyGapsLoseValues
  <2>1. t \in Subs /\ rg.pc[t] # "new"
    BY Zenon, <1>3 DEF RGInv, RGOK, RGType, RGPlaces
  <2>2. \A k \in Keys : rg.values[k] = rg.etcd[k]
    <3>1. RGCovered
      BY Zenon DEF RG!Settled, RGCovered
    <3>2. ASSUME NEW s \in RG!Procs, NEW k \in Keys PROVE ~RGBehind(s, k)
      <4>1. /\ rg.pc[s] \in {"new", "stream", "off"} /\ rg.from[s] \in Nat
            /\ rg.pc[s] = "stream" => rg.from[s] = Len(rg.log)
        BY Zenon, <1>3 DEF RG!Settled, RG!At, RGInv, RGOK, RGType
      <4> QED
        BY <4>1 DEF RGBehind
    <3> QED
      BY Zenon, <1>3, <3>1, <3>2 DEF RGInv, RGKnown, RGTracks
  <2>3. \A k \in Keys : rg.items[t].mapping[k] = rg.values[k]
    <3>1. \A s \in RG!Procs, k \in Keys : ~RGTells(s, t, k)
      BY DEF RG!Settled, RG!Idle, RG!NoCalls, RGTells
    <3>2. RGTold
      BY Zenon, <1>3 DEF RGInv, RGListened
    <3> QED
      BY Zenon, <2>1, <3>1, <3>2 DEF RGTold
  <2>4. \A v \in Values : rg.items[t].held[v] = {k \in Keys : rg.items[t].mapping[k] = v}
    BY Zenon, <1>3, <2>1 DEF RGInv, RGHeld, RGMatch
  <2>5. rg.etcd \in [Keys -> Values \cup {Unset}]
    BY Zenon, <1>3 DEF RGInv, RGOK, RGType, RGPairs
  <2> QED
    BY <2>2, <2>3, <2>4, <2>5 DEF RG!Got, RG!InEtcd, RG!RegistryAssumption
<1>4. ASSUME RGInv PROVE RG!ExclusiveIsOneToOne
  <2> SUFFICES ASSUME ~rg.changed, NEW t \in Exclusive, NEW v \in Values
               PROVE  RG!Cardinality(rg.items[t].held[v]) <= 1
    BY Zenon DEF RG!ExclusiveIsOneToOne
  <2>1. \A j, k \in rg.items[t].held[v] : j = k
    BY Zenon, <1>4 DEF RGInv, RGHeld, RGOne
  <2>2. rg.items[t].held[v] = {} \/ \E k : rg.items[t].held[v] = {k}
    BY Zenon, <2>1
  <2>3. Cardinality({}) = 0 /\ \A k : Cardinality({k}) = 1
    BY Zenon, FS_EmptySet, FS_Singleton
  <2>4. Cardinality(rg.items[t].held[v]) \in {0, 1}
    BY Zenon, <2>2, <2>3
  <2> QED
    BY <2>4, RGSameCount
<1> QED
  BY <1>1, <1>2, <1>3, <1>4, PTL DEF RG!Spec
-----------------------------------------------------------------------------
\* A publisher (Publisher.tla): as long as no revoke has failed, at most the current lease has the
\* pair, and none has it while a lease is being asked for or the publisher is paused.

PB == INSTANCE Publisher WITH MaxPauses <- MaxPublisherPauses, MaxErrors <- MaxEtcdErrors

\* Cardinality is that of the part.
LEMMA PBSameCount ==
    ASSUME NEW S
    PROVE  PB!Cardinality(S) = Cardinality(S)
  BY Zenon DEF Cardinality, PB!Cardinality, IsFiniteSet, PB!IsFiniteSet

PBUnpublished == {"new", "register", "put", "paused"}

PBOwn == pb.put \subseteq {pb.lease} /\ (pb.pc \in PBUnpublished => pb.put = {})

PBInv ==
    /\ DOMAIN pb = {"pc", "lease", "next", "put", "granted", "kept", "quit", "pauses", "resumes",
                    "pausesMade", "resumesMade", "errors", "failed", "unrevoked"}
    /\ ~pb.unrevoked => PBOwn

\* What the goroutine does, and what happens to it, keeps that.
LEMMA PBKeeps ==
    ASSUME PBInv, PB!Next
    PROVE  PBInv'
<1>1. DOMAIN pb' = DOMAIN pb
  BY Zenon DEF PBInv, PB!Next, PB!Goroutine, PB!Grant, PB!Put, PB!KeepAliveAsync, PB!TakePause,
     PB!TakeQuit, PB!Revoke, PB!Revoked, PB!TakeResume, PB!QuitPaused, PB!KeepAliveFails,
     PB!ChannelCloses, PB!Pause, PB!Resume, PB!Stop, PB!LeaseEnds
<1>2. CASE PB!Grant \/ PB!KeepAliveAsync \/ PB!KeepAliveFails \/ PB!ChannelCloses \/ PB!TakePause
           \/ PB!TakeQuit \/ PB!TakeResume \/ PB!QuitPaused \/ PB!Pause \/ PB!Resume \/ PB!Stop
  <2>1. /\ pb'.put = pb.put /\ pb'.lease = pb.lease /\ pb'.unrevoked = pb.unrevoked
        /\ pb'.pc \in PBUnpublished => pb.pc \in PBUnpublished
    BY ZenonT(40), <1>2 DEF PBInv, PBUnpublished, PB!Grant, PB!KeepAliveAsync, PB!TakePause, PB!TakeQuit,
       PB!TakeResume, PB!QuitPaused, PB!KeepAliveFails, PB!ChannelCloses, PB!Pause, PB!Resume,
       PB!Stop
  <2> QED
    BY Zenon, <1>1, <2>1 DEF PBInv, PBOwn
<1>3. CASE PB!Put
  <2>1. /\ pb'.put = pb.put \cup ({pb.next - 1} \cap pb.granted) /\ pb'.lease = pb.next - 1
        /\ pb'.unrevoked = pb.unrevoked /\ pb.pc = "put" /\ pb'.pc = "keep"
    BY Zenon, <1>3 DEF PBInv, PB!Put
  <2> QED
    BY Zenon, <1>1, <2>1 DEF PBInv, PBOwn, PBUnpublished
<1>4. CASE PB!Revoke
  <2>1. CASE pb' = PB!Revoked
    <3>1. /\ pb'.put = pb.put \ {pb.lease} /\ pb'.lease = pb.lease
          /\ pb'.unrevoked = pb.unrevoked
      BY Zenon, <2>1 DEF PBInv, PB!Revoked
    <3> QED
      BY Zenon, <1>1, <3>1 DEF PBInv, PBOwn
  <2>2. CASE pb' = [pb EXCEPT !.errors = @ + 1, !.unrevoked = TRUE, !.pc = PB!After[@]]
    BY Zenon, <1>1, <2>2 DEF PBInv
  <2> QED
    BY Zenon, <1>4, <2>1, <2>2 DEF PB!Revoke
<1>5. ASSUME NEW l \in PB!Leases, PB!LeaseEnds(l) PROVE PBInv'
  <2>1. /\ pb'.put = pb.put \ {l} /\ pb'.lease = pb.lease /\ pb'.pc = pb.pc
        /\ pb'.unrevoked = pb.unrevoked
    BY Zenon, <1>5 DEF PBInv, PB!LeaseEnds
  <2> QED
    BY Zenon, <1>1, <2>1 DEF PBInv, PBOwn
<1> QED
  BY <1>2, <1>3, <1>4, <1>5 DEF PB!Next, PB!Goroutine

\* While it is paused the pair is not in etcd, and two leases never have it, unless a revoke failed.
THEOREM OnePairIsPublished ==
    PB!Spec => [](PB!PausedIsWithdrawn /\ PB!OnlyErrorPublishesTwice)
<1>1. PB!Init => PBInv
  BY DEF PB!Init, PBInv, PBOwn
<1>2. PBInv /\ [PB!Next]_pb => PBInv'
  BY Zenon, PBKeeps DEF PBInv, PBOwn
<1>3. PBInv => PB!PausedIsWithdrawn
  BY Zenon DEF PBInv, PBOwn, PBUnpublished, PB!PausedIsWithdrawn
<1>4. PBInv => PB!OnlyErrorPublishesTwice
  <2> SUFFICES ASSUME pb.put \subseteq {pb.lease} PROVE PB!Cardinality(pb.put) <= 1
    BY Zenon DEF PBInv, PBOwn, PB!OnlyErrorPublishesTwice
  <2>1. pb.put = {} \/ pb.put = {pb.lease}
    OBVIOUS
  <2>2. Cardinality({}) = 0 /\ Cardinality({pb.lease}) = 1
    BY Zenon, FS_EmptySet, FS_Singleton
  <2> QED
    BY <2>1, <2>2, PBSameCount
<1> QED
  BY <1>1, <1>2, <1>3, <1>4, PTL DEF PB!Spec
-----------------------------------------------------------------------------
\* Discovery agrees with etcd.  Subscriber: once all is quiet it has the values in etcd, unless a
\* change fell into a gap, and no value of an exclusive one has two keys; both unless a key that it
\* had was given another value.  Publisher: while paused the pair is not in etcd, and two leases have
\* it, only after a revoke failed.
DiscoveryAgrees ==
    /\ RG!OnlyGapsLoseValues /\ RG!ExclusiveIsOneToOne
    /\ PB!PausedIsWithdrawn /\ PB!OnlyErrorPublishesTwice

\* It does: for any number of subscribers, keys, values, changes, broken watches and failed calls.
THEOREM DiscoveryAlwaysAgrees ==
    ASSUME RG!RegistryAssumption
    PROVE  RG!Spec /\ PB!Spec => []DiscoveryAgrees
<1>1. RG!OnlyGapsLoseValues /\ RG!ExclusiveIsOneToOne /\ PB!PausedIsWithdrawn
          /\ PB!OnlyErrorPublishesTwice => DiscoveryAgrees
  BY Zenon DEF DiscoveryAgrees
<1> QED
  BY <1>1, SubscribersHaveTheValues, OnePairIsPublished, PTL
=============================================================================
