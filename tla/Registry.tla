------------------------------ MODULE Registry ------------------------------
(***************************************************************************)
(* core/discov: a cluster of the registry keeps the pairs under one prefix *)
(* of etcd (load, watch, reload) and tells its listeners, the containers   *)
(* of the subscribers (subscriber.go), what was added and removed.         *)
(*                                                                         *)
(* A subscriber's Monitor runs in a process that becomes the watcher it    *)
(* starts; the watcher that a reload starts is the process Reloader.  etcd *)
(* is external: a map with a log of its changes, of which a watch sees     *)
(* those after it began.                                                   *)
(***************************************************************************)
EXTENDS Naturals, FiniteSets, Sequences

CONSTANTS
    Subs,               \* the subscribers, model values
    ExclusiveSubs,      \* those with the option Exclusive
    Reloader,           \* the process of the watcher that reload starts
    Keys, Values, Nil,
    MaxChanges,         \* bound on the changes in etcd
    MaxBreaks           \* bound on the watch streams that end, and on reloads

RegistryAssumption == Nil \notin Values /\ Reloader \notin Subs /\ ExclusiveSubs \subseteq Subs

VARIABLE rg

Procs == Subs \cup {Reloader}

None == [k \in Keys |-> Nil]
NoCalls == [add |-> {}, remove |-> {}]

\* values is c.values of the prefix; reload holds the lock, and done is closed, while it waits; from
\* is the revision that a load saw, or that a watch has come to; calls are the calls of listeners
\* that a process still has to make, to those in `to'.  The ghosts: changed, a subscriber was given
\* another value for a key that it still had; raced, a watch began later than its load, a change was
\* made while a Monitor was between its copy of the current pairs and its registration, or two
\* processes called listeners.
Init ==
    rg = [log |-> <<>>, etcd |-> None, values |-> None,
          listeners |-> {}, reload |-> "idle", breaks |-> 0,
          pc |-> [s \in Procs |-> IF s = Reloader THEN "off" ELSE "new"],
          from |-> [s \in Procs |-> 0], seen |-> [s \in Procs |-> None],
          calls |-> [s \in Procs |-> NoCalls], to |-> [s \in Procs |-> {}],
          items |-> [s \in Subs |-> [mapping |-> None, held |-> [v \in Values |-> {}]]],
          changed |-> FALSE, raced |-> FALSE]

At(s, l) == rg.pc[s] = l
Free     == rg.reload = "idle"
Idle(s)  == rg.calls[s] = NoCalls

\* A Monitor has copied the current pairs and its listener is not among those to be called.
Unheard(to) == \E t \in Subs : ~At(t, "new") /\ t \notin to
Mixing(s)   == \E t \in Procs \ {s} : ~Idle(t)

\* etcd puts or deletes (v = Nil) a pair.
EtcdChange(k, v) ==
    /\ Len(rg.log) < MaxChanges /\ rg.etcd[k] # v
    /\ rg' = [rg EXCEPT !.etcd[k] = v, !.log = Append(@, <<k, v>>)]
-----------------------------------------------------------------------------
Pairs(m) == {<<k, m[k]>> : k \in {j \in Keys : m[j] # Nil}}

\* Monitor: getCluster, and getCurrent when there was one; OnAdd for each pair.
Monitor(s) ==
    /\ At(s, "new") /\ Free
    /\ rg' = [rg EXCEPT !.pc[s] = "register", !.to[s] = {s},
                        !.calls[s] = [add |-> Pairs(rg.values), remove |-> {}]]

\* monitor adds the listener.
Register(s) ==
    /\ At(s, "register") /\ Idle(s) /\ Free
    /\ rg' = [rg EXCEPT !.listeners = @ \cup {s}, !.to[s] = {}, !.pc[s] = "get"]

\* load: the answer of etcd, after any number of errors.
Get(s) ==
    /\ At(s, "get")
    /\ rg' = [rg EXCEPT !.seen[s] = rg.etcd, !.from[s] = Len(rg.log), !.pc[s] = "load"]

\* Mutant of HandleChanges: what is gone from etcd is not withdrawn.
HandleChangesAdds(s) ==
    /\ At(s, "load") /\ Free
    /\ LET m == rg.seen[s] IN
       rg' = [rg EXCEPT !.values = m, !.seen[s] = None, !.pc[s] = "watch",
                        !.to[s] = rg.listeners, !.raced = @ \/ Unheard(rg.listeners) \/ Mixing(s),
                        !.calls[s] = [add |-> Pairs(m) \ Pairs(rg.values), remove |-> {}]]

\* handleChanges: the differences to the pairs known before, which are replaced; what is new is
\* announced before what is gone.
HandleChanges(s) ==
    /\ At(s, "load") /\ Free
    /\ LET m == rg.seen[s] IN
       rg' = [rg EXCEPT !.values = m, !.seen[s] = None, !.pc[s] = "watch",
                        !.to[s] = rg.listeners, !.raced = @ \/ Unheard(rg.listeners) \/ Mixing(s),
                        !.calls[s] = [add    |-> Pairs(m) \ Pairs(rg.values),
                                      remove |-> {p[1] : p \in Pairs(rg.values) \ Pairs(m)}]]

\* watchStream begins: it asks etcd for changes from now on, not from the revision of load.
Watch(s) ==
    /\ rg.pc[s] \in {"watch", "rewatch"} /\ Idle(s)
    /\ rg' = [rg EXCEPT !.pc[s] = "stream", !.from[s] = Len(rg.log), !.to[s] = {},
                        !.raced = @ \/ rg.from[s] < Len(rg.log)]

\* handleWatchEvents, for one event: the listeners,
Event(s) ==
    /\ At(s, "stream") /\ Idle(s) /\ rg.from[s] < Len(rg.log)
    /\ rg' = [rg EXCEPT !.pc[s] = "listeners", !.to[s] = {}]

CopyListeners(s) ==
    /\ At(s, "listeners") /\ Free
    /\ rg' = [rg EXCEPT !.to[s] = rg.listeners, !.pc[s] = "apply"]

\* then the pair; only the put takes the lock.
Apply(s) ==
    /\ At(s, "apply")
    /\ LET k == rg.log[rg.from[s] + 1][1]
           v == rg.log[rg.from[s] + 1][2]
       IN  /\ v = Nil \/ Free
           /\ rg' = [rg EXCEPT !.values[k] = v, !.from[s] = @ + 1, !.pc[s] = "stream",
                               !.raced = @ \/ Unheard(rg.to[s]) \/ Mixing(s),
                               !.calls[s] = IF v = Nil THEN [add |-> {}, remove |-> {k}]
                                            ELSE [add |-> {<<k, v>>}, remove |-> {}]]

\* The stream of etcd is closed, canceled or in error: watch begins another one.
StreamEnds(s) ==
    /\ At(s, "stream") /\ Idle(s) /\ rg.breaks < MaxBreaks
    /\ rg' = [rg EXCEPT !.pc[s] = "rewatch", !.breaks = @ + 1]

WatcherQuits(s) ==
    /\ At(s, "stream") /\ Idle(s) /\ ~Free
    /\ rg' = [rg EXCEPT !.pc[s] = "off", !.to[s] = {}, !.from[s] = 0]
-----------------------------------------------------------------------------
\* doRemoveKey: each of the keys leaves the value that mapping has for it.
WithoutKeys(c, keys) ==
    [mapping |-> [k \in Keys |-> IF k \in keys THEN Nil ELSE c.mapping[k]],
     held    |-> [v \in Values |-> c.held[v] \ {k \in keys : c.mapping[k] = v}]]

\* addKv: the earlier keys of the value leave an exclusive container.  A key that had another value
\* stays with that one as well.  (doRemoveKey compacts the slice that addKv ranges over, which makes
\* it pass over some of three keys or more; a value has so many only after a key was changed.)
WithKey(c, k, v, exclusive) ==
    LET b == IF exclusive THEN WithoutKeys(c, c.held[v]) ELSE c
    IN  [mapping |-> [b.mapping EXCEPT ![k] = v], held |-> [b.held EXCEPT ![v] = @ \cup {k}]]

\* OnAdd and OnDelete of the listeners, in the order in which a process makes the calls; which
\* pair comes first is the order of a Go map.
OnAdd(s) ==
    \E p \in rg.calls[s].add :
        rg' = [rg EXCEPT !.calls[s].add = @ \ {p},
                         !.items = [t \in Subs |-> IF t \in rg.to[s]
                                      THEN WithKey(@[t], p[1], p[2], t \in ExclusiveSubs)
                                      ELSE @[t]],
                         !.changed = @ \/ \E t \in rg.to[s] :
                                              rg.items[t].mapping[p[1]] \notin {Nil, p[2]}]

OnDelete(s) ==
    /\ rg.calls[s].add = {}
    /\ \E k \in rg.calls[s].remove :
        rg' = [rg EXCEPT !.calls[s].remove = @ \ {k},
                         !.items = [t \in Subs |-> IF t \in rg.to[s] THEN WithoutKeys(@[t], {k})
                                                                    ELSE @[t]]]
-----------------------------------------------------------------------------
\* The processes of watchGroup.
Watchers ==
    {s \in Procs : \/ rg.pc[s] \in {"stream", "rewatch", "listeners", "apply"}
                   \/ s = Reloader /\ ~At(s, "off")}

\* The connection to etcd is back: reload takes the lock and closes done,
Reload ==
    /\ rg.reload = "idle" /\ Free /\ rg.breaks < MaxBreaks
    /\ rg.listeners # {}
    /\ rg' = [rg EXCEPT !.reload = "wait", !.breaks = @ + 1]

\* waits for the watchers, still with the lock, and starts one that loads and watches.
Reloaded ==
    /\ rg.reload = "wait" /\ Watchers = {}
    /\ rg' = [rg EXCEPT !.reload = "idle", !.pc[Reloader] = "get"]

Step(s) ==
    \/ Monitor(s) \/ Register(s) \/ Get(s) \/ HandleChanges(s) \/ Watch(s) \/ Event(s)
    \/ CopyListeners(s) \/ Apply(s) \/ WatcherQuits(s) \/ OnAdd(s) \/ OnDelete(s)

Next ==
    \/ \E k \in Keys, v \in Values \cup {Nil} : EtcdChange(k, v)
    \/ \E s \in Procs : Step(s) \/ StreamEnds(s)
    \/ Reload \/ Reloaded

Spec == Init /\ [][Next]_rg

\* Every process goes on.
FairSpec == Spec /\ WF_rg(Reloaded) /\ \A s \in Procs : WF_rg(Step(s))

\* mapping and values of a container agree, and no watcher is ahead of etcd.
TypeOK ==
    /\ rg.listeners \subseteq Subs
    /\ \A s \in Procs : rg.from[s] <= Len(rg.log)
    /\ \A s \in Subs, k \in Keys :
            LET c == rg.items[s] IN c.mapping[k] # Nil => k \in c.held[c.mapping[k]]
-----------------------------------------------------------------------------
\* What Values returns for subscriber s.
Got(s)   == {v \in Values : rg.items[s].held[v] # {}}
InEtcd   == {rg.etcd[k] : k \in Keys} \ {Nil}

\* All events have been handled and all calls made.
Settled ==
    /\ rg.reload = "idle" /\ rg.listeners # {}
    /\ \A s \in Procs : /\ Idle(s) /\ rg.pc[s] \in {"new", "stream", "off"}
                        /\ At(s, "stream") => rg.from[s] = Len(rg.log)

\* Once all is quiet, every subscriber has the values in etcd, unless a change fell between a load
\* and its watch, or between the two steps of a Monitor, or two processes called listeners at once,
\* or a subscriber was given another value for a key that it still had: such a key stays with its
\* first value, and a reload withdraws it after it has announced the second.
OnlyGapsLoseValues ==
    Settled /\ ~rg.changed /\ ~rg.raced
        => \A s \in rg.listeners \ ExclusiveSubs : Got(s) = InEtcd

\* Exclusive: "key value can only be 1:1": no value of an exclusive subscriber has two keys, unless a
\* subscriber was given another value for a key that it still had.
ExclusiveIsOneToOne ==
    ~rg.changed
        => \A s \in ExclusiveSubs, v \in Values : Cardinality(rg.items[s].held[v]) <= 1

\* reload gets all watchers to end, unless one of them needs the lock, which reload holds while it
\* waits: both then wait for ever, and with them every later Monitor.
NeedsLock(s) ==
    \/ rg.pc[s] \in {"listeners", "load"}
    \/ At(s, "apply") /\ rg.log[rg.from[s] + 1][2] # Nil

OnlyBusyWatcherBlocksReload ==
    rg.reload = "wait" ~> rg.reload = "idle" \/ \E s \in Watchers : NeedsLock(s)
=============================================================================
