-------------------------- MODULE AdaptiveShedder --------------------------
(***************************************************************************)
(* core/load/adaptiveshedder.go: Allow drops a request when the CPU is     *)
(* busy, or was when a request was dropped within the last coolOffDuration *)
(* (stillHot), and the requests in flight are more than the service has    *)
(* been able to handle (highThru).  Every field is read on its own.        *)
(*                                                                         *)
(* The averages (avgFlying, maxFlight of the two windows) are numbers that *)
(* the model chooses: maxFlight is at least 1, whatever the windows hold.  *)
(***************************************************************************)
EXTENDS Integers, FiniteSets

CONSTANTS Callers, CoolOff, MaxTime, MaxRequests

ShedderAssumption == IsFiniteSet(Callers) /\ CoolOff \in Nat

VARIABLE sh

\* since is a ghost: the time of the last finished drop; cooled: a caller took the flag back
\* for a drop time that it had read before that drop.
Init ==
    sh = [now |-> 1, busy |-> FALSE, flying |-> 0, dropTime |-> 0, recently |-> FALSE,
          pc |-> [c \in Callers |-> "idle"], read |-> [c \in Callers |-> 0], requests |-> 0,
          since |-> 0, cooled |-> FALSE]

At(c, l) == sh.pc[c] = l

Tick ==
    /\ sh.now < MaxTime
    /\ sh' = [sh EXCEPT !.now = @ + 1]

\* systemOverloadChecker is the CPU usage that another goroutine measures.
CpuChanges == sh' = [sh EXCEPT !.busy = ~@]

Allow(c) ==
    /\ At(c, "idle") /\ sh.requests < MaxRequests
    /\ sh' = [sh EXCEPT !.requests = @ + 1, !.pc[c] = IF sh.busy THEN "thru" ELSE "flag"]

\* stillHot: the flag,
LoadFlag(c) ==
    /\ At(c, "flag")
    /\ sh' = [sh EXCEPT !.pc[c] = IF sh.recently THEN "time" ELSE "fly"]

\* the time of the drop,
LoadTime(c) ==
    /\ At(c, "time")
    /\ sh' = [sh EXCEPT !.pc[c] = IF sh.dropTime = 0 THEN "fly" ELSE "hot", !.read[c] = sh.dropTime]

\* Mutant of StillHot: the flag is taken back while the service is hot.
StillHotCools(c) ==
    /\ At(c, "hot")
    /\ sh' = [sh EXCEPT !.pc[c] = IF sh.now - sh.read[c] < CoolOff THEN "thru" ELSE "fly",
                        !.recently = FALSE]

\* and whether that is long ago; the flag is then taken back.
StillHot(c) ==
    /\ At(c, "hot")
    /\ IF sh.now - sh.read[c] < CoolOff
       THEN sh' = [sh EXCEPT !.pc[c] = "thru"]
       ELSE sh' = [sh EXCEPT !.pc[c] = "fly", !.recently = FALSE,
                             !.cooled = @ \/ sh.read[c] # sh.dropTime \/ sh.read[c] # sh.since]

\* highThru: avgFlying and maxFlight are what they are, flying must be more than maxFlight.
HighThru(c) ==
    /\ At(c, "thru")
    /\ \/ sh' = [sh EXCEPT !.pc[c] = "fly"]
       \/ /\ sh.flying > 1
          /\ sh' = [sh EXCEPT !.pc[c] = "drop"]

\* Allow drops the request: the time,
SetTime(c) ==
    /\ At(c, "drop")
    /\ sh' = [sh EXCEPT !.pc[c] = "set", !.dropTime = sh.now]

\* and the flag.
SetFlag(c) ==
    /\ At(c, "set")
    /\ sh' = [sh EXCEPT !.pc[c] = "idle", !.recently = TRUE, !.since = sh.dropTime,
                        !.cooled = FALSE]

\* Or it lets the request through.
Fly(c) ==
    /\ At(c, "fly")
    /\ sh' = [sh EXCEPT !.pc[c] = "flying", !.flying = @ + 1]

\* Pass or Fail of the promise.
Land(c) ==
    /\ At(c, "flying")
    /\ sh' = [sh EXCEPT !.pc[c] = "idle", !.flying = @ - 1]

Next ==
    \/ Tick \/ CpuChanges
    \/ \E c \in Callers :
        \/ Allow(c) \/ LoadFlag(c) \/ LoadTime(c) \/ StillHot(c) \/ HighThru(c)
        \/ SetTime(c) \/ SetFlag(c) \/ Fly(c) \/ Land(c)

Spec == Init /\ [][Next]_sh

TypeOK == sh.flying \in 0..Cardinality(Callers) /\ sh.dropTime <= sh.now
-----------------------------------------------------------------------------
\* The counter is the requests in flight: neither a dropped nor a failed request stays in it.
FlyingIsInFlight == sh.flying = Cardinality({c \in Callers : At(c, "flying")})

\* For coolOffDuration after a drop the shedder stays hot, unless a caller that read an
\* earlier drop time takes the flag back.
OnlyRaceCoolsDown ==
    sh.since > 0 /\ sh.now - sh.since < CoolOff /\ ~sh.cooled => sh.recently

\* Shedding follows the load: the requests in flight are counted, and a drop is remembered for the
\* cool-off, but for the race of stillHot.
SheddingFollowsLoad == FlyingIsInFlight /\ OnlyRaceCoolsDown
=============================================================================
