---------------------------- MODULE RollingWindow ----------------------------
(***************************************************************************)
(* A rolling window and a clock.  Every added value is the interval in     *)
(* which it was added.                                                     *)
(***************************************************************************)
EXTENDS Windows, SequencesExt

CONSTANTS
    Size, Interval,
    MaxTime, MaxAdds,
    MaxDrift            \* how much time can pass within Add

VARIABLE rw

\* slips is a ghost: the intervals by which lastTime moved more than offset did.
Init ==
    rw = [now |-> 0, win |-> NewWindow(Size, Interval, 0), added |-> <<>>, slips |-> 0]

Tick ==
    /\ rw.now < MaxTime
    /\ rw' = [rw EXCEPT !.now = @ + 1]

AddAt(drift) ==
    /\ Len(rw.added) < MaxAdds /\ rw.now + drift <= MaxTime
    /\ LET v    == rw.now \div Interval
           span == Span(rw.win, rw.now)
       IN  rw' = [now   |-> rw.now + drift,
                  win   |-> Add(rw.win, rw.now, rw.now + drift, v),
                  added |-> Append(rw.added, v),
                  slips |-> IF span = 0 THEN rw.slips
                            ELSE rw.slips + ((rw.now + drift) \div Interval) - v]

Next == Tick \/ \E drift \in 0..MaxDrift : AddAt(drift)

Spec == Init /\ [][Next]_rw

TypeOK ==
    /\ rw.win.offset \in 0..Size - 1
    /\ rw.win.lastTime <= rw.now /\ rw.win.lastTime % Interval = 0

-----------------------------------------------------------------------------
Current == rw.now \div Interval
Seen    == Reduce(rw.win, rw.now, FALSE)

Count(s, P(_)) == Len(SelectSeq(s, P))

\* Reduce sees every value that was added in the last Size intervals, the current one
\* included, once.
WindowForgetsNothing ==
    \A i \in 0..Current :
        Current - i < Size => Count(Seen, LAMBDA v : v = i) = Count(rw.added, LAMBDA v : v = i)

\* It sees nothing older, unless an interval ended between the two times that updateOffset
\* read the clock; each such slip makes what is in the window younger by an interval.
WindowStaleBySlips ==
    \A j \in DOMAIN Seen : Current - Seen[j] < Size + rw.slips

\* With IgnoreCurrentBucket it leaves out what was added in the current interval, and no more
\* when no slip has happened.
WindowIgnoresCurrent ==
    LET seen == Reduce(rw.win, rw.now, TRUE) IN
    rw.slips = 0 =>
        \A i \in 0..Current :
            Current - i < Size =>
                Count(seen, LAMBDA v : v = i) =
                    (IF i = Current THEN 0 ELSE Count(rw.added, LAMBDA v : v = i))

\* Reduce sees the window: all of the last Size intervals, nothing older but by slips of the clock
\* within updateOffset, and with IgnoreCurrentBucket all but the current interval.
ReduceSeesTheWindow == WindowForgetsNothing /\ WindowStaleBySlips /\ WindowIgnoresCurrent
=============================================================================
