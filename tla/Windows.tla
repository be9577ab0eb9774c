------------------------------ MODULE Windows ------------------------------
(***************************************************************************)
(* The rolling window of core/collection: a ring of buckets, one for each  *)
(* interval of time.  All operations hold its lock; the clock does not     *)
(* stand still meanwhile.  A bucket is the sequence of what was added to   *)
(* it: what Sum and Count say of it, its users compute.                    *)
(***************************************************************************)
EXTENDS Naturals, Sequences

\* NewRollingWindow, at time now.
NewWindow(size, interval, now) ==
    [buckets |-> [b \in 0..size - 1 |-> <<>>], offset |-> 0, lastTime |-> now,
     size |-> size, interval |-> interval]

\* span at time now.
Span(w, now) ==
    LET offset == (now - w.lastTime) \div w.interval
    IN  IF offset < w.size THEN offset ELSE w.size

\* Mutant of UpdateOffset: the bucket of the last Add is emptied too.
UpdateOffsetWide(w, now, later) ==
    LET span    == Span(w, now)
        expired == {(w.offset + i) % w.size : i \in 0..span}
    IN  IF span = 0 THEN w
        ELSE [w EXCEPT !.buckets = [b \in DOMAIN w.buckets |->
                                        IF b \in expired THEN <<>> ELSE w.buckets[b]],
                       !.offset = (w.offset + span) % w.size,
                       !.lastTime = later - ((later - w.lastTime) % w.interval)]

\* Mutant of UpdateOffset: the last time is not that of the begin of an interval.
UpdateOffsetUnaligned(w, now, later) ==
    LET span    == Span(w, now)
        expired == {(w.offset + i) % w.size : i \in 1..span}
    IN  IF span = 0 THEN w
        ELSE [w EXCEPT !.buckets = [b \in DOMAIN w.buckets |->
                                        IF b \in expired THEN <<>> ELSE w.buckets[b]],
                       !.offset = (w.offset + span) % w.size, !.lastTime = later]

\* updateOffset reads the clock twice: in span, at time now, and again, at time later.
UpdateOffset(w, now, later) ==
    LET span    == Span(w, now)
        expired == {(w.offset + i) % w.size : i \in 1..span}
    IN  IF span = 0 THEN w
        ELSE [w EXCEPT !.buckets = [b \in DOMAIN w.buckets |->
                                        IF b \in expired THEN <<>> ELSE w.buckets[b]],
                       !.offset = (w.offset + span) % w.size,
                       !.lastTime = later - ((later - w.lastTime) % w.interval)]

\* Add.
Add(w, now, later, v) ==
    LET u == UpdateOffset(w, now, later) IN [u EXCEPT !.buckets[u.offset] = Append(@, v)]

\* The buckets that Reduce visits at time now.
Visited(w, now, ignoreCurrent) ==
    LET span == Span(w, now)
        diff == IF span = 0 /\ ignoreCurrent THEN w.size - 1 ELSE w.size - span
    IN  {(w.offset + span + 1 + i) % w.size : i \in 0..diff - 1}

\* What a function gathers that appends every visited bucket.
Reduce(w, now, ignoreCurrent) ==
    LET gather[b \in 0..w.size] ==
            IF b = 0 THEN <<>>
            ELSE gather[b - 1] \o (IF b - 1 \in Visited(w, now, ignoreCurrent)
                                   THEN w.buckets[b - 1] ELSE <<>>)
    IN  gather[w.size]
=============================================================================
