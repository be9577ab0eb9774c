------------------------------- MODULE Stream -------------------------------
(***************************************************************************)
(* The streams of core/fx: every operation that returns a Stream starts a  *)
(* goroutine that ranges over the channel of the one before and sends to a *)
(* channel of its own.  A pipeline is a sequence of stages, the source the *)
(* first and the terminal operation the last.                              *)
(*                                                                         *)
(* A stage has the sends it still has to make (pend; in their order, or,   *)
(* when several goroutines make them, in any), the buffer of its channel   *)
(* and whether it closed it.  An element is the sequence of the source     *)
(* items that it groups.                                                   *)
(***************************************************************************)
EXTENDS Naturals, SequencesExt

CONSTANTS
    Items,          \* the items of the source, a sequence of numbers
    Others,         \* the items of the stream that Concat adds
    Workers,        \* the workers of Walk
    N,              \* the argument of Head, Skip, Split, Tail and Buffer
    Pipelines       \* pairs of the sequence of stages and the terminal operation of a pipeline

VARIABLE fx         \* the stages of the pipeline; <<>> before it is built

\* The functions the caller gives: a key, an order, and a predicate; Walk drops what the
\* predicate refuses, as Filter does, or as a function that panics does in GoSafe.
Key(e)     == e[1] % 2
Less(d, e) == d[1] < e[1]
Pred(e)    == e[1] # 2

Elements(s) == [i \in DOMAIN s |-> <<s[i]>>]

\* The ring of core/collection, which Tail uses: a circular slice, a function from 0.
\* NewRing(n).
NewRing(n, nil) == [elements |-> [i \in 0..n - 1 |-> nil], index |-> 0, n |-> n]

\* Add of ring.go.
RingAdd(r, v) == [r EXCEPT !.elements[r.index % r.n] = v, !.index = @ + 1]

\* Take of ring.go.
RingTake(r) ==
    LET size  == IF r.index > r.n THEN r.n ELSE r.index
        start == IF r.index > r.n THEN r.index % r.n ELSE 0
    IN  [i \in 1..size |-> r.elements[(start + i - 1) % r.n]]

Collects  == {"Group", "Merge", "Reverse", "Sort"}  \* ranges before the next stage is made

\* Capacity of the channel that a stage makes.
Cap(kind) ==
    CASE kind = "Buffer"                       -> N
      [] kind \in {"Walk", "WalkUnlimited"}    -> Workers
      [] kind \in {"Just", "Reverse", "Sort"}  -> Len(Items) + Len(Others)
      [] kind = "Merge"                        -> 1
      [] OTHER                                 -> 0

\* `left' counts n down, `acc' is what the stage gathered, `ext' what the other goroutine of
\* Concat still has to forward, `eof' that the range is over, `res' what a terminal returned.
Stage(kind) ==
    [kind |-> kind, left |-> N, acc |-> <<>>, val |-> <<>>, ring |-> NewRing(N, <<>>),
     pend |-> IF kind = "From" THEN Elements(Items) ELSE <<>>,
     ext  |-> IF kind = "Concat" THEN Elements(Others) ELSE <<>>,
     buf  |-> IF kind = "Just" THEN Elements(Items) ELSE <<>>,
     eof  |-> kind \in {"From", "Just"}, closed |-> kind = "Just", res |-> <<>>, quit |-> FALSE]

\* From or Just, the stages, and the terminal operation.
Build(source, stages, terminal) ==
    /\ Cardinality({i \in DOMAIN stages : stages[i] = "Concat"}) < 2
    /\ fx' = <<Stage(source)>> \o [i \in DOMAIN stages |-> Stage(stages[i])] \o <<Stage(terminal)>>

-----------------------------------------------------------------------------
\* The sends that may complete now: a goroutine makes its sends one after the other.
Sendable(s) ==
    IF s.kind \in {"Walk", "WalkUnlimited"} THEN {k \in DOMAIN s.pend : Pred(s.pend[k])}
    ELSE IF s.kind \in {"Concat", "Group"} THEN DOMAIN s.pend
    ELSE IF s.pend = <<>> THEN {} ELSE {1}

Sent(s, k) == [s EXCEPT !.pend = RemoveAt(@, k)]

\* A send to a channel that has room.
Send(i) ==
    /\ Len(fx[i].buf) < Cap(fx[i].kind)
    /\ \E k \in Sendable(fx[i]) :
        fx' = [fx EXCEPT ![i] = [Sent(@, k) EXCEPT !.buf = Append(@, fx[i].pend[k])]]

\* The goroutine of Concat for the other stream takes its next element.
ConcatOther(i) ==
    /\ fx[i].kind = "Concat" /\ fx[i].ext # <<>>
    /\ ~\E k \in DOMAIN fx[i].pend : fx[i].pend[k] \in ToSet(Elements(Others))
    /\ fx' = [fx EXCEPT ![i].pend = Append(@, Head(fx[i].ext)), ![i].ext = Tail(@)]

\* Stage i is at the receive of its range.  walkLimited receives an element before it
\* waits for its pool (val); a terminal operation receives until it returns, and then
\* `go drain' does, but for Reduce.
Receives(s) ==
    /\ ~s.eof /\ ~s.quit
    /\ CASE s.kind \in {"Walk", "WalkUnlimited"} -> s.val = <<>>
         [] s.kind = "Concat" ->
                ~\E k \in DOMAIN s.pend : s.pend[k] \notin ToSet(Elements(Others))
         [] OTHER -> s.pend = <<>> /\ (s.kind = "Head" => s.closed \/ s.left > 0)

\* The loop body of Head; what comes after n elements is drained.
HandleHead(s, e) ==
    IF s.left = 0 THEN s ELSE [s EXCEPT !.left = @ - 1, !.pend = <<e>>]

\* Mutant of HandleSkip: one element less is skipped.
HandleSkipLess(s, e) ==
    IF s.left > 1 THEN [s EXCEPT !.left = @ - 1] ELSE [s EXCEPT !.pend = <<e>>]

\* The loop body of Skip.
HandleSkip(s, e) ==
    IF s.left > 0 THEN [s EXCEPT !.left = @ - 1] ELSE [s EXCEPT !.pend = <<e>>]

\* The loop body of Distinct.
HandleDistinct(s, e) ==
    IF Key(e) \in ToSet(s.acc) THEN s
    ELSE [s EXCEPT !.pend = <<e>>, !.acc = Append(@, Key(e))]

\* The loop body of Split.
HandleSplit(s, e) ==
    IF s.left = 1 THEN [s EXCEPT !.pend = <<s.acc \o e>>, !.acc = <<>>, !.left = N]
    ELSE [s EXCEPT !.acc = @ \o e, !.left = @ - 1]

\* What a terminal operation returns on element e; it goes on when it is not decided.
Decides(kind, e) ==
    CASE kind \in {"First", "ForAll", "Reduce"} -> TRUE
      [] kind \in {"AnyMach", "NoneMatch"}      -> Pred(e)
      [] kind = "AllMach"                       -> ~Pred(e)
      [] OTHER                                  -> FALSE

\* First, AnyMach, AllMach, NoneMatch, ForAll and Reduce (their functions read one
\* element), and Count, Last, ForEach and Done, which read all.
HandleTerminal(s, e) ==
    IF s.res # <<>> THEN s
    ELSE IF Decides(s.kind, e)
         THEN [s EXCEPT !.res = IF s.kind = "First" THEN <<e>> ELSE <<s.kind = "AnyMach">>,
                        !.quit = s.kind = "Reduce"]
    ELSE [s EXCEPT !.acc = Append(@, e)]

Handle(s, e) ==
    CASE s.kind = "Head"                       -> HandleHead(s, e)
      [] s.kind = "Skip"                       -> HandleSkip(s, e)
      [] s.kind = "Distinct"                   -> HandleDistinct(s, e)
      [] s.kind = "Split"                      -> HandleSplit(s, e)
      [] s.kind = "Tail"                       -> [s EXCEPT !.ring = RingAdd(@, e)]
      [] s.kind \in {"Buffer", "Concat"}       -> [s EXCEPT !.pend = Append(@, e)]
      [] s.kind \in {"Walk", "WalkUnlimited"}  -> [s EXCEPT !.val = <<e>>]
      [] s.kind \in Collects                   -> [s EXCEPT !.acc = Append(@, e)]
      [] OTHER                                 -> HandleTerminal(s, e)

\* A receive from the buffer of the stage before, or from a goroutine blocked in its send.
Receive(i) ==
    /\ i > 1 /\ Receives(fx[i])
    /\ \/ /\ fx[i - 1].buf # <<>>
          /\ fx' = [fx EXCEPT ![i] = Handle(@, Head(fx[i - 1].buf)), ![i - 1].buf = Tail(@)]
       \/ /\ Cap(fx[i - 1].kind) = 0
          /\ \E k \in Sendable(fx[i - 1]) :
                fx' = [fx EXCEPT ![i] = Handle(@, fx[i - 1].pend[k]), ![i - 1] = Sent(@, k)]

\* walkLimited gets a place in its pool and starts the worker, walkUnlimited starts it.
StartWorker(i) ==
    /\ fx[i].val # <<>>
    /\ fx[i].kind = "Walk" => Len(fx[i].pend) < Workers
    /\ fx' = [fx EXCEPT ![i].val = <<>>, ![i].pend = Append(@, fx[i].val[1])]

\* A worker whose function writes nothing, or panics.
WorkerWritesNothing(i) ==
    /\ fx[i].kind \in {"Walk", "WalkUnlimited"}
    /\ \E k \in DOMAIN fx[i].pend :
        /\ ~Pred(fx[i].pend[k])
        /\ fx' = [fx EXCEPT ![i] = Sent(@, k)]
-----------------------------------------------------------------------------
GroupOf(s, k) == FlattenSeq(SelectSeq(s, LAMBDA e : Key(e) = k))
Groups(s)     == SelectSeq(<<GroupOf(s, 0), GroupOf(s, 1)>>, LAMBDA g : g # <<>>)

\* What Merge, Reverse and Sort make of the elements they gathered.
Merged(s)   == <<FlattenSeq(s)>>
Reversed(s) == [j \in DOMAIN s |-> s[Len(s) + 1 - j]]
Ordered(s)  == SortSeq(s, Less)

\* What a stage sends after its range: the last chunk of Split, Take of the ring of Tail,
\* and what Group, Merge, Reverse and Sort made of all elements.
AtEnd(s) ==
    CASE s.kind = "Split"   -> IF s.acc = <<>> THEN <<>> ELSE <<s.acc>>
      [] s.kind = "Tail"    -> RingTake(s.ring)
      [] s.kind = "Group"   -> Groups(s.acc)
      [] s.kind = "Merge"   -> Merged(s.acc)
      [] s.kind = "Reverse" -> Reversed(s.acc)
      [] s.kind = "Sort"    -> Ordered(s.acc)
      [] OTHER              -> <<>>

\* What a terminal operation returns when the channel is closed.
AtClose(s) ==
    CASE s.res # <<>>                         -> s.res
      [] s.kind = "Count"                     -> <<Len(s.acc)>>
      [] s.kind = "Last"                      -> <<IF s.acc = <<>> THEN <<>> ELSE Last(s.acc)>>
      [] s.kind = "First"                     -> <<<<>>>>
      [] s.kind = "AnyMach"                   -> <<FALSE>>
      [] s.kind \in {"AllMach", "NoneMatch"}  -> <<TRUE>>
      [] OTHER                                -> <<s.acc>>

\* The range of stage i ends: the channel of the stage before is closed and empty.
RangeEnds(i) ==
    /\ i > 1 /\ Receives(fx[i])
    /\ fx[i - 1].closed /\ fx[i - 1].buf = <<>>
    /\ fx' = [fx EXCEPT ![i].eof = TRUE, ![i].pend = @ \o AtEnd(fx[i]),
                        ![i].res = IF i = Len(fx) THEN AtClose(fx[i]) ELSE @]

\* A stage closes its channel once all its goroutines are done, Head after n elements.
Close(i) ==
    /\ i < Len(fx) /\ ~fx[i].closed /\ fx[i].pend = <<>> /\ fx[i].ext = <<>>
    /\ fx[i].eof \/ (fx[i].kind = "Head" /\ fx[i].left = 0)
    /\ fx' = [fx EXCEPT ![i].closed = TRUE]

Step(i) ==
    /\ i \in DOMAIN fx
    /\ \/ Send(i) \/ ConcatOther(i) \/ Receive(i) \/ StartWorker(i) \/ WorkerWritesNothing(i)
       \/ RangeEnds(i) \/ Close(i)

Init == fx = <<>>

Next ==
    \/ fx = <<>> /\ \E source \in {"From", "Just"}, p \in Pipelines : Build(source, p[1], p[2])
    \/ \E i \in DOMAIN fx : Step(i)

Spec == Init /\ [][Next]_fx

MaxLength == 2 + Max({Len(p[1]) : p \in Pipelines})

\* Every goroutine goes on while it can.
FairSpec == Spec /\ \A i \in 1..MaxLength : WF_fx(Step(i))

TypeOK ==
    \A i \in DOMAIN fx :
        /\ Len(fx[i].buf) <= Cap(fx[i].kind)
        /\ fx[i].kind = "Walk" => Len(fx[i].pend) <= Workers
        /\ fx[i].closed => fx[i].pend = <<>>
-----------------------------------------------------------------------------
Chunks(s) ==
    [c \in 1..(Len(s) + N - 1) \div N |->
        FlattenSeq(SubSeq(s, (c - 1) * N + 1, IF c * N < Len(s) THEN c * N ELSE Len(s)))]

Permutations1(s) ==
    {[j \in DOMAIN s |-> s[p[j]]] : p \in {f \in [DOMAIN s -> DOMAIN s] : IsInjective(f)}}

\* The sequences that an operation may make of the sequence s, by its documentation.
Outcomes(kind, s) ==
    CASE kind = "Head"     -> {SubSeq(s, 1, IF Len(s) < N THEN Len(s) ELSE N)}
      [] kind = "Skip"     -> {SubSeq(s, N + 1, Len(s))}
      [] kind = "Tail"     -> {SubSeq(s, IF Len(s) > N THEN Len(s) - N + 1 ELSE 1, Len(s))}
      [] kind = "Split"    -> {Chunks(s)}
      [] kind = "Distinct" ->
            {FlattenSeq([j \in DOMAIN s |->
                IF \E h \in 1..j - 1 : Key(s[h]) = Key(s[j]) THEN <<>> ELSE <<s[j]>>])}
      [] kind \in {"Walk", "WalkUnlimited"} -> Permutations1(SelectSeq(s, Pred))
      [] kind = "Concat"   -> {t \in Permutations1(s \o Elements(Others)) :
                                  /\ SelectSeq(t, LAMBDA e : e \in ToSet(s)) = s
                                  /\ SelectSeq(t, LAMBDA e : e \notin ToSet(s)) = Elements(Others)}
      [] kind = "Group"    -> Permutations1(Groups(s))
      [] kind = "Merge"    -> {<<FlattenSeq(s)>>}
      [] kind = "Reverse"  -> {Reverse(s)}
      [] kind = "Sort"     -> {t \in Permutations1(s) :
                                  \A j \in 1..Len(t) - 1 : ~Less(t[j + 1], t[j])}
      [] OTHER             -> {s}

Answer(kind, s) ==
    CASE kind = "First"     -> IF s = <<>> THEN <<>> ELSE Head(s)
      [] kind = "Last"      -> IF s = <<>> THEN <<>> ELSE Last(s)
      [] kind = "Count"     -> Len(s)
      [] kind = "AnyMach"   -> \E j \in DOMAIN s : Pred(s[j])
      [] kind = "AllMach"   -> \A j \in DOMAIN s : Pred(s[j])
      [] kind = "NoneMatch" -> ~\E j \in DOMAIN s : Pred(s[j])
      [] OTHER              -> s

All(n) ==
    LET after[i \in 1..n] ==
            IF i = 1 THEN {Elements(Items)}
            ELSE UNION {Outcomes(fx[i].kind, s) : s \in after[i - 1]}
    IN  after[n]
\* The answer of a terminal operation is one that the documented meaning of the stages
\* allows, whatever the interleaving of their goroutines: no stage loses, repeats or
\* reorders elements, and none is sent after the channel was closed.
StreamAnswers ==
    fx # <<>> /\ Last(fx).res # <<>> /\ Last(fx).kind \notin {"ForAll", "Reduce"}
        => Last(fx).res[1] \in {Answer(Last(fx).kind, s) : s \in All(Len(fx) - 1)}

\* Every goroutine of a pipeline ends, also when
\* Head or a terminal operation does not want the rest, because it is drained.  Only Reduce,
\* which leaves the channel to its function, may leave goroutines behind.
StreamIsDrained ==
    (fx # <<>> /\ Last(fx).kind # "Reduce")
        ~> (fx # <<>> /\ \A i \in DOMAIN fx : fx[i].eof /\ fx[i].pend = <<>>)
=============================================================================
