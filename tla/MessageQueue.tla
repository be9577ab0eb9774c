---------------------------- MODULE MessageQueue ----------------------------
(***************************************************************************)
(* core/queue: Queue runs producers that send to an unbuffered channel and *)
(* consumers that receive from it and from an event channel of their own;  *)
(* Start returns when all of them are done.  Producers tell the queue that *)
(* they pause and resume; the queue tells its listeners.                   *)
(***************************************************************************)
EXTENDS Naturals, FiniteSets

CONSTANTS
    Producers, Consumers,       \* sets of model values
    MaxMessages,                \* bound on the messages produced
    MaxPauses                   \* bound on the pauses of producers

MessageQueueAssumption ==
    IsFiniteSet(Producers) /\ Producers # {} /\ Producers \cap Consumers = {}

VARIABLE mq

\* `told' is what the listeners of the queue heard last, `raced' a ghost: two of the calls to
\* listeners were under way at once, or a producer started while another one was paused.
Init ==
    mq = [pc |-> [p \in Producers \cup Consumers |-> "new"],
          main |-> "new", quit |-> FALSE, closed |-> FALSE, active |-> 0,
          events |-> {}, caster |-> "idle",
          sent |-> 0, consumed |-> 0, paused |-> {}, pauses |-> 0, told |-> "resume",
          calling |-> {}, raced |-> FALSE]

At(p, l) == mq.pc[p] = l

\* startProducers and startConsumers.
Start ==
    /\ mq.main = "new"
    /\ mq' = [mq EXCEPT !.main = "producers", !.pc = [p \in DOMAIN mq.pc |-> "create"]]

\* The factory returns a producer; on an error it is called again a second later.
ProducerCreated(p) ==
    /\ p \in Producers /\ At(p, "create")
    /\ mq' = [mq EXCEPT !.pc[p] = "loop", !.active = @ + 1, !.raced = @ \/ mq.paused # {}]

ConsumerCreated(c) ==
    /\ c \in Consumers /\ At(c, "create")
    /\ mq' = [mq EXCEPT !.pc[c] = "select"]

ProducerQuits(p) ==
    /\ p \in Producers /\ At(p, "loop")
    /\ mq.quit
    /\ mq' = [mq EXCEPT !.pc[p] = "done"]

\* produceOne gives a message; when it gives none or panics, the loop goes on.
Produce(p) ==
    /\ p \in Producers /\ At(p, "loop") /\ p \notin mq.paused
    /\ ~mq.quit /\ mq.sent < MaxMessages
    /\ mq' = [mq EXCEPT !.pc[p] = "send", !.sent = @ + 1]

\* The send of produce meets the receive of consume, and consumeOne: a panic of Consume is
\* recovered by RunSafe.
Consume(p, c) ==
    /\ p \in Producers /\ c \in Consumers /\ At(p, "send") /\ At(c, "select")
    /\ mq' = [mq EXCEPT !.pc[p] = "loop", !.consumed = @ + 1]

ConsumerQuits(c) ==
    /\ c \in Consumers /\ At(c, "select")
    /\ mq.closed
    /\ mq' = [mq EXCEPT !.pc[c] = "done"]

\* Start waits for the producers and closes the channel, then waits for the consumers.
MainCloses ==
    /\ mq.main = "producers" /\ \A p \in Producers : At(p, "done")
    /\ mq' = [mq EXCEPT !.main = "consumers", !.closed = TRUE]

MainReturns ==
    /\ mq.main = "consumers" /\ \A c \in Consumers : At(c, "done")
    /\ mq' = [mq EXCEPT !.main = "done"]

Stop ==
    /\ mq.main # "new" /\ ~mq.quit
    /\ mq' = [mq EXCEPT !.quit = TRUE]

\* Broadcast: a goroutine locks eventLock and sends to every event channel in turn.
Broadcast ==
    /\ mq.main # "new" /\ mq.caster = "idle"
    /\ mq' = [mq EXCEPT !.caster = "send", !.events = Consumers]

OnEvent(c) ==
    /\ c \in mq.events /\ mq.caster = "send" /\ At(c, "select")
    /\ mq' = [mq EXCEPT !.events = @ \ {c},
                        !.caster = IF mq.events = {c} THEN "done" ELSE "send"]
-----------------------------------------------------------------------------
\* OnProducerPause and OnProducerResume of routineListener: the counter is atomic, the call
\* to the listeners comes after it.
Calls(p, what, n) ==
    [mq EXCEPT !.active = n, !.calling = @ \cup {<<p, what>>},
               !.raced = @ \/ mq.calling # {}]

OnProducerPause(p) ==
    /\ p \in Producers \ mq.paused /\ At(p, "loop") /\ mq.pauses < MaxPauses
    /\ ~\E what \in {"pause", "resume"} : <<p, what>> \in mq.calling
    /\ LET told == IF mq.active - 1 <= 0 THEN Calls(p, "pause", mq.active - 1)
                   ELSE [mq EXCEPT !.active = @ - 1]
       IN  mq' = [told EXCEPT !.paused = @ \cup {p}, !.pauses = @ + 1]

OnProducerResume(p) ==
    /\ p \in mq.paused
    /\ ~\E what \in {"pause", "resume"} : <<p, what>> \in mq.calling
    /\ LET told == IF mq.active + 1 = 1 THEN Calls(p, "resume", mq.active + 1)
                   ELSE [mq EXCEPT !.active = @ + 1]
       IN  mq' = [told EXCEPT !.paused = @ \ {p}]

\* pause or resume of the queue, with its listeners.
Listen(p) ==
    \E what \in {"pause", "resume"} :
        /\ <<p, what>> \in mq.calling
        /\ mq' = [mq EXCEPT !.calling = @ \ {<<p, what>>}, !.told = what]

Step(p) ==
    \/ ProducerCreated(p) \/ ConsumerCreated(p) \/ ProducerQuits(p) \/ ConsumerQuits(p)
    \/ \E c \in Consumers : Consume(p, c)
    \/ OnEvent(p) \/ Listen(p)

Main == MainCloses \/ MainReturns

Next ==
    \/ Start \/ Stop \/ Broadcast \/ Main
    \/ \E p \in Producers \cup Consumers :
        Step(p) \/ Produce(p) \/ OnProducerPause(p) \/ OnProducerResume(p)

Spec == Init /\ [][Next]_mq

\* Start goes on, and so do the goroutines it started; a factory fails finitely often, and
\* select chooses at random, so that no ready case waits for ever.
FairSpec ==
    Spec /\ WF_mq(Main) /\ \A p \in Producers \cup Consumers : WF_mq(Step(p))

TypeOK ==
    /\ mq.pc \in [Producers \cup Consumers -> {"new", "create", "loop", "send", "select", "done"}]
    /\ mq.active = Cardinality({p \in Producers : ~At(p, "new") /\ ~At(p, "create")})
                    - Cardinality(mq.paused)
-----------------------------------------------------------------------------
\* When Start has returned, every message that a producer sent has been consumed: Stop does
\* not lose the messages under way.
NothingInFlightAtReturn == mq.main = "done" => mq.consumed = mq.sent

\* After Stop, Start returns.
StartReturns == mq.quit ~> mq.main = "done"

\* Broadcast reaches every consumer unless the queue ends: a consumer that quit first leaves
\* its goroutine hanging with eventLock, and so each later one.
BroadcastReaches == mq.caster = "send" ~> mq.caster = "done" \/ mq.closed

\* When no call to the listeners is under way and every producer runs, what the listeners heard
\* last holds of the producers, unless two calls overlapped, or a producer started while
\* another one was paused (it counts as active, and the listeners do not hear of it).
OnlyRaceMisleadsListeners ==
    (/\ mq.calling = {} /\ ~mq.raced
     /\ \A p \in Producers : ~At(p, "new") /\ ~At(p, "create"))
        => (mq.told = "pause" <=> mq.active <= 0)
=============================================================================
