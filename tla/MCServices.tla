----------------------------- MODULE MCServices -----------------------------
(***************************************************************************)
(* The parts of core, rest and zrpc that a service runs in or goes         *)
(* through, each on a small instance.  subject says which part a behaviour *)
(* is about; the others keep their initial state.  Some of the properties  *)
(* are those of the modules it extends.                                    *)
(***************************************************************************)
EXTENDS LimitsProofs, ProcessProofs, ServicesProofs, DiscoveryProofs

CONSTANTS
    Mappers, Workers, Panics,                       \* of MapReduce
    Requests,
    Methods, BadMethod, Tokens, Names,
    Subjects,           \* the parts that a run is about
    \* the parameters of the other parts, and their bounds
    MaxRoutes,
    Buckets, NumHistoryReasons, BreakerTime

VARIABLES subject, mr, ro, gb

MR == INSTANCE MapReduce
RO == INSTANCE Router
GB == INSTANCE GoogleBreaker WITH MaxTime <- BreakerTime

ASSUME /\ TokenLimitAssumption /\ PeriodLimitAssumption
       /\ AS!ShedderAssumption /\ HC!HandlerChainAssumption /\ SD!ShutdownAssumption
       /\ MQ!MessageQueueAssumption /\ LG!RotateLoggerAssumption /\ CN!CacheNodeAssumption
       /\ RG!RegistryAssumption /\ GU!GuardedAssumption

all == <<subject, mr, mq, lg, sd, to, hc, ro, gb, gd, tkVars, pl, sh, cn, rg, pb>>

SafetySubjects == {"MapReduce", "MessageQueue", "RotateLogger", "Shutdown", "TimeoutHandler",
                   "HandlerChain", "Router", "GoogleBreaker", "Guarded", "TokenLimit",
                   "PeriodLimit", "AdaptiveShedder", "CacheNode"}
LiveSubjects == {"MessageQueue", "RotateLogger", "Shutdown", "TimeoutHandler", "TokenLimit",
                 "CacheNode", "Registry", "Publisher"}

MCInit ==
    /\ subject \in Subjects
    /\ MR!Init /\ MQ!Init /\ LG!Init /\ SD!Init /\ TO!Init /\ HC!Init /\ RO!Init /\ GB!Init
    /\ GU!Init /\ Init /\ PeriodInit /\ AS!Init /\ CN!Init /\ RG!Init /\ PB!Init

\* A step of subject s leaves the other parts alone.
Of(s) ==
    /\ UNCHANGED subject
    /\ IF s = "MapReduce"       THEN TRUE ELSE UNCHANGED mr
    /\ IF s = "MessageQueue"    THEN TRUE ELSE UNCHANGED mq
    /\ IF s = "RotateLogger"    THEN TRUE ELSE UNCHANGED lg
    /\ IF s = "Shutdown"        THEN TRUE ELSE UNCHANGED sd
    /\ IF s = "TimeoutHandler"  THEN TRUE ELSE UNCHANGED to
    /\ IF s = "HandlerChain"    THEN TRUE ELSE UNCHANGED hc
    /\ IF s = "Router"          THEN TRUE ELSE UNCHANGED ro
    /\ IF s = "GoogleBreaker"   THEN TRUE ELSE UNCHANGED gb
    /\ IF s = "Guarded"         THEN TRUE ELSE UNCHANGED gd
    /\ IF s = "TokenLimit"      THEN TRUE ELSE UNCHANGED tkVars
    /\ IF s = "PeriodLimit"     THEN TRUE ELSE UNCHANGED pl
    /\ IF s = "AdaptiveShedder" THEN TRUE ELSE UNCHANGED sh
    /\ IF s = "CacheNode"       THEN TRUE ELSE UNCHANGED cn
    /\ IF s = "Registry"        THEN TRUE ELSE UNCHANGED rg
    /\ IF s = "Publisher"       THEN TRUE ELSE UNCHANGED pb

\* Keys and values of the registry are interchangeable: the first change may as well be this one.
FirstChange ==
    rg.log # <<>> => rg.log[1] = <<CHOOSE k \in Keys : TRUE, CHOOSE v \in Values : TRUE>>

MCNext ==
    \/ subject = "MapReduce"       /\ MR!Next  /\ Of("MapReduce")
    \/ subject = "MessageQueue"    /\ MQ!Next  /\ Of("MessageQueue")
    \/ subject = "RotateLogger"    /\ LG!Next  /\ Of("RotateLogger")
    \/ subject = "Shutdown"        /\ SD!Next  /\ Of("Shutdown")
    \/ subject = "TimeoutHandler"  /\ TO!Next  /\ Of("TimeoutHandler")
    \/ subject = "HandlerChain"    /\ HC!Next  /\ Of("HandlerChain")
    \/ subject = "Router"          /\ RO!Next  /\ Of("Router")
    \/ subject = "GoogleBreaker"   /\ GB!Next  /\ Of("GoogleBreaker")
    \/ subject = "Guarded"         /\ GU!Next  /\ Of("Guarded")
    \/ subject = "TokenLimit"      /\ Next  /\ Of("TokenLimit")
    \/ subject = "PeriodLimit"     /\ PeriodNext  /\ Of("PeriodLimit")
    \/ subject = "AdaptiveShedder" /\ AS!Next  /\ Of("AdaptiveShedder")
    \/ subject = "CacheNode"       /\ CN!Next  /\ Of("CacheNode")
    \/ subject = "Registry"        /\ RG!Next  /\ FirstChange' /\ Of("Registry")
    \/ subject = "Publisher"       /\ PB!Next  /\ Of("Publisher")

MCSpec == MCInit /\ [][MCNext]_all

\* The fairness of the parts that have a liveness property, see their FairSpec.
MCFairSpec ==
    /\ MCSpec
    /\ WF_mq(subject = "MessageQueue" /\ MQ!Main)
    /\ \A p \in Producers \cup Consumers : WF_mq(subject = "MessageQueue" /\ MQ!Step(p))
    /\ WF_lg(subject = "RotateLogger" /\ LG!Worker)
    /\ WF_lg(subject = "RotateLogger" /\ LG!CloseReturns)
    /\ WF_sd(subject = "Shutdown" /\ SD!Step)
    /\ WF_to(subject = "TimeoutHandler" /\ TO!Main)
    /\ WF_to(subject = "TimeoutHandler" /\ TO!SendPanic)
    /\ WF_to(subject = "TimeoutHandler" /\ \E why \in {"canceled", "deadline"} :
                                                TO!ContextDone(why))
    /\ WF_tkVars(subject = "TokenLimit" /\ (Ping \/ MonitorExits))
    /\ WF_tkVars(subject = "TokenLimit" /\ ~rd.up /\ Toggle)
    /\ WF_cn(subject = "CacheNode" /\ CN!Expire)
    /\ WF_rg(subject = "Registry" /\ RG!Reloaded)
    /\ \A s \in Subs \cup {Reloader} : WF_rg(subject = "Registry" /\ RG!Step(s))
    /\ WF_pb(subject = "Publisher" /\ PB!Goroutine)
    /\ \A l \in PB!Leases : WF_pb(subject = "Publisher" /\ PB!LeaseEnds(l))
-----------------------------------------------------------------------------
\* The type invariant of the part, for those of SafetySubjects.
MCTypeOK ==
    CASE subject = "MapReduce"       -> MR!TypeOK
      [] subject = "MessageQueue"    -> MQ!TypeOK
      [] subject = "RotateLogger"    -> LG!TypeOK
      [] subject = "Shutdown"        -> SD!TypeOK
      [] subject = "TimeoutHandler"  -> TO!TypeOK
      [] subject = "HandlerChain"    -> HC!TypeOK
      [] subject = "Router"          -> RO!TypeOK
      [] subject = "GoogleBreaker"   -> GB!TypeOK
      [] subject = "Guarded"         -> GU!TypeOK
      [] subject = "TokenLimit"      -> TypeOK
      [] subject = "PeriodLimit"     -> PeriodTypeOK
      [] subject = "AdaptiveShedder" -> AS!TypeOK
      [] subject = "CacheNode"       -> CN!TypeOK

\* MapReduce: a call ends with all its goroutines, and with its value, the error or the panic.
CallsEndWhole == subject = "MapReduce" => MR!CallsEndWhole

\* Router: a request is served by a route that fits if there is one, and by a static one first; 405 is
\* for a path that another method has, and 404 for one that none has.
RightRouteServes == subject = "Router" => RO!RightRouteServes

\* Breaker: every admitted request that ended counts once, a request is dropped only after more than
\* Protection failures within the window, and only panics open the circuit without a reason.
ResultsDecide == GB!ResultsDecide

\* Whoever waits for an end gets there.  Queue: Start returns after Stop, and Broadcast reaches every
\* consumer.  RotateLogger: Close returns, and only Close strands accepted lines.  Shutdown: every
\* wait returns but for a late listener, and every service is stopped but for a panic.
\* TimeoutHandler and its like: caller and goroutine both end.  Publisher: Stop withdraws the pair,
\* and a Pause comes through.
EndsAreReached ==
    /\ MQ!StartReturns /\ MQ!BroadcastReaches
    /\ LG!CloseTerminates /\ LG!OnlyCloseStrandsLines
    /\ SD!OnlyLateListenerBlocksWait /\ SD!OnlyPanicLeavesService
    /\ TO!CallerAndGoroutineEnd
    /\ PB!StopWithdraws /\ PB!PauseComesThrough

\* What went wrong is put right.  TokenLimiter: it returns to redis.  cacheNode: a stale entry goes
\* away, unless it was set with less than a second.  Registry: a reload gets all watchers to end,
\* unless one of them needs the lock.
FaultsPass ==
    /\ ReturnsToRedis
    /\ subject = "CacheNode" => CN!OnlySubSecondEntryStays
    /\ RG!OnlyBusyWatcherBlocksReload
=============================================================================
