\* Five parts of core/stores and discovery, on instances of two or three goroutines.
CONSTANTS
    Locks = {l1, l2}
    Seconds = {0, 1}
    MaxTime = 3
    MaxAbandoned = 1
    Nil = Nil
    Absent = Absent
    Callers = {c1, c2, c3}
    StoreKeys = {k1, k2}
    StoreValues = {v1}
    Nodes = {n1, n2}
    Tasks = {t1, t2, t3}
    Limit = 2
    MaxFailures = 2
    MaxDels = 2
    MaxBulkRows = 2
    MaxInserts = 4
    MaxUpdates = 2
    DrainWorkers = 1
    CleanWorkers = 1
    Delays = 2
    MaxDrains = 1
    Subs = {s1, s2}
    Exclusive = {s2}
    Reloader = Reloader
    Keys = {k1, k2}
    Values = {v1, v2}
    Unset = Unset
    MaxChanges = 2
    MaxBreaks = 1
    MaxLeases = 3
    MaxPublisherPauses = 2
    MaxEtcdErrors = 1
SPECIFICATION MCSpec
INVARIANTS
    MCTypeOK OnlyLateScriptBreaksExclusion  
    OnlyDrainStopsTasks DiscoveryAgrees
PROPERTIES
    OthersKeyIsSafe StoreIsAMap
CHECK_DEADLOCK FALSE
