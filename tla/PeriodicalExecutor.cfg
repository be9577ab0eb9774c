\* Two callers, a bulk container cut at two tasks, one panic of the callback.
CONSTANTS
    Callers = {c1, c2}
    Flushers = {f1, f2}
    Tasks = {t1, t2, t3}
    Size <- BulkSize
    Threshold = 2
    None = None
    MaxPanics = 1
SPECIFICATION Spec
SYMMETRY Symmetry
INVARIANTS BatchesAreKept ContainerBelowThreshold
PROPERTIES WaitIsQuiescent ImplementsTaskPool
CHECK_DEADLOCK FALSE
