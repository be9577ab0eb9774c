\* The execute callback panics once in the background goroutine.
CONSTANTS
    Callers = {c1}
    Flushers = {f1, f2}
    Tasks = {t1, t2}
    Size <- BulkSize
    Threshold = 2
    None = None
    MaxPanics = 1
SPECIFICATION FairSpec
PROPERTIES TasksExecuted
CHECK_DEADLOCK FALSE
