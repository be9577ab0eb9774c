\* Two goroutines fill a batch at the same time and wait.
CONSTANTS
    Callers = {c1, c2}
    Flushers = {f1, f2}
    Tasks = {t1, t2}
    Size <- BulkSize
    Threshold = 1
    None = None
    MaxPanics = 0
SPECIFICATION Spec
PROPERTIES WaitCoversOwnTasks
CHECK_DEADLOCK FALSE
