\* No panics; one task fills a chunk, the other waits for a tick or a final Flush.
CONSTANTS
    Callers = {c1, c2}
    Flushers = {f1}
    Tasks = {t1, t2}
    Size <- ChunkSize
    Threshold = 2
    None = None
    MaxPanics = 0
SPECIFICATION FairSpec
PROPERTIES TasksExecuted CallerReturns
CHECK_DEADLOCK FALSE
