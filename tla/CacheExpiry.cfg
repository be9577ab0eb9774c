CONSTANTS
    Callers = {c1, c2}
    Expirers = {e1}
    Keys = {k1}
    Values = {v1}
    Limit = 0
    Err = Err
    None = None
SPECIFICATION FairSpec
INVARIANT EntriesExpire
CHECK_DEADLOCK FALSE
