\* Eleven parts of core, on instances of two to four goroutines.
CONSTANTS
    Callers = {c1, c2, c3}
    Keys = {k1, k2}
    Values = {v1}
    Nil = Nil
    None = None
    MaxFlights = 2
    Users = {c1, c2, c3, c4}
    ThreeKeys = {k1, k2, k3}
    Absent = Absent
    Limit = 2
    CopyThreshold = 2
    MaxDeletion = 1
    MaxDeletions = 4
    Two = {c1, c2}
    BloomElements = {e1, e2}
    BloomHashes <- MCBloomHashes
    Maps = 2
    Bits = 4
    MaxCalls = 3
    Err = Err
    Expirers = {e1}
    n1 = n1
    n2 = n2
    n3 = n3
    HashOf <- MCHashOf
    Pipelines <- MCPipelines
    Words <- MCWords
    Mappings <- MCMappings
SPECIFICATION MCSpec
INVARIANTS
    MCTypeOK FlightsAreShared TurnsAreKept OnlySharedSliceIsLost CacheKeepsTrack ReduceSeesTheWindow
    StreamAnswers MatchesAreExact
PROPERTIES
     NodesKeepTheirValues IsAMap
CHECK_DEADLOCK FALSE
