\* Thirteen parts of a service, on instances of two to four goroutines.
CONSTANTS
    Workers = 1
    Panics = 1
    Callers = {c1, c2}
    Clients = {c1, c2}
    Three = {c1, c2, c3}
    Producers = {p1, p2}
    Consumers = {c1, c2}
    Group = l2
    Owner = o1
    Requests = {r1, r2, r3, r4}
    Nil = Nil
    Unset = Unset
    Placeholder = Placeholder
    Garbage = Garbage
    Error = Error
    Reloader = Reloader
    Keys = {k1, k2}
    Mappers = {c1, c2}
    Listeners = {l1, l2, l3}
    MaxMessages = 3
    MaxPauses = 3
    MaxLines = 3
    MaxCalls = 4
    MaxTime = 5
    MaxErrors = 1
    MaxEtcdErrors = 1
    Readers = {r1, r2}
    Writers = {w1, w2}
    Subs = {s1, s2}
    Exclusive = {s2}
    Methods = {"GET", "PUT"}
    BadMethod = "BAD"
    Tokens = {"a", "b"}
    Names = {"x", "y"}
    Values = {v1, v2}
    Codes = {200, 404}
    Capacity = 1
    MaxDate = 3
    MaxRestarts = 1
    MaxFailures = 1
    MaxFileFailures = 1
    Services = 2
    MaxWrites = 2
    MaxConns = 1
    MaxRoutes = 3
    Buckets = 2
    Protection = 1
    MaxMarks = 3
    MaxOutages = 1
    NumHistoryReasons = 2
    BreakerTime = 3
    MaxRequests = 4
    Rate = 1
    Burst = 2
    Period = 3
    Quota = 2
    PeriodTime = 6
    MaxTakes = 5
    CoolOff = 2
    ShedderTime = 4
    Expiry = 20
    Retries = 2
    MaxChanges = 2
    MaxBreaks = 1
    MaxLeases = 3
    MaxPublisherPauses = 2
    Subjects <- SafetySubjects
SPECIFICATION MCSpec
INVARIANTS
    MCTypeOK   AnswerIsWhole  RightRouteServes
      
    

    
CHECK_DEADLOCK FALSE
