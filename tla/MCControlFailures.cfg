SPECIFICATION FairSpec

CONSTANTS
    t1 = t1
    t2 = t2
    b1 = b1
    Nobody = Nobody
    Task = {t1, t2}
    DriverCaller = t2
    Buffer = {b1}
    BufSize = 2
    DescLen = 3
    Requests = {"set", "get", "descriptor"}
    Failing = {"submit", "timeout", "halt", "stall", "heap", "info",
               "large"}

INVARIANTS
    TypeOK
    MutualExclusion
    CountedOnce

PROPERTIES
    EveryRequestReturns

\* The model follows no behaviour past a fault.
CHECK_DEADLOCK FALSE
