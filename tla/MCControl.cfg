SPECIFICATION Spec

CONSTANTS
    t1 = t1
    t2 = t2
    b1 = b1
    b2 = b2
    Nobody = Nobody
    Task = {t1, t2}
    DriverCaller = Nobody
    Buffer = {b1, b2}
    BufSize = 2
    DescLen = 3
    Requests = {"set", "get", "descriptor"}
    Failing = {"submit"}

INVARIANTS
    Synchronous
    OwnAnswer

PROPERTIES
    InFlightUntouched
    BusyByOther
    ImplementsSync

\* The model follows no behaviour past a fault.
CHECK_DEADLOCK FALSE
