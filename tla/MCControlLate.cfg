SPECIFICATION Spec

CONSTANTS
    t1 = t1
    t2 = t2
    b1 = b1
    Nobody = Nobody
    Task = {t1, t2}
    DriverCaller = Nobody
    Buffer = {b1}
    BufSize = 2
    DescLen = 2
    Requests = {"set"}
    Failing = {"timeout"}

INVARIANTS
    Synchronous

\* The model follows no behaviour past a fault.
CHECK_DEADLOCK FALSE
