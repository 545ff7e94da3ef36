SPECIFICATION Spec

CONSTANTS
    d1 = d1
    d2 = d2
    d3 = d3
    e1 = e1
    e2 = e2
    a1 = a1
    a2 = a2
    Device = {d1, d2}
    Endpoint = {e1, e2}
    Config <- SameEndpoint
    MaxPlug = 2
    Failing = {}
    Addr = {a1, a2}
    QueueCap = 4
    Stops = FALSE
    Null = Null
    Dangling = Dangling

INVARIANTS
    ContextMatches

\* When the bus owes nothing and no event is left, the tasks wait.
CHECK_DEADLOCK FALSE
