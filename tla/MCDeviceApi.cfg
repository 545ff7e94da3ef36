SPECIFICATION FairSpec

CONSTANTS
    d1 = d1
    e1 = e1
    e2 = e2
    t1 = t1
    t2 = t2
    Driver = Driver
    Device = {d1}
    Endpoint = {e1, e2}
    Config <- TwoInterfaces
    MaxPlug = 1
    Failing = {"claim", "alloc", "submit", "transfer"}
    Task = {t1, t2}
    Serial = TRUE

INVARIANTS
    TypeOK
    OnlyReportsRace
    CompletionFindsInterface
    StateTellsClaim

PROPERTIES
    TakenDown
    ImplementsLife

CHECK_DEADLOCK FALSE
