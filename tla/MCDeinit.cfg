\* The calls of the example application, in its order.
SPECIFICATION FairSpec

CONSTANTS
    LibTask = {l1}
    ProcTask = {p1, p2}
    Null = Null
    Careful = {"once"}
    Failing = {}

PROPERTIES
    DeinitReturns

\* Nobody is obliged to call or to plug in, and a fault ends the program.
CHECK_DEADLOCK FALSE
