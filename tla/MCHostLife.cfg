\* A careful application and up to three calls of init, on one object or on one
\* after another; everything may fail.
SPECIFICATION FairSpec

CONSTANTS
    LibTask = {l1, l2, l3}
    ProcTask = {p1, p2}
    Null = Null
    Careful = {"once", "uninstall"}
    Failing = {"queue", "host", "late"}

INVARIANTS
    TypeOK
    QueueUsersGone
    InstallAfterLibrary
    LibraryServed
    EndsClean

PROPERTIES
    DeinitReturns

\* Nobody is obliged to call or to plug in, and a fault ends the program.
CHECK_DEADLOCK FALSE
