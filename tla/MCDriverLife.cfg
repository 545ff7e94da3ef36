\* Two tasks install, one uninstalls; two drivers, one background task at a time,
\* every step of an installation may fail, and the library's event handling too.
SPECIFICATION FairSpec

CONSTANTS
    Caller = {t1, t2}
    Uninstaller = {t1}
    Heap = {a1, a2}
    Loop = {l1}
    Null = Null
    Patient = TRUE
    Failing = {"memory", "register", "task", "events"}

INVARIANTS
    TypeOK
    DriverOutlivesTask
    AbortIsTheDevice

PROPERTIES
    UninstallReturns

\* Nobody is obliged to call or to plug in, and a fault ends the program.
CHECK_DEADLOCK FALSE
