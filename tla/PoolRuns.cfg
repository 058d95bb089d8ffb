SPECIFICATION Spec
CONSTANTS
    Employees = {e1, e2, e3}
    Jobs = {j1, j2, j3}
    NoJob = NoJob
    MayTerminate = TRUE
INVARIANTS
    TypeOK
    Dispatchable
    PurgedQuiet
PROPERTIES
    PoolSpec
    QueuedServed
    TerminationEnds
\* A team that was freed is the end of it.
CHECK_DEADLOCK FALSE
