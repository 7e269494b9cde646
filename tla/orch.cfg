\* Every trigger, completion, shutdown and restart; wait_for of Python 3.11.
SPECIFICATION FairSpec
CONSTANTS
    r1 = r1
    r2 = r2
    m1 = m1
    m2 = m2
    e1 = e1
    NoTask = NoTask
    Tasks <- MCTasks
    PriorityOf <- MCPriority
    Runnable <- MCRunnable
    WaitForYields = TRUE
    MaxStops = 2
INVARIANTS
    TypeOK
    SuspensionConsistent
    NoOrphanSuspension
PROPERTIES
    MainStartsClear
    ResumesUnlessHeld
    DeadlockReported
CHECK_DEADLOCK FALSE
