\* The same suspensions under the two-step wait_for of Python 3.11.
SPECIFICATION FairSpec
CONSTANTS
    r1 = r1
    r2 = r2
    m1 = m1
    m2 = m2
    e1 = e1
    NoTask = NoTask
    Tasks <- MCTasks
    PriorityOf <- MCPriority
    Runnable <- MCRunnable
    WaitForYields = TRUE
    MaxStops = 0
PROPERTY MainResumes
CHECK_DEADLOCK FALSE
