SPECIFICATION FairSpec
CONSTANTS
    Block = {b1, b2, b3}
    e1 = e1
    e2 = e2
    Entry = {e1, e2}
    At <- MCAt
    Day = 3
    Slot = {s1}
    None = None
    MaxTime = 4
    MaxInit = 1
INVARIANTS
    ListOrdered
    NoOversleep
    JobsKept
    RunsAtItsTime
    LinkedJobsAllocated
    PanicNeedsLostMutex
PROPERTIES
    DueJobsRun
CHECK_DEADLOCK FALSE
