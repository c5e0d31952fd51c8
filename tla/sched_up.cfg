SPECIFICATION Spec
CONSTANTS
    t1 = t1
    t2 = t2
    t3 = t3
    Idle = Idle
    sem = sem
    NULL = NULL
    Threads <- MCThreads
    Objects <- MCObjects
    NewPrios <- MCPrios
    NumCoop = 1
    NumPreempt = 2
    NumMetairq = 0
    SliceMaxPrio = 0
    MaxLocks = 1
INVARIANTS
    TypeOK
    ReadyQueueExact
    WaitQueuesExact
    CurrentMayRun
    CacheIsBest
    DeadIsForgotten
SYMMETRY ThreadSymmetry
