SPECIFICATION Spec
CONSTANTS
    t1 = t1
    t2 = t2
    t3 = t3
    Idle = Idle
    sem = sem
    NULL = NULL
    Threads <- MCThreads
    Objects <- MCObjects
    NewPrios <- MCCoopPrios
    NumCoop = 2
    NumPreempt = 2
    NumMetairq = 1
    SliceMaxPrio = 0
    MaxLocks = 1
INVARIANTS
    RunningNotSuspended
SYMMETRY ThreadSymmetry
