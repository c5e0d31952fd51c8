SPECIFICATION Spec
CONSTANTS
    t1 = t1
    t2 = t2
    t3 = t3
    m1 = m1
    cv1 = cv1
    NULL = NULL
    Threads <- MCThreads
    Mutexes <- MCMutexes
    Condvars <- MCCondvars
    Objects <- MCObjects
    Prios <- MCPrios
    PRIORITY_CEILING = 0
    MaxDepth = 2
    SMP = FALSE
INVARIANTS
    TypeOK
    MutualExclusion
    OwnerInherits
    BoostHasCause
    NeverBelowBase
SYMMETRY ThreadSymmetry
CHECK_DEADLOCK FALSE
