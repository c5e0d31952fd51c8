SPECIFICATION Spec
CONSTANTS
    t1 = t1
    t2 = t2
    t3 = t3
    sem = sem
    NULL = NULL
    Threads <- MCThreads
    Objects <- MCObjects
    Prios <- MCPrios
    Limit = 2
    SMP = FALSE
INVARIANTS
    TypeOK
    TokensConserved
    NobodyStranded
PROPERTIES
    TimedTakeEnds
