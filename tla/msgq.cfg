SPECIFICATION Spec
CONSTANTS
    t1 = t1
    t2 = t2
    t3 = t3
    m1 = m1
    m2 = m2
    msgq = msgq
    NULL = NULL
    Threads <- MCThreads
    Objects <- MCObjects
    Prios <- MCPrios
    Msgs <- MCMsgs
    MaxMsgs = 2
    SMP = FALSE
INVARIANTS
    TypeOK
    WaitersOneSided
    OutcomeTruthful
    PeekAtExact
PROPERTIES
    IsBoundedFifo
SYMMETRY Symmetric
