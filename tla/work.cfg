SPECIFICATION Spec
CONSTANTS
    w1 = w1
    d1 = d1
    q1 = q1
    q2 = q2
    t1 = t1
    t2 = t2
    NULL = NULL
    Works <- MCWorks
    Delayable <- MCDelayable
    Queues <- MCQueues
    Threads <- MCThreads
    Applications <- TwoQueuesOrThreads
    SMP = FALSE
INVARIANTS
    TypeOK
    FlagsExact
    FlushComplete
    CancelEnds
    SleepsOnlyIdle
    DelayExact
PROPERTIES
    SyncEnds
