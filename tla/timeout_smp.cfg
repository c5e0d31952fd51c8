SPECIFICATION Spec
CONSTANTS
    a = a
    b = b
    c = c
    cpu0 = cpu0
    cpu1 = cpu1
    NULL = NULL
    Timeouts <- MCTimeouts
    Cpus <- TwoCpus
    Delays <- MCDelays
    Deadlines <- MCDeadlines
    MaxNow = 4
    MAX_WAIT = 100
INVARIANTS
    OneHandlerAtATime
SYMMETRY TimeoutSymmetry
