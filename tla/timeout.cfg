SPECIFICATION Spec
CONSTANTS
    a = a
    b = b
    c = c
    cpu0 = cpu0
    cpu1 = cpu1
    NULL = NULL
    Timeouts <- MCTimeouts
    Cpus <- OneCpu
    Delays <- MCDelays
    Deadlines <- MCDeadlines
    MaxNow = 4
    MAX_WAIT = 100
INVARIANTS
    TypeOK
    DeltasExact
    ClockExact
    AlarmInTime
PROPERTIES
    ExpiresWhenDue
    AddedInOrder
SYMMETRY TimeoutSymmetry
