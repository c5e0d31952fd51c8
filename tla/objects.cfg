SPECIFICATION Spec
CONSTANTS
    t1 = t1
    t2 = t2
    a1 = a1
    b1 = b1
    b2 = b2
    o1 = o1
    o2 = o2
    o3 = o3
    tw = tw
    ISR = ISR
    NULL = NULL
    slab = slab
    queue = queue
    stack = stack
    tx_msg_queue = tx_msg_queue
    rx_msg_queue = rx_msg_queue
    readers = readers
    writers = writers
    event = event
    futex = futex
    timer = timer
    poll = poll
    e1 = e1
    e2 = e2
    Threads = {t1, t2, a1}
    Dummies = {a1}
    Objects = {slab, queue, stack, tx_msg_queue, rx_msg_queue, readers, writers, event, futex, timer, poll}
    Prios = {0}
    SMP = FALSE
    Blocks = {b1, b2}
    Timers = {timer, tw}
    NumEntries = 1
    SemLimit = 2
    MaxSize = 1
    PipeSizes = {0, 2}
    MaxBytes = 3
    c1 = c1
    c2 = c2
    c3 = c3
    Clients = {c1, c2, c3}
    SERVICE_REFS_MAX = 3
    Bits = {e1, e2}
    StarterSets <- MCStarterSets
    Nested = {}
    TimerUser = t1
    MaxStatus = 1
    PollObjects = {o1, o2, o3}
    PollQueues = {o1}
    Tworks = {tw}
    EventArrays <- MCEventArrays
    Applications = {"buffers", "mailboxes", "pipes", "events", "semaphores", "timers", "pollers", "triggers", "services"}
INVARIANTS
    TypeOK
    Conserved
    NoWaitBesideData
    ReturnsTruthful
    Unregistered
    TriggerOnce
PROPERTIES
    TimerExact
CHECK_DEADLOCK FALSE
