------------------------------ MODULE Waiting -------------------------------
(***************************************************************************)
(* What the kernel objects of one CPU share: the threads and their waits,  *)
(* the calls that have not returned, and who owns a memory block.          *)
(*                                                                         *)
(* A spinlock masks interrupts on one CPU, so an operation is one step     *)
(* unless the code releases its lock in the middle.  The operations that   *)
(* are allowed in interrupts may come at any time, also between the moment *)
(* sys_clock_announce() unlinks a timeout and the call of its handler.     *)
(***************************************************************************)
EXTENDS Pend, SequencesExt

CONSTANTS
    Blocks,         \* memory blocks, and the data items made of them
    ISR,            \* any interrupt handler
    Dummies,        \* the dummy threads of asynchronous messages, which never run
    Timers,         \* what has a timeout of its own: timers, triggered work
    Nested          \* calls made by interrupts that nest in the timer interrupt

ASSUME WaitingAssumption ==
    /\ ~SMP
    /\ NULL \notin Blocks \cup Timers
    /\ ISR \notin Threads /\ Dummies \subseteq Threads
    /\ Nested \subseteq {"k_timer_stop", "k_work_poll_cancel", "k_work_poll_submit"}

VARIABLES
    p,              \* the threads and their waits
    call,           \* the call in which a thread is
    swap_data,      \* base.swap_data
    held,           \* the blocks a thread, or the interrupt handlers, own
    announced       \* a timeout of Timers, unlinked, whose handler has not ended

waiting == <<p, call, swap_data, held, announced>>

Callers == Threads \cup {ISR}

WaitingTypeOK ==
    /\ p \in Pending
    /\ call \in [Threads -> {"none", "alloc", "get", "pop", "wait", "sync",
                             "start", "stop", "register", "poll", "clear", "cancel",
                             "give", "take", "compare", "compared", "futex",
                             "put", "receive", "received", "disposed", "write", "read"}]
    /\ swap_data \in [Threads -> Blocks \cup {NULL}]
    /\ held \in [Callers -> SUBSET Blocks]
    /\ announced \in Timers \cup {NULL}

WaitingInit ==
    /\ \E prio \in [Threads -> Prios] : p = [PendInit(prio) EXCEPT !.ready = Threads \ Dummies]
    /\ call = [t \in Threads |-> "none"]
    /\ swap_data = [t \in Threads |-> NULL]
    /\ held = [c \in Callers |-> {}]
    /\ announced = NULL

-----------------------------------------------------------------------------
\* a thread that executes: ready, and not under a timeout's handler
Executes(t) == Runs(p, t) /\ announced = NULL

\* who may call a function that is allowed in interrupts
MayCall(c) == c = ISR \/ (Executes(c) /\ call[c] = "none")

\* the calling thread waits on w inside the call named
Pends(t, w, wait, name) ==
    /\ MayCall(t) /\ wait # "NO_WAIT"
    /\ p' = z_pend_curr(p, t, w, wait)
    /\ call' = [call EXCEPT ![t] = name]

\* the thread has read what z_swap() returned to it
Returned(t) == p' = [p EXCEPT !.swap_retval[t] = "OK"]

\* z_unpend_first_thread() and z_ready_thread() under one lock
HandOver(s, w) == WakeWith(z_unpend_first_thread(s, w), "OK")

\* z_thread_return_value_set_with_data(), to the first waiter on w
GiveFirst(w, d) ==
    /\ p' = HandOver(p, w)
    /\ swap_data' = [swap_data EXCEPT ![p.waitq[w][1]] = d]

\* an interrupt makes a call that some applications do not make from interrupts
\* of a priority above the system timer's
InterruptMay(name) == announced = NULL \/ name \in Nested

Owns(c, b) == held' = [held EXCEPT ![c] = @ \cup {b}]
Disowns(c, b) == held' = [held EXCEPT ![c] = @ \ {b}]

\* k_mem_slab_alloc(), k_queue_get() or k_stack_pop() returns after a wait:
\* with swap_data, unless the wait timed out
DataReturn(t) ==
    /\ call[t] \in {"alloc", "get", "pop"} /\ Executes(t)
    /\ Returned(t)
    /\ held' = [held EXCEPT ![t] = @ \cup IF p.swap_retval[t] = "OK"
                                          THEN {swap_data[t]} \ {NULL} ELSE {}]
    /\ call' = [call EXCEPT ![t] = "none"]
    /\ swap_data' = [swap_data EXCEPT ![t] = NULL]
    /\ UNCHANGED announced

\* the block t has been given and will find when its call returns
Given(t) ==
    IF call[t] \in {"alloc", "get", "pop"} /\ p.swap_retval[t] = "OK"
    THEN {swap_data[t]} \ {NULL} ELSE {}

sys_clock_announce(t) ==
    /\ p.expired = NULL /\ announced = NULL /\ t \in p.timeout
    /\ p' = Expire(p, t)
    /\ UNCHANGED <<call, swap_data, held, announced>>

ThreadTimeout ==
    /\ p.expired # NULL
    /\ p' = z_thread_timeout(p)
    /\ UNCHANGED <<call, swap_data, held, announced>>
=============================================================================
