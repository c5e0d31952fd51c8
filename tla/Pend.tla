-------------------------------- MODULE Pend --------------------------------
(***************************************************************************)
(* How threads wait on kernel objects: the pend and wake primitives of     *)
(* kernel/sched.c as the objects (semaphores, mutexes, message queues)     *)
(* call them, cut where the code releases a lock.                          *)
(*                                                                         *)
(* An object's operation holds the object's own spinlock, and takes the    *)
(* scheduler's for each primitive it calls.  The timer interrupt takes an  *)
(* expired timeout off the list (sys_clock_announce) and then, with no     *)
(* lock held, calls its handler (z_thread_timeout), which takes the        *)
(* scheduler's lock only.  With SMP the handler therefore comes between    *)
(* any two primitives.  Without it a spinlock masks interrupts, so an      *)
(* operation runs to its end, and no thread runs during the handler.       *)
(*                                                                         *)
(* Which of the ready threads has the CPU is left open; SchedUP decides it.*)
(***************************************************************************)
EXTENDS Integers, Sequences, Priq

CONSTANTS
    Threads,
    Objects,        \* the objects' wait queues
    Prios,          \* thread priorities
    NULL,
    SMP             \* CONFIG_SMP

ASSUME PendAssumption ==
    /\ NULL \notin Threads \cup Objects
    /\ Prios \subseteq Int
    /\ SMP \in BOOLEAN

\* what z_swap() returns to a thread that has waited
Retvals == {"OK", "EAGAIN", "ENOMSG", "EINTR"}

\* the timeout argument of a waiting call
Waits == {"NO_WAIT", "TIMEOUT", "FOREVER"}

Pending ==
    [ready : SUBSET Threads,              \* running, or on the ready queue
     prio : [Threads -> Prios],
     pended_on : [Threads -> Objects \cup {NULL}],
     waitq : [Objects -> Seq(Threads)],
     timeout : SUBSET Threads,            \* timeouts that are linked
     expired : Threads \cup {NULL},      \* unlinked, its handler not called yet
     waking : Threads \cup {NULL},       \* unpended, not made ready yet
     swap_retval : [Threads -> Retvals]]

PendInit(prio) ==
    [ready |-> Threads,
     prio |-> prio,
     pended_on |-> [t \in Threads |-> NULL],
     waitq |-> [w \in Objects |-> <<>>],
     timeout |-> {},
     expired |-> NULL,
     waking |-> NULL,
     swap_retval |-> [t \in Threads |-> "OK"]]

\* a thread that executes its own code: without SMP, not under an interrupt
\* handler and not inside an operation, which masks interrupts
Runs(s, t) == t \in s.ready /\ (SMP \/ s.expired = NULL)

ready_thread(s, t) ==
    IF s.pended_on[t] = NULL /\ t \notin s.timeout
    THEN [s EXCEPT !.ready = @ \cup {t}] ELSE s

unpend_thread_no_timeout(s, t) ==
    [s EXCEPT !.waitq[s.pended_on[t]] = z_priq_dumb_remove(@, t),
              !.pended_on[t] = NULL]

\* the calling thread waits; z_swap() presets what it will return
z_pend_curr(s, t, w, wait) ==
    [s EXCEPT !.ready = @ \ {t},
              !.pended_on[t] = w,
              !.waitq[w] = z_priq_dumb_add(@, s.prio, t),
              !.timeout = IF wait = "FOREVER" THEN @ ELSE @ \cup {t},
              !.swap_retval[t] = "EAGAIN"]

\* mutant: z_unpend1_no_timeout() in its place
z_unpend_first_thread_KeepsTimeout(s, w) ==
    LET t == z_priq_dumb_best(s.waitq[w])
    IN  [unpend_thread_no_timeout(s, t) EXCEPT !.waking = t]

\* the waiter leaves the queue and its timeout is cancelled; one that has been
\* unlinked already is not
z_unpend_thread(s, t) ==
    [unpend_thread_no_timeout(s, t) EXCEPT !.timeout = @ \ {t}, !.waking = t]

z_unpend_first_thread(s, w) == z_unpend_thread(s, z_priq_dumb_best(s.waitq[w]))

\* arch_thread_return_value_set(), then z_ready_thread()
WakeWith(s, ret) ==
    ready_thread([s EXCEPT !.swap_retval[s.waking] = ret, !.waking = NULL], s.waking)

\* a pended thread is not moved in its wait queue
z_set_prio(s, t, p) == [s EXCEPT !.prio[t] = p]

\* sys_clock_announce() unlinks one expired timeout at a time
Expire(s, t) == [s EXCEPT !.timeout = @ \ {t}, !.expired = t]

\* mutant: the thread leaves the queue and is not made ready
z_thread_timeout_NotReady(s) ==
    LET t == s.expired
        u == IF s.pended_on[t] # NULL THEN unpend_thread_no_timeout(s, t) ELSE s
    IN  [u EXCEPT !.expired = NULL]

\* z_sched_wake_thread(thread, true) of a thread that is not being killed
z_thread_timeout(s) ==
    LET t == s.expired
        u == IF s.pended_on[t] # NULL THEN unpend_thread_no_timeout(s, t) ELSE s
    IN  ready_thread([u EXCEPT !.expired = NULL], t)
=============================================================================
