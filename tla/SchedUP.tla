------------------------------ MODULE SchedUP -------------------------------
(***************************************************************************)
(* The thread scheduler of kernel/sched.c, built for one CPU: CONFIG_SMP=n *)
(* and CONFIG_USE_SWITCH=y, list queues, preemption, time slicing and      *)
(* meta-IRQ priorities.                                                    *)
(*                                                                         *)
(* On one CPU a spinlock is an interrupt lock, so what a call does under   *)
(* one lock, up to its context switch or its return, is one action.        *)
(* k_wakeup() and k_thread_suspend() are several locked sections: here     *)
(* they run without interruption, and SchedWindows cuts them.  Calls are   *)
(* made by the current thread, or by an interrupt handler (in_isr), which  *)
(* makes any number of calls before it exits and during which no context   *)
(* switch happens.                                                         *)
(*                                                                         *)
(* The state is one record k, so that an operator of the same name stands  *)
(* for each C function and an action composes them in the order of the     *)
(* code.                                                                   *)
(***************************************************************************)
EXTENDS Integers, Sequences, Priq

CONSTANTS
    Threads,        \* the thread objects
    Idle,           \* the idle thread, never on a queue
    Objects,        \* the wait queues of kernel objects threads pend on
    NULL,
    NumCoop,        \* CONFIG_NUM_COOP_PRIORITIES
    NumPreempt,     \* CONFIG_NUM_PREEMPT_PRIORITIES
    NumMetairq,     \* CONFIG_NUM_METAIRQ_PRIORITIES
    SliceMaxPrio,   \* slice_max_prio
    MaxLocks,       \* bound on the nesting of k_sched_lock()
    NewPrios        \* priorities given to k_thread_priority_set()

Prios == (-NumCoop) .. (NumPreempt - 1)

ASSUME PrioAssumption ==
    /\ NumCoop \in Nat /\ NumPreempt \in Nat /\ NumMetairq \in Nat
    /\ NumMetairq <= NumCoop
    /\ NewPrios \subseteq Prios
    /\ SliceMaxPrio \in Int
    /\ MaxLocks \in Nat

ASSUME ThreadAssumption ==
    /\ Idle \notin Threads
    /\ NULL \notin Threads \cup Objects \cup {Idle}
    /\ Threads \cap Objects = {}

\* a thread's join_queue is named after the thread
Queues == Objects \cup Threads

Flags == {"PENDING", "PRESTART", "DEAD", "SUSPENDED", "QUEUED"}

Runnables == Threads \cup {Idle}

\* the fields of struct k_thread, as functions of the thread, and of _kernel
Kernel ==
    [state : [Runnables -> SUBSET Flags],
     prio : [Runnables -> Prios \cup {NumPreempt}],
     locks : [Runnables -> Nat],                  \* -sched_locked
     timeout : SUBSET Threads,                    \* threads whose timeout is linked
     pended_on : [Threads -> Queues \cup {NULL}],
     waitq : [Queues -> Seq(Threads)],
     runq : Seq(Threads),
     cache : Runnables,
     current : Runnables,
     metairq_preempted : Threads \cup {NULL},
     slice_expired : BOOLEAN,
     slice_timeout : BOOLEAN,                     \* the slice's timeout is linked
     in_isr : BOOLEAN,
     ending : Threads \cup {NULL}]               \* the thread in end_thread()

VARIABLE k

-----------------------------------------------------------------------------
(* Tests on a thread (ksched.h, sched.c).                                  *)

z_is_thread_queued(s, t) == "QUEUED" \in s.state[t]

z_is_thread_prevented_from_running(s, t) ==
    s.state[t] \cap {"PENDING", "PRESTART", "DEAD", "SUSPENDED"} # {}

z_is_thread_ready(s, t) ==
    ~z_is_thread_prevented_from_running(s, t) /\ t \notin s.timeout

\* preempt <= _PREEMPT_THRESHOLD: a priority that is not negative, and no
\* k_sched_lock() outstanding
is_preempt(s, t) == s.prio[t] >= 0 /\ s.locks[t] = 0

is_metairq(s, t) == s.prio[t] + NumCoop < NumMetairq

sliceable(s, t) ==
    /\ is_preempt(s, t)
    /\ s.prio[t] >= SliceMaxPrio
    /\ ~z_is_thread_prevented_from_running(s, t)
    /\ t # Idle

-----------------------------------------------------------------------------
(* Choosing the next thread.                                               *)

z_reset_time_slice(s, t) ==
    [s EXCEPT !.slice_expired = FALSE, !.slice_timeout = sliceable(s, t)]

\* the thread at the head of the ready queue, if there is one
runq_best(s) == IF s.runq = <<>> THEN NULL ELSE z_priq_dumb_best(s.runq)

\* a cooperative thread preempted by a meta-IRQ goes before the queue's best
\* thread, unless that is a meta-IRQ too
MetairqReturns(s) ==
    /\ s.metairq_preempted # NULL
    /\ runq_best(s) = NULL \/ ~is_metairq(s, runq_best(s))

\* next_up() as the thread it returns ...
next_up(s) ==
    IF MetairqReturns(s)
         /\ ~z_is_thread_prevented_from_running(s, s.metairq_preempted)
    THEN s.metairq_preempted
    ELSE IF runq_best(s) # NULL THEN runq_best(s) ELSE Idle

\* ... and as what it leaves in metairq_preempted
NextUpPreempted(s) ==
    IF MetairqReturns(s)
         /\ z_is_thread_prevented_from_running(s, s.metairq_preempted)
    THEN NULL ELSE s.metairq_preempted

should_preempt(s, t, preempt_ok) ==
    \/ preempt_ok
    \/ z_is_thread_prevented_from_running(s, s.current)
    \/ is_preempt(s, s.current)
    \/ is_metairq(s, t)

\* metairq_preempted once thread t has been selected
update_metairq_preempt(s, t) ==
    IF is_metairq(s, t) /\ ~is_metairq(s, s.current) /\ ~is_preempt(s, s.current)
    THEN s.current
    ELSE IF ~is_metairq(s, t) /\ t # Idle THEN NULL ELSE s.metairq_preempted

update_cache(s, preempt_ok) ==
    LET t == next_up(s)
        n == [s EXCEPT !.metairq_preempted = NextUpPreempted(s)]
        r == IF t # s.current THEN z_reset_time_slice(n, t) ELSE n
    IN  IF should_preempt(n, t, preempt_ok)
        THEN [r EXCEPT !.metairq_preempted = update_metairq_preempt(n, t),
                       !.cache = t]
        ELSE [n EXCEPT !.cache = s.current]

-----------------------------------------------------------------------------
(* Ready queue and wait queues.                                            *)

queue_thread(s, t) ==
    [s EXCEPT !.state[t] = @ \cup {"QUEUED"},
              !.runq = z_priq_dumb_add(@, s.prio, t)]

dequeue_thread(s, t) ==
    [s EXCEPT !.state[t] = @ \ {"QUEUED"},
              !.runq = z_priq_dumb_remove(@, t)]

DequeueIfQueued(s, t) ==
    IF z_is_thread_queued(s, t) THEN dequeue_thread(s, t) ELSE s

ready_thread(s, t) ==
    IF ~z_is_thread_queued(s, t) /\ z_is_thread_ready(s, t)
    THEN update_cache(queue_thread(s, t), FALSE)
    ELSE s

\* mutant: the current thread is taken off the queue but may not be preempted
unready_thread_NoPreempt(s, t) == update_cache(DequeueIfQueued(s, t), FALSE)

unready_thread(s, t) == update_cache(DequeueIfQueued(s, t), t = s.current)

add_to_waitq_locked(s, t, w) ==
    LET u == unready_thread(s, t)
    IN  [u EXCEPT !.state[t] = @ \cup {"PENDING"},
                  !.pended_on[t] = w,
                  !.waitq[w] = z_priq_dumb_add(@, s.prio, t)]

\* mutant: pended_on is not reset
unpend_thread_no_timeout_KeepsPendedOn(s, t) ==
    [s EXCEPT !.waitq[s.pended_on[t]] = z_priq_dumb_remove(@, t),
              !.state[t] = @ \ {"PENDING"}]

unpend_thread_no_timeout(s, t) ==
    [s EXCEPT !.waitq[s.pended_on[t]] = z_priq_dumb_remove(@, t),
              !.state[t] = @ \ {"PENDING"},
              !.pended_on[t] = NULL]

UnpendIfPended(s, t) ==
    IF s.pended_on[t] # NULL THEN unpend_thread_no_timeout(s, t) ELSE s

\* K_FOREVER adds no timeout; how long any other one lasts is left open
add_thread_timeout(s, t, forever) ==
    IF forever THEN s ELSE [s EXCEPT !.timeout = @ \cup {t}]

z_abort_thread_timeout(s, t) == [s EXCEPT !.timeout = @ \ {t}]

z_sched_wake_thread(s, t, is_timeout) ==
    LET u == UnpendIfPended(s, t)
        gone == IF is_timeout THEN {"PRESTART", "SUSPENDED"} ELSE {"PRESTART"}
    IN  IF "DEAD" \in s.state[t] THEN s
        ELSE ready_thread([u EXCEPT !.state[t] = @ \ gone], t)

\* do_swap(): the context switch to the cached thread
z_swap(s) ==
    IF s.cache = s.current THEN s
    ELSE [z_reset_time_slice(s, s.cache) EXCEPT !.current = s.cache]

\* a call made by an interrupt handler leaves the switch to its exit
z_reschedule(s) == IF s.in_isr THEN s ELSE z_swap(s)

-----------------------------------------------------------------------------
(* Who may call.  While a thread is being ended the scheduler's lock is    *)
(* held and nothing else runs.                                             *)

InThread == ~k.in_isr /\ k.current # Idle /\ k.ending = NULL

InThreadOrIsr == (k.in_isr \/ k.current # Idle) /\ k.ending = NULL

InIsr == k.in_isr /\ k.ending = NULL

Alive(t) == "DEAD" \notin k.state[t]

z_sched_start(t) ==
    /\ InThreadOrIsr /\ "PRESTART" \in k.state[t]
    /\ k' = z_reschedule(ready_thread([k EXCEPT !.state[t] = @ \ {"PRESTART"}], t))

k_thread_suspend(t) ==
    /\ InThreadOrIsr
    /\ LET s == DequeueIfQueued(z_abort_thread_timeout(k, t), t)
           u == update_cache([s EXCEPT !.state[t] = @ \cup {"SUSPENDED"}],
                             t = k.current)
       IN  k' = IF t = k.current THEN z_reschedule(u) ELSE u

k_thread_resume(t) ==
    /\ InThreadOrIsr /\ "SUSPENDED" \in k.state[t]
    /\ k' = z_reschedule(ready_thread([k EXCEPT !.state[t] = @ \ {"SUSPENDED"}], t))

\* k_sleep() for a number of ticks; k_sleep(K_FOREVER) is k_thread_suspend()
z_tick_sleep ==
    /\ InThread
    /\ LET t == k.current
           s == add_thread_timeout(unready_thread(k, t), t, FALSE)
       IN  k' = z_swap([s EXCEPT !.state[t] = @ \cup {"SUSPENDED"}])

k_wakeup(t) ==
    /\ InThreadOrIsr /\ "PENDING" \notin k.state[t]
    /\ t \in k.timeout \/ k.state[t] = {"SUSPENDED"}
    /\ LET s == z_abort_thread_timeout(k, t)
       IN  k' = z_reschedule(ready_thread([s EXCEPT !.state[t] = @ \ {"SUSPENDED"}], t))

k_yield ==
    /\ InThread
    /\ k' = z_swap(update_cache(queue_thread(dequeue_thread(k, k.current), k.current), TRUE))

\* mutant: the priority of a queued thread changes in place
z_set_prio_InPlace(s, t, p) == update_cache([s EXCEPT !.prio[t] = p], TRUE)

z_set_prio(s, t, p) ==
    IF z_is_thread_ready(s, t)
    THEN update_cache(queue_thread([dequeue_thread(s, t) EXCEPT !.prio[t] = p], t), TRUE)
    ELSE [s EXCEPT !.prio[t] = p]

k_thread_priority_set(t, p) ==
    /\ InThread
    /\ LET s == z_set_prio(k, t, p)
       IN  k' = IF z_is_thread_ready(k, t) /\ k.locks[k.current] = 0
                THEN z_reschedule(s) ELSE s

k_sched_lock ==
    /\ InThread /\ k.locks[k.current] < MaxLocks
    /\ k' = [k EXCEPT !.locks[k.current] = @ + 1]

\* mutant: unlocking without having locked
k_sched_unlock_Unbalanced ==
    /\ InThread
    /\ k' = z_reschedule(update_cache([k EXCEPT !.locks[k.current] = @ - 1], FALSE))

\* mutant: the cache is not computed again
k_sched_unlock_NoUpdate ==
    /\ InThread /\ k.locks[k.current] > 0
    /\ k' = z_reschedule([k EXCEPT !.locks[k.current] = @ - 1])

k_sched_unlock ==
    /\ InThread /\ k.locks[k.current] > 0
    /\ k' = z_reschedule(update_cache([k EXCEPT !.locks[k.current] = @ - 1], FALSE))

\* z_pend_curr(): the current thread waits on a kernel object
z_pend_curr(w, forever) ==
    /\ InThread
    /\ k' = z_swap(add_thread_timeout(add_to_waitq_locked(k, k.current, w),
                                      k.current, forever))

\* z_sched_wake() of the object's first waiter, then z_reschedule()
z_sched_wake(w) ==
    /\ InThreadOrIsr /\ k.waitq[w] # <<>>
    /\ LET t == z_priq_dumb_best(k.waitq[w])
           s == z_abort_thread_timeout(unpend_thread_no_timeout(k, t), t)
       IN  k' = z_reschedule(ready_thread(s, t))

\* k_thread_join() that has to wait; the other outcomes change nothing
k_thread_join(t, forever) ==
    /\ InThread /\ Alive(t)
    /\ t # k.current /\ k.pended_on[t] # k.current
    /\ k' = z_swap(add_thread_timeout(add_to_waitq_locked(k, k.current, t),
                                      k.current, forever))

-----------------------------------------------------------------------------
(* z_thread_abort(): end_thread() holds the scheduler's lock while it      *)
(* walks the join queue, one step per thread it releases.                  *)

\* mutant: the timeout of the ended thread stays armed
z_thread_abort_KeepsTimeout(t) ==
    /\ InThreadOrIsr /\ Alive(t)
    /\ LET d == DequeueIfQueued([k EXCEPT !.state[t] = @ \cup {"DEAD"}], t)
       IN  k' = [UnpendIfPended(d, t) EXCEPT !.ending = t]

z_thread_abort(t) ==
    /\ InThreadOrIsr /\ Alive(t)
    /\ LET d == DequeueIfQueued([k EXCEPT !.state[t] = @ \cup {"DEAD"}], t)
           s == z_abort_thread_timeout(UnpendIfPended(d, t), t)
       IN  k' = [s EXCEPT !.ending = t]

unpend_all ==
    /\ k.ending # NULL /\ k.waitq[k.ending] # <<>>
    /\ LET t == z_priq_dumb_best(k.waitq[k.ending])
           s == z_abort_thread_timeout(unpend_thread_no_timeout(k, t), t)
       IN  k' = ready_thread(s, t)

end_thread ==
    /\ k.ending # NULL /\ k.waitq[k.ending] = <<>>
    /\ LET s == update_cache([k EXCEPT !.ending = NULL], TRUE)
       IN  k' = IF k.ending = k.current THEN z_reschedule(s) ELSE s

-----------------------------------------------------------------------------
(* Interrupts.                                                             *)

IsrEnter ==
    /\ ~k.in_isr /\ k.ending = NULL
    /\ k' = [k EXCEPT !.in_isr = TRUE]

\* z_get_next_switch_handle(), called as the interrupt returns
z_get_next_switch_handle ==
    /\ InIsr
    /\ k' = [k EXCEPT !.in_isr = FALSE, !.current = k.cache]

\* the thread has used up its slice: behind the others of its priority
z_time_slice(s) ==
    IF s.slice_expired /\ sliceable(s, s.current)
    THEN z_reset_time_slice(
             update_cache(queue_thread(DequeueIfQueued(s, s.current), s.current), TRUE),
             s.current)
    ELSE s

\* sys_clock_announce() unlinks an expired timeout and calls its handler, and
\* ends with z_time_slice(); the order of the timeouts that expire in one call
\* is the order of as many calls.  Both are one step: an interrupt of a priority
\* above the system timer's, which could come between them, is left out here
\* (Pend has that cut, without the ready queue).
z_thread_timeout(t) ==
    /\ InIsr /\ t \in k.timeout
    /\ k' = z_time_slice(z_sched_wake_thread(z_abort_thread_timeout(k, t), t, TRUE))

slice_timeout ==
    /\ InIsr /\ k.slice_timeout
    /\ k' = z_time_slice([k EXCEPT !.slice_timeout = FALSE, !.slice_expired = TRUE])

\* a tick on which nothing expires: all that is left is z_time_slice()
sys_clock_announce == InIsr /\ k' = z_time_slice(k)

-----------------------------------------------------------------------------
\* One thread runs; the others are not started, some with a start delay.
Init ==
    \E main \in Threads, prio \in [Threads -> NewPrios] :
    \E delayed \in SUBSET (Threads \ {main}) :
        k = [state |-> [t \in Runnables |->
                            IF t = main THEN {"QUEUED"}
                            ELSE IF t = Idle THEN {} ELSE {"PRESTART"}],
             prio |-> [t \in Runnables |->
                            IF t = Idle THEN NumPreempt ELSE prio[t]],
             locks |-> [t \in Runnables |-> 0],
             runq |-> <<main>>,
             waitq |-> [w \in Queues |-> <<>>],
             pended_on |-> [t \in Threads |-> NULL],
             timeout |-> delayed,
             current |-> main,
             cache |-> main,
             metairq_preempted |-> NULL,
             slice_expired |-> FALSE,
             slice_timeout |-> FALSE,
             in_isr |-> FALSE,
             ending |-> NULL]

Next ==
    \/ \E t \in Threads : \/ z_sched_start(t)
                          \/ k_thread_suspend(t)
                          \/ k_thread_resume(t)
                          \/ k_wakeup(t)
                          \/ z_thread_abort(t)
                          \/ z_thread_timeout(t)
    \/ \E t \in Threads, p \in NewPrios : k_thread_priority_set(t, p)
    \/ \E t \in Threads, forever \in BOOLEAN : k_thread_join(t, forever)
    \/ \E w \in Objects, forever \in BOOLEAN : z_pend_curr(w, forever)
    \/ \E w \in Objects : z_sched_wake(w)
    \/ z_tick_sleep \/ k_yield \/ k_sched_lock \/ k_sched_unlock
    \/ unpend_all \/ end_thread
    \/ IsrEnter \/ z_get_next_switch_handle
    \/ slice_timeout \/ sys_clock_announce

Spec == Init /\ [][Next]_k

-----------------------------------------------------------------------------
TypeOK == k \in Kernel

\* The ready queue holds exactly the threads that are ready to run, each once
\* and flagged _THREAD_QUEUED, and stays in priority order whatever is done to
\* priorities, states and timeouts: dequeue_thread() in k_yield() and
\* z_set_prio() unlinks without looking.
ReadyQueueExact ==
    /\ NoDuplicates(k.runq)
    /\ InPriorityOrder(k.runq, k.prio)
    /\ \A t \in Threads :
          /\ OnQueue(k.runq, t) <=> z_is_thread_queued(k, t)
          /\ z_is_thread_queued(k, t) <=> z_is_thread_ready(k, t)

\* A pending thread is on the one wait queue it is pended on and no other
\* thread is on it; the queues share a list node (qnode_dlist) with the ready
\* queue, so a thread on two lists would corrupt both.
WaitQueuesExact ==
    \A t \in Threads :
        /\ "PENDING" \in k.state[t] <=> k.pended_on[t] # NULL
        /\ \A w \in Queues : OnQueue(k.waitq[w], t) <=> k.pended_on[t] = w
        /\ \A w \in Queues : NoDuplicates(k.waitq[w])

\* Outside an interrupt the CPU runs a thread that may run: nobody executes
\* while pending, suspended, not started or dead, which z_tick_sleep() and
\* z_thread_abort() assert after their swap.
CurrentMayRun ==
    ~k.in_isr /\ k.ending = NULL
        => ~z_is_thread_prevented_from_running(k, k.current)

\* While the running thread is preemptible the cached next thread is one of
\* the best ready threads: no wake-up, priority change, unlock or end of a
\* thread leaves the ready queue and the cache disagreeing, so the next switch
\* is always to the right thread.
CacheIsBest ==
    k.ending = NULL /\ is_preempt(k, k.current) =>
        \A t \in Threads : z_is_thread_ready(k, t) => k.prio[k.cache] <= k.prio[t]

\* "Once a preemptive thread becomes the current thread, it remains the
\* current thread until a higher priority thread becomes ready": outside an
\* interrupt no ready thread has a higher priority than a preemptible current
\* thread.
PreemptibleRunsBest ==
    ~k.in_isr /\ k.ending = NULL /\ is_preempt(k, k.current) =>
        \A t \in Threads : z_is_thread_ready(k, t) => k.prio[k.current] <= k.prio[t]

\* A thread that has ended keeps nothing: nobody waits in k_thread_join() for
\* it, it waits for nothing and no timeout of it is armed.
DeadIsForgotten ==
    \A t \in Threads : "DEAD" \in k.state[t] /\ k.ending # t =>
        /\ k.waitq[t] = <<>>
        /\ k.pended_on[t] = NULL
        /\ t \notin k.timeout

\* "Once a cooperative thread becomes the current thread, it remains the
\* current thread until it performs an action that makes it unready": it loses
\* the CPU only when it is no longer able to run, when it yields or releases
\* the scheduler lock, when its own priority changes, or to a meta-IRQ.
CoopKeepsCpu ==
    [][ ~is_preempt(k, k.current) /\ k'.current # k.current =>
            \/ z_is_thread_prevented_from_running(k', k.current)
            \/ k_yield \/ k_sched_unlock
            \/ k'.prio[k.current] # k.prio[k.current]
            \/ is_metairq(k', k'.current) ]_k

\* No thread runs while it is suspended, which z_tick_sleep() asserts when it
\* is back from its context switch.
RunningNotSuspended ==
    ~k.in_isr /\ k.ending = NULL => "SUSPENDED" \notin k.state[k.current]
=============================================================================
