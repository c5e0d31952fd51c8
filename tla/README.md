# Zephyr kernel: TLA+ specifications, model checking and proofs

This directory specifies the core of the Zephyr kernel, its thread scheduler,
its timeouts and the objects threads wait on, as TLA+ modules translated from
`kernel/*.c`, and the on-off manager of `lib/os`. TLC checks them on small
instances, and TLAPS proves the invariants of the one-CPU scheduler, the timeout
list, the semaphore, the message queue, the mutex, the work queues and the on-off
manager for every instance. `PROJECT.json` lists
the components, runs, mutants, source lines, findings, hazards and theorems.

## 1. The system

| Part | State | Operations | Hard behaviour |
|---|---|---|---|
| Scheduler, `sched.c` | thread flags, priority, lock depth, ready queue, next-thread cache, current thread, `metairq_preempted`, time slice | start, suspend, resume, sleep, wake up, yield, set priority, lock/unlock, pend, wake, join, abort, interrupt exit | a thread changed by another one, by an interrupt or by its timeout in any state; cached choice; two lists sharing one node; locks dropped inside calls |
| Wait queues, `sched.c` | wait queue, `pended_on`, thread timeout, `swap_retval` | pend, unpend first, wake with a result | timeout unlinked before its handler runs |
| Timeouts, `timeout.c` | delta list, `curr_tick`, `announce_remaining` | add, abort, announce | lock dropped around handlers, late announcements, several CPUs |
| Semaphore, `sem.c` | count, waiters | give, take, reset | hand-over racing a timeout |
| Mutex, `mutex.c` | owner, depth, saved priority, waiters | lock, unlock | inheritance, its undoing on a timeout, ceiling |
| Condition variable, `condvar.c` | waiters | wait, signal, broadcast | unlock, wait, relock |
| Message queue, `msg_q.c` | ring, waiters of both kinds on one queue | put, get, peek, purge | direct hand-over past the ring, wrap |
| Work queues, `work.c` | item flags, queue list, cancelers and flushers | submit, schedule, cancel, flush, drain, run | flags shared by worker, timeout and callers |
| Poll, `poll.c` | events registered on objects, triggered work | poll, signal, submit, cancel, expire | registration event by event; event, timeout and cancellation at once |
| Timers, `timer.c` | timeout, period, status, waiter | start, stop, expire, sync | restart between unlinking and handler |
| Futex, `futex.c`, and `sys_sem`, `lib/os/sem.c` | an atomic word, waiters | wait, wake, give, take | the word is compared without the lock |
| Queue, stack, memory slab | items, waiters | put/get, append a list, cancel | hand-over racing a timeout |
| Events, `events.c` | event bits, waiters | post, set, clear, wait for any or all | what was posted is gone when the waiter runs |
| Pipe, `pipes.c` | ring buffer, readers, writers | put, get, flush, clean up | partial transfer past and through the ring |
| Mailbox, `mailbox.c` | senders, receivers, dummy threads | put, async put, get, data_get | a matched sender waits for the disposal |
| SMP, `smp.c`, parts of `sched.c` | per-CPU current, IPIs, aborting threads | switch, abort of a running thread | all of it |
| On-off manager, `lib/os/onoff.c` | state, flags, `refs`, clients, monitors | request, release, reset, cancel, complete | lock released for callbacks that call back |
| Trees, buffers, heaps, `lib/os` | own | own | outside the scope (section 8) |
| User mode, memory, boot, architectures, drivers, subsystems | — | — | outside the scope (section 8) |

They interact along a few lines. An object's operation holds the object's
spinlock and calls the pend and unpend primitives, which take the scheduler's
lock. The scheduler adds and aborts thread timeouts in the timeout list.
`sys_clock_announce()`, called by the clock driver's interrupt, unlinks a timeout, drops the lock and
calls its handler; for a thread that is `z_thread_timeout()`, which takes the
scheduler's lock only. On one CPU a spinlock masks interrupts, so one locked
section is one step; on several CPUs the steps of other CPUs come in between.

## 2. Modules

| Module | Models | Extends |
|---|---|---|
| `Priq` | the list queue: `z_priq_dumb_add/remove/best` on `dlist.h` lists, as sequences | |
| `SchedUP` | the scheduler with `CONFIG_SMP=n`, `CONFIG_USE_SWITCH=y`, list queues | `Priq` |
| `SchedWindows` | `k_wakeup()` and `k_thread_suspend()` cut where they hold no lock | `SchedUP` |
| `Pend` | waiting on objects, and the timeouts that end it | `Priq` |
| `Sem`, `MsgQ`, `Mutex` | the objects (`Mutex` with condition variables) | `Pend` |
| `BoundedFifo` | what a message queue promises | |
| `Timeout` | the delta list, the announcement loop, the driver's alarm | `Priq` |
| `Work` | work queues, delayable work, their threads and timeouts | |
| `Waiting` | what the objects below share: callers, calls under way, blocks, the timer interrupt | `Pend` |
| `MemSlab`, `Queue`, `Stack`, `Mailbox`, `Pipe`, `Events`, `Futex`, `Timer`, `Poll` | one object each (`Futex` with `sys_sem`, `Poll` with triggered work) | `Waiting` |
| `OnOff` | the on-off manager | `Priq` |
| `KernelObjects` | applications composed of these objects | all of them |
| `PriqProofs` | lemmas about the list queue | `Priq` |
| `SchedUPProofs` | the proofs about `SchedUP`: its operators, the invariant, the actions that wake threads up, those that requeue and block them, the theorems | `SchedUP`, `PriqProofs` |
| `PendProofs` | lemmas about the primitives of `Pend` on one CPU | `Pend`, `PriqProofs` |
| `TimeoutProofs` | the proofs about `Timeout`: the deltas, the list on any number of CPUs, the clock on one | `Timeout`, `PriqProofs` |
| `MsgQProofs`, `MutexProofs` | the proofs about these objects on one CPU | the object, `PendProofs` |
| `CountingProofs` | the proofs about the two objects that count: the semaphore on one CPU, and the on-off manager (the calls, the rounds of `process_event()`) | `Sem`, `OnOff`, `PendProofs` |
| `WorkProofs` | the proofs about `Work`: its lists, the functions of `work.c`, the actions, the theorems | `Work`, `PriqProofs` |
| `MC*` | the instances TLC checks | |

**SchedUP.** The variable `k` is a record of the fields of `struct k_thread`
(functions of the thread) and of `_kernel`. Each C function is an operator of
the same name from record to record, and an action composes them in the order
of the code: `k_thread_priority_set` is `z_set_prio` (dequeue, change, queue,
`update_cache(1)`) followed by `z_reschedule`. Actions are taken by the current
thread, or by an interrupt handler between `IsrEnter` and
`z_get_next_switch_handle`. A tick handler ends with `z_time_slice()`, which is
part of its action. `end_thread()` wakes the joiners one at a time (`unpend_all`
repeats, then `end_thread`). Timeouts of threads are a set of linked ones:
which of them expires first is open here and decided in `Timeout`. The idle
thread is on no queue and always ready.

**SchedWindows.** A variable `call` says where a thread is inside one of the
two calls that touch their target outside the scheduler's lock. Interrupts and
other threads come at the cuts. All of `SchedUP` is available to them.

**Pend and the objects.** The record `p` holds who is ready, where each thread
is pended, linked timeouts, the timeout that is unlinked with its handler not
yet called (`expired`), and the thread unpended and not yet ready (`waking`).
`op` marks an operation that still holds its lock: without SMP nothing comes in
between, with SMP the timeout handler and priority changes do. Which ready
thread runs is left open, an over-approximation of every scheduling order.
`credit` (Sem), `moved` (MsgQ), `holds` and `base` (Mutex) are history
variables for the properties. `k_msgq_get()` is also called by interrupts, which do
not wait (NULL in `Readers`). `k_condvar_wait()` ignores what `k_mutex_unlock()`
returns, so that a caller that has not locked the mutex waits with it as it is
(`CondvarWaitUnowned`).

**Timeout.** `now`, `announced` and `alarm` stand for the clock driver, which
is external: it counts, announces all it has counted, and promises to do so by
the alarm last set with `sys_clock_set_timeout()`. A driver advances its own
count before it calls `sys_clock_announce()`, so `elapsed()` at the end of the
announcement counts from there. A CPU that runs a handler is
in `handling`, with the `dt` the loop keeps in a local variable. `TicksBefore` is
what the walk of `z_add_timeout()` subtracts, as a function of the position.
`due` is a history variable.

**Work.** The record `k` is what the lock of `work.c` protects, and every locked
section is one step. Handlers run in the queues' threads with no lock held, so
they submit, schedule and cancel too: `ctx` of an action is the queue whose
handler acts, or NULL for any other thread and for interrupts. Interrupts come at
any time, between the unlinking of a timeout and `work_timeout()` too; threads do
not come there on one CPU (`MayAct`). `MayAdd` is what `z_add_timeout()` asserts:
behaviours end where the assertion would fail. A flusher on a queue's list is
named by the thread whose `k_work_sync` it is in. `owed` and `raced` are history
variables; `Races` says for each step how `raced` changes, and `Step` is the code.

**Waiting and its objects.** `call` tells in which call a thread is, where the
call is cut (before the pend of `k_futex_wait()`, between the registrations of
`k_poll()`, behind `z_abort_timeout()` in `k_timer_start()`) or waits. `ISR`
stands for the interrupt handlers: their calls have no guard but the object's,
and may come between the unlinking of a timeout and its handler (`announced` for
timers and triggered work, `p.expired` for threads). `held` says who owns a
memory block. In `Pipe` bytes are numbered modulo one more than the ring holds;
`in_order` records that readers got them in order. In `Mailbox` `rx[r].syncing`
is the sender of the message that `r` has received and not disposed of. In
`Poll` an object is whether it is available, and an `ev` the state of one
poll event; the work queue is whether it accepts items and has the one looked at.
A submission of triggered work by a thread is cut where `poll.c` releases its lock;
one by an interrupt (`SubmitFromISR`) is one step. `armed`, `asked`, `tokens`, `missed`, `due` and `relinked` are
history variables.

**KernelObjects.** `app`, chosen at the start, says which objects the
application uses: memory blocks that go from a slab through a queue and a stack
back to it; a mailbox; a pipe; events; a `sys_sem`; a timer; pollers; triggered
work; or a service with an on-off manager. Actions of the objects are composed
with those of the threads' timeouts.

**OnOff.** `mgr` is the manager, its flag word split in state and flags, `proc`
the local variables of the one `process_event()` that is active, `transition`
the service's promise to call `transition_complete()`, `cli` what each client
asked for and got. Each round of the loop is one step up to where the lock is
released; the callbacks are steps of their own, between which every call may
come, from a callback or from elsewhere.

## 3. Runs

Passing runs:

| Run | Instance | Shows |
|---|---|---|
| `sched_up` | 3 threads, 1 object, priorities -1 and 0, lock depth 1 | `ReadyQueueExact`, `WaitQueuesExact`, `CurrentMayRun`, `CacheIsBest`, `DeadIsForgotten` |
| `sem` | 3 threads, 2 priorities, limit 2, one CPU | `TokensConserved`, `NobodyStranded`, and `TimedTakeEnds` under fairness |
| `msgq` | 3 threads, 2 messages, 2 slots, one CPU | `WaitersOneSided`, `OutcomeTruthful`, `PeekAtExact`, and that the ring implements `BoundedFifo` |
| `timeout` | 3 timeouts, relative 0 and 2, absolute 3, time to 4, one CPU | `DeltasExact`, `ClockExact`, `AlarmInTime`, `ExpiresWhenDue`, `AddedInOrder` |
| `mutex` | 1 mutex, 1 condition variable, 3 threads, 3 priorities, depth 2, one CPU | `MutualExclusion`, `OwnerInherits`, `BoostHasCause`, `NeverBelowBase` |
| `work` | a plain and a delayable item; one queue and two threads, or two queues and one thread; one CPU | `FlagsExact`, `FlushComplete`, `CancelEnds`, `SleepsOnlyIdle`, `DelayExact`, and `SyncEnds` under fairness |
| `objects` | 2 threads and a dummy thread; 2 blocks, 1 stack entry; pipes of 0 and 2 bytes, requests of up to 3; 2 event bits; 3 poll objects; 3 clients | `Conserved`, `NoWaitBesideData`, `ReturnsTruthful`, `Unregistered`, `TriggerOnce`, `TimerExact` |

Each also checks its module's `TypeOK`. Every property has a mutant: a change
of one mapped definition, of the kind a slip in the code would be, under which
TLC finds the property violated.

Violation runs, each a disagreement between the code and a doc, a comment or
an assertion (quoted in `PROJECT.json`):

| Run | Says | What happens |
|---|---|---|
| `sched_metairq` | `z_tick_sleep()` asserts that a running thread is not suspended | a stale `metairq_preempted` is chosen by `next_up()` while that thread goes to sleep |
| `sched_windows` | `sys_dlist_remove()` needs a linked node | `k_thread_suspend()` or `k_wakeup()` is interrupted before it takes the lock; its target looks ready, is on no list, and a priority change would unlink it |
| `sem_smp` | a semaphore given is taken by a waiter | the timeout handler on another CPU readies the waiter before its return value is set; it returns `-EAGAIN` and the token is gone |
| `timeout_smp` | handlers do not run in parallel | `announce_remaining` is 0 during later handlers of the last announced tick |
| `queue_list` | `k_queue_get()` returns an item, or NULL after its waiting period | `k_queue_append_list()` unpends one waiter more than it has items; that thread is on no queue, has no timeout and is never made ready |

Further disagreements have no run of their own. Each is a property, or an
instance, of the modules above that TLC refutes:

| Where | Says | What happens | To see it |
|---|---|---|---|
| `sched.c:942` | a cooperative thread keeps the CPU until it is unready (`doc/kernel/services/scheduling/index.rst:124-125`) | it raises another thread above itself and is switched out | `sched_up` with PROPERTY `CoopKeepsCpu` |
| `sched.c:944` | a semaphore is taken by the waiter of highest priority (`semaphores.rst:37-38`) | the wait queue is not reordered when a waiter's priority changes | `sem` with PROPERTY `GivenToHighest` |
| `mutex.c:180` | a waiter's timeout restores the owner's priority (`mutexes.rst:80-82`) | the ceiling is applied to the owner's own priority | `mutex` with only `NeverBelowBase` and `PRIORITY_CEILING = 1` |
| `pipes.c:368` | a writer waits for its data to be written (`include/zephyr/kernel.h:4974`) | a read refills the ring from a waiting writer and does not wake it when its last byte is copied | `objects` with `Applications = {"pipes"}` and INVARIANT `PipeWritersWaitForSpace` |
| `work.c:825` | "Submit an idle work item to a queue after a delay" (`include/zephyr/kernel.h:3614`) | an interrupt above the system timer's, or another CPU, cancels the item and schedules it again between unlinking and handler; the handler takes the new `DELAYED` flag for its own, submits the item early and leaves the new timeout linked, and scheduling it once more adds a linked timeout, against the assertion in `timeout.c:110` | `work` with INVARIANT `NeverEarly` |
| `poll.c:314` | a `k_poll()` that waits on a queue "will return with -EINTR" from `k_queue_cancel_wait()` (`include/zephyr/kernel.h:1892-1893`), and 0 is "One or more events are ready" (`kernel.h:5762`) | a cancellation during the registration ends the poll with 0, and the only event that has changed is `K_POLL_STATE_CANCELLED` | `objects` with INVARIANT `PollZeroMeansReady` |
| `futex.c:77` | "Tests that the supplied futex contains the expected value, and if so, goes to sleep until some other thread calls k_futex_wake() on it" (`include/zephyr/kernel.h:2169-2170`) | `k_futex_wake()` between the test and the lock wakes nobody; the thread then waits beside the count it was woken for | `objects` with INVARIANT `FutexWaitAtomic` |
| `poll.c:617` and `poll.c:772` | a triggered item is "processed by workqueue `work_q` when one of the given `events` is signaled" (`include/zephyr/kernel.h:4306-4307`) | a queue that is drained or plugged refuses the item and nobody looks at the result: the item is neither queued nor polling, and cancelling or submitting it again gives `-EINVAL` | `objects` with INVARIANT `TriggerKept` |
| `timer.c:46` | a stopped timer does not expire | an interrupt above the system timer's stops it between unlinking and handler | `objects` with `Nested = {"k_timer_stop"}`: `TimerExact` |
| `timer.c:165` | a timeout is added once (asserted in `timeout.c`) | a thread and an interrupt both start the timer | a set with both in `MCStarterSets`: `TimerExact` |
| `poll.c:593` | a cancelled item does not run | an interrupt above the system timer's cancels it, or submits it anew, between unlinking and handler | `objects` with `Nested = {"k_work_poll_cancel"}` or `{"k_work_poll_submit"}`: `TriggerOnce` |
| `onoff.c:557` | assertion: a cancelled client waits for a transition under way | a request in OFF, or a reset in ERROR, that is deferred while callbacks run is on the list before its transition begins | as an invariant, that `mgr.clients = <<>>` unless `mgr.state \in Transitions` when the lock is free |

### Bounds

Three threads let one act, one be acted on and one come between them; a wait
queue then holds two and its order matters. Priorities -1 and 0 give a
cooperative and a preemptible level: preemption, equal priority, time slicing
and the idle thread below both all happen. Of a current thread the code asks
only whether it is preemptible, and of two others only which is higher, so a
third level adds states (3.4 times as many; the same properties hold) and no new
comparison. `MaxLocks` and `MaxDepth` bound nesting where one more
level repeats the same step. A ring of two slots wraps, and has an empty, a
partly full and a full state; its interesting case, a writer admitted by a read
of the full ring, needs one writer more. In `Timeout`, `MaxNow` = 4 lets
announcements be late by up to four ticks and timeouts coincide, expire in
one announcement or in different ones, and be added by a handler; delay 0 is
the shortest, and the deadline can be past. `MAX_WAIT` stands for any
value no alarm reaches. `msgq` leaves priorities equal, as its properties
do not depend on which waiter is first. Thread (and message, timeout) symmetry
is used where all of them start alike and no liveness is checked.

`mutex` does not check deadlock: threads that lock with `K_FOREVER` or wait for
a condition nobody signals may all wait for ever. Its ceiling of 0 equals the
best priority of the instance and so has no effect: the run says nothing of a
ceiling below a thread's own priority, which the row `mutex.c:180` is about.

In `work` a second item or thread gives a canceler, a flusher or a drain beside
the one looked at; the two applications keep queues and threads small in turn,
since an item moves between two queues only when there are two. In `objects` two
threads and the interrupt handlers suffice for a hand-over, a thread that times out
and one that comes between them. The ring of two bytes wraps and
fills; requests of three are larger than it. `MaxStatus` bounds the count of
expiries. An object has one poller at a time, a timer one waiting user
(`TimerUser`) and one starter, a thread or the interrupts (`StarterSets`), and
`Nested` is empty: what these exclude is in the table above or in section 6.
`objects` does not check deadlock: its threads may wait with K_FOREVER for what
nobody sends.

### Fairness

`sem` and `work` state fairness. In `sem` a caller that holds the semaphore's lock finishes
(weak fairness of `Finish`): it runs with interrupts masked and does not wait.
The timer interrupt stays pending while it is masked, so the handler and the
announcement of each linked timeout are strongly fair: they are taken if enabled
again and again. That no linked timeout is overtaken for ever is `DeltasExact`
and `ExpiresWhenDue` of `Timeout`: a timeout added later is never due before
the current tick and the list expires in order. No fairness of user threads is
assumed. In `work` a queue's thread runs again and again (strong fairness of
`work_queue_main`): it is a thread of the system that waits for nothing but
work, and the applications considered do not starve it, as `k_work_flush()`
needs of them anyway. A caller whose semaphore was given returns (`SyncReturn`),
and a timeout's handler ends. Handlers of items end: that is the step of
`work_queue_main` behind the handler. The fairness is that of steps of the code
(`workVars`), not of the history variable.

## 4. Proofs

### The scheduler

`SchedUPProofs` proves, for all sets of threads and objects, all priorities and
lock depths, and `NumMetairq = 0`:

| Theorem | Statement |
|---|---|
| `SchedulerInvariant` | `Spec => []IInv(k)` |
| `TypeCorrect` | `Spec => []TypeOK` |
| `ReadyQueueCorrect` | `Spec => []ReadyQueueExact` |
| `WaitQueuesCorrect` | `Spec => []WaitQueuesExact` |
| `CurrentMayRunCorrect` | `Spec => []CurrentMayRun` |
| `CacheIsBestCorrect` | `Spec => []CacheIsBest` |
| `DeadIsForgottenCorrect` | `Spec => []DeadIsForgotten` |

*Assumptions.* `PrioAssumption` and `ThreadAssumption` of `SchedUP` (the
constants are numbers of the right size; threads, objects, the idle thread and
NULL are distinct), which TLC evaluates in `sched_up`, and `NumMetairq = 0`:
with meta-IRQs `CurrentMayRun` fails, as `sched_metairq` shows.

*Argument.* None of the properties is inductive alone. `k_yield()` and
`z_set_prio()` dequeue without looking, so the queue stays exact only if the
current thread and every ready thread are on it; that the current thread is
ready rests on the cache being ready at each switch; that the cache is ready
rests on the queue being exact when `update_cache()` reads it. Between the
calls of one action these do not hold either: a thread is ready and not queued after
`z_mark_thread_as_not_pending()`, queued and not ready inside `z_tick_sleep()`.
The invariant is therefore layered:

- `Base`: types, a linked ready queue in priority order, wait queues that agree
  with `pended_on`. Every operator keeps it.
- `Settled`: `Base`, every thread queued exactly when ready, dead threads hold
  nothing (the one being ended may still have joiners), the cached thread ready
  and the one to run next: no queued thread is better than it, or it is the
  current thread and may not be preempted (`CachedBest`). It holds between calls.
- `IInv`: `Settled`, the current thread has no timeout and is ready unless an
  interrupt handler has just changed it or it is ending.

`CacheIsBest` speaks of preemptible current threads only, and is not inductive
even on top of the rest: a cooperative thread whose `k_sched_unlock()`, or whose
next switch, uses the cache must have found it right too. `CachedBest` says for
every current thread why the cache is what it is. A context switch goes to
another thread only in its first case, and the second survives one more
`k_sched_lock()`.

Each operator has a lemma that says what it makes of these, stated once and
cited by the lemma of each action; the proof of `SchedulerInvariant` has one case per action. `PriqProofs` supplies what insertion and removal do to a queue
without duplicates in priority order.

### The timeout list

`TimeoutProofs` proves, for every set of timeouts, all delays and deadlines and
every bound on time:

| Theorem | Statement | CPUs |
|---|---|---|
| `TimeoutInvariant` | `Spec => []DeltaInv` | any number |
| `TimeoutDeltasExact` | `Spec => []DeltasExact` | any number |
| `TimeoutAddedInOrder` | `Spec => AddedInOrder`, an action property | any number |
| `ClockInvariant` | `Spec => []ClockInv` | one |
| `TimeoutTypeCorrect` | `Spec => []TypeOK` | one |
| `TimeoutClockExact` | `Spec => []ClockExact` | one |
| `TimeoutAlarmInTime` | `Spec => []AlarmInTime` | one |
| `TimeoutExpiresWhenDue` | `Spec => ExpiresWhenDue`, an action property | one |

*Assumptions.* `TimeoutAssumption`, which TLC evaluates in `timeout`, and one CPU
where the table says so. On several CPUs two of them can be in the loop of
`sys_clock_announce()` at once (`timeout_smp`). Both then count ticks down from
one `announce_remaining`, which can become negative, and with it `curr_tick` is no
longer what was announced. The list stays exact and in order all the same.

*Argument.* `DeltasExact` is about sums over the list, and a step that links or
unlinks a node changes the sums of all nodes behind it. The invariant is therefore
stated without sums: `Deltas` says that each node's `dticks` is the difference
between its own expiry and that of the node in front of it, or `curr_tick`. An
insertion changes two such differences, a removal one, and the announcement of
`dt` ticks the first; the first part of the module shows this for any list. That
`TicksBefore`, a recursive function, is the sum of these differences is
`TicksBeforeSum`: the function that has the right values satisfies the recursive
equation, and two functions that satisfy it cannot differ, since there would be a
least place where they do. `DeltaInv` is `Deltas` of the kernel's list with the
types. `ClockInv` adds, for one CPU, that the ticks left to announce are at least
those of the timeout whose handler runs, that there are none when no handler runs,
and the clock and the alarm. While an announcement is under way nothing is claimed
of the alarm, because the end of the announcement sets it anew. Neither `ClockExact` nor `TypeOK` is
inductive without the first of these, as the loop subtracts `dt` after the handler.

### The semaphore

`CountingProofs` proves, for every finite set of threads, all priorities and limits,
and `~SMP`:

| Theorem | Statement |
|---|---|
| `SemInvariant` | `Spec => []SemInv` |
| `SemTypeCorrect` | `Spec => []TypeOK` |
| `TokensConservedCorrect` | `Spec => []TokensConserved` |
| `NobodyStrandedCorrect` | `Spec => []NobodyStranded` |

*Assumptions.* `PendAssumption` and `SemAssumption`, which TLC evaluates in
`sem`, and one CPU: with several `TokensConserved` fails, as `sem_smp` shows.

*Argument.* That no token is lost rests on what a waiter will return, so
`TokensConserved` needs that a thread that is not ready still has the preset
-EAGAIN, and that only the thread being woken is neither ready nor on the queue.
That the handler of a timeout readies its thread rests on the timeout not being
linked again, which holds as no thread runs between unlinking and handler. These
facts about threads and wait queue are `Sound`. `PendProofs` has a lemma for
each primitive of `Pend`: it keeps `Sound`, and says whom it gives something; the
proofs of all three objects cite them. `CountingProofs` has a lemma for each operation
of the semaphore: it moves a token between the count, the hand-over and the
takers (`StepInv`). `SemInv`
adds to `Sound` that a thread that is not ready is inside `k_sem_take()`, and
when a thread is being woken.

### The message queue

`MsgQProofs` proves, for every set of threads, all messages, every
capacity from one up, and `~SMP`:

| Theorem | Statement |
|---|---|
| `MsgQInvariant` | `Spec => []MsgQInv` |
| `MsgQTypeCorrect` | `Spec => []TypeOK` |
| `WaitersOneSidedCorrect` | `Spec => []WaitersOneSided` |
| `OutcomeTruthfulCorrect` | `Spec => []OutcomeTruthful` |
| `PeekAtExactCorrect` | `Spec => []PeekAtExact` |
| `MsgQIsBoundedFifo` | `Spec => IsBoundedFifo`, the refinement of `BoundedFifo` |

*Assumptions.* `PendAssumption` and `MsgQAssumption` (messages are not mistaken
for the markers of `op`, the ring has a slot), which TLC evaluates in `msgq`, and
one CPU.

*Argument.* `k_msgq_put()` takes the first waiter for a reader without asking.
That this is right needs `Waiters`: readers wait on an empty ring only, writers on
a full one only, where a `k_msgq_get()` that has taken a message and not yet
admitted the writer it unpended counts as full; and `HandOver`: the waiter an
operation has taken off the queue is of the right kind, and the ring is still as
it was. With one slot the ring inside such a get is empty, and the invariant has
to say that its waiters are writers all the same. `RingInv` ties the pointers to
the count, `write_ptr` being `read_ptr + used_msgs` modulo the capacity. The
lemmas `StoreAppends` and `FetchTail` say what a store and a read do
to the sequence `Contents`, on either side of the wrap; with these each step of
`Next` is a step of the bounded FIFO or leaves `Contents` and `out` alone
(`StepRefines`).

### The mutex

`MutexProofs` proves, for every set of threads and condition variables,
all priorities and depths, and `~SMP`:

| Theorem | Statement | Also assumes |
|---|---|---|
| `MutexInvariant` | `Spec => []MutexInv` | |
| `MutexTypeCorrect` | `Spec => []TypeOK` | |
| `MutualExclusionCorrect` | `Spec => []MutualExclusion` | |
| `NeverBelowBaseCorrect` | `Spec => []NeverBelowBase` | `NobodyAboveCeiling` |
| `OwnerInheritsCorrect` | `Spec => []OwnerInherits` | `OneMutex` |
| `BoostHasCauseCorrect` | `Spec => []BoostHasCause` | `OneMutex`, `NobodyAboveCeiling` |

*Assumptions.* `PendAssumption` and `MutexAssumption` (mutexes and condition
variables are distinct objects, the ceiling is one of the priorities or above all
of them), which TLC evaluates in `mutex`, and one CPU. The first three theorems
are about any number of mutexes, locked in any order. `NobodyAboveCeiling`, that
no priority is higher than `CONFIG_PRIORITY_CEILING`, is the default
configuration (the ceiling is -127); without it a waiter's timeout lowers an owner
that is above the ceiling, the disagreement at `mutex.c:180` in section 3.
`OneMutex` restricts the last two to applications in which threads use one mutex
at a time: the code saves one priority in each mutex and adjusts one owner, so a
thread that has two mutexes loses what it inherited through one when it unlocks
the other, and an owner that itself waits passes nothing on. Both instances of the
assumptions are the ones the run `mutex` checks.

*Argument.* `MutualExclusion` relates `owner` and `lock_count` to the history
`holds`. A waiter becomes the owner while it is still being woken, so the
invariant follows each thread through its call (`PcInv`: a thread that is locking
a mutex is pended on it, has it, or has timed out, and holds none of it before)
and each operation through its lock (`OpInv`). `InheritInv` adds that a mutex's
queue is in priority order: `k_mutex_unlock()` and a timeout look at its head
only. It is in order as an owner never waits for its own mutex, so that changing its
priority moves nobody. `BaseInv` and `CauseInv` add what the priority saved in the
mutex is. `NextSplit` sorts the steps: those that change no priority or owner
(`Quiet`), the first lock, a lock that waits, a wait that timed out, and the last
unlock; the three invariants are then shown for these five.

### The work queues

`WorkProofs` proves, for every set of items, delayable items, queues and threads:

| Theorem | Statement |
|---|---|
| `WorkInvariant` | `Spec => []WorkInv` |
| `WorkTypeCorrect` | `Spec => []TypeOK` |
| `WorkFlagsExact` | `Spec => []FlagsExact` |
| `WorkFlushComplete` | `Spec => []FlushComplete` |
| `WorkCancelEnds` | `Spec => []CancelEnds` |
| `WorkSleepsOnlyIdle` | `Spec => []SleepsOnlyIdle` |
| `WorkDelayExact` | `Spec => []DelayExact` |

*Assumptions.* `WorkAssumption`, which TLC evaluates in `work`. The theorems are
about one CPU and several: `work.c` has one lock, and what happens between its
locked sections is in the model. `DelayExact` excepts the timeouts in `raced`, those
added between the unlinking of the item's previous timeout and its handler
(`work.c:825` in section 3); for them it still says that a `DELAYED` item has a
timeout to come.

*Argument.* `WorkInv` is a conjunction of parts that lean on each other.

- `ListsOK`: an item is on a list, or runs, exactly as its flags and its `queue`
  say. `submit_to_queue_locked()` sends a running item to the queue that runs it,
  which is what keeps an item from being on two.
- `CancelOK`: a marked item runs, and a thread registered in `pending_cancels` is
  in the call and waits for a marked item. `finalize_cancel_locked()` therefore
  finds everyone whose mark it clears.
- `DrainOK`, `SleepOK`: a thread drains one queue and is in the call; a queue with
  drainers has its `DRAIN` flag; a sleeping one has neither items nor flag.
- `PlaceOK`: the flusher of a waiting `k_work_flush()` is on exactly one list, or
  is taken off it and not yet handled; a thread in no such call has none.
- `OwedOK`: behind `FlushComplete` is an order. The flusher of a thread that waits
  for a queued run is *behind* the item on its queue's list, and that of one that
  waits for a run under way is on the list of the queue that runs it. So when the
  flusher is taken, neither can be left.

`FlushComplete` speaks of the moment of release only, and is not inductive: that
nothing is owed then follows from `OwedOK` with `PlaceOK`, and `OwedOK` survives
submissions because the queue is FIFO except for the flusher, which goes directly
behind its item, or to the head of the list if the item only runs (`InsertOrder`,
and the lemmas on removal). Each function
of `work.c` has a lemma that says what it changes (`Submitted`, `Took`,
`RunEnded`, `DrainBegins`, `Slept`), and each action one that rests on those.
`DelayInv` adds to `WorkInv` what `DelayExact` says (`DelayedOK`, with the raced
timeouts as a parameter). Each step of the code is first shown to keep it when the
timeout whose handler is due is excepted too (`DelayStep`): only for that item can
the flag and the timeout come apart. `RacesRecorded` then shows that `Races` excepts
no more than is needed: an item scheduled in that window, until its timeout is
unlinked.

### The on-off manager

`CountingProofs` proves, for every finite set of clients and every
`SERVICE_REFS_MAX` that is not smaller:

| Theorem | Statement |
|---|---|
| `OnOffInvariant` | `OnOffSpec => []OnOffInv` |
| `ReferencesCorrect` | `OnOffSpec => [](RefsExact /\ ClientsKept)` |
| `EventsKeptCorrect` | `OnOffSpec => []EventsKept` |
| `ToldTrulyCorrect` | `OnOffSpec => []ToldTruly` |

The four properties are the on-off manager's conjuncts of `Conserved`,
`NoWaitBesideData` and `ReturnsTruthful`, which `objects` checks.

*Assumption.* `OnOffAssumption`: `process_complete()` adds the waiting clients to
the 16-bit `refs` without comparing it with its maximum, so `RefsExact` needs
that the clients fit. TLC evaluates it in `objects`.

*Argument.* `RefsExact` is not inductive: a completed transition adds the length
of the list to `refs`, which is the number of new holders only if the list has no
client twice (`ClientsKept`), none of them has the service already, and all of
them asked for it and not for a reset (`Kinds`: what the clients on the list asked for follows
from the state). No event is lost because exactly one of four things holds of a
transition: it will be asked of the service, it has been, its end is recorded in
the flags, or its end is being processed (`Control`); and whenever clients wait
outside a transition, or the service is on for nobody, a recheck is recorded or
being processed (`Wanted`). `OnOffInv` is the conjunction. The lemma of each
call shows that it keeps these; those of the loop's rounds rest on
`CompletionRound` and `RecheckRound`.

## 5. Only model-checked

- Liveness (`TimedTakeEnds`, `SyncEnds`): fairness and `ENABLED` are out of the
  proof system's reach.
- `KernelObjects` with its objects except the on-off manager: `TypeOK`,
  `Conserved`, `NoWaitBesideData`, `ReturnsTruthful`, `Unregistered`, `TriggerOnce`
  and `TimerExact`. The first four are conjunctions over all the objects, and each
  object needs an invariant of its own, as the semaphore did; only the on-off
  manager's conjuncts are proved. The last three are about `Poll` and `Timer` alone
  and are not proved yet. The objects share `PendProofs` with those that are.
- Several CPUs: the theorems about the objects of `Pend` and about the clock assume
  one, and the violation runs and the table in section 3 show
  which of them fail with several.

## 6. What is not covered by the modelled parts

`SchedUP`: SMP, `CONFIG_SCHED_DEADLINE`, CPU masks, the red-black and
multi-level queues (the red-black queue renumbers its threads when its order key
wraps, `sched.c:1215`), `CONFIG_SWAP_NONATOMIC`, per-thread slice callbacks,
`k_can_yield` and queries. Cycles of three joining threads are in the model and
no property forbids them. `Pend` and the objects: poll events on them, user-mode
verification, tracing, statistics, object initialisation by allocation.
In `SchedUP` the unlinking of a thread's timeout and its handler are one step: an
interrupt above the system timer's, which could wake the thread between them, is
left out there; the objects on `Pend` have that cut. `Timeout`: remaining-time queries, 64-bit conversion, counter overflow.
`Mutex`: several mutexes held at once are in the module and in the theorems of
section 4 without `OneMutex`, not in the run.
`MsgQ`: priority changes of waiters. Thread abort is in `SchedUP` and not in
the object models, and priority changes are not in `Waiting`'s: a sender that
a receiver has taken off its mailbox has no state flag and is on no queue
(`mailbox.c:408`), so a priority change would unlink it as in `sched_windows`.
`Queue`: `k_queue_remove()` and `k_queue_unique_append()`, which walk the list
without the lock. `Mailbox`: a sender that finds no unused dummy waits in
`k_stack_pop()`; here it calls when there is one. `Futex`: `k_futex_wake()` of one
waiter, which `sys_sem` does not use. `Poll`: several pollers of one object; there a poller that has
timed out and not run yet takes a notification from another (`poll.c:472`), and
the poller of triggered work, which has no thread, is compared by priority
(`poll.c:119`). `Work`: two synchronous calls that share one `k_work_sync`; a
flusher touched after its semaphore is given. `OnOff`: `onoff_sync_*()`.

## 7. Plan

1. `SchedSMP`: per-CPU current threads, switch handles, abort of a thread that
   runs elsewhere; `PriqRb`: order keys and their wrap.
2. Several pollers of one object, and poll events inside `Sem`, `Queue`, `MsgQ`
   and `Pipe`.
3. Abort and priority changes of threads that wait on the objects.
4. Proofs: the objects of `Waiting` one by one, on `PendProofs`, beginning with
   `TimerExact`, for applications in which one thread or the interrupts start the
   timer, and `TriggerOnce`.

## 8. Not modelled, and why

Creation and stacks of threads, boot, memory management, user mode: layout and
checks around the calls modelled here. Architectures and drivers: assembly and
hardware, external to the models. Heaps, trees and buffers of `lib/os`:
sequential algorithms over bytes and pointers, or lock-free buffers outside the
kernel core. Logging, networking, Bluetooth, file systems, power management,
zbus and the other subsystems: applications of the kernel, each a project of
its own.

## 9. Running

    tlc -config sched_up.cfg MCSchedUP
    tlc -config objects.cfg MCKernelObjects
    tlapm PriqProofs.tla
    tlapm SchedUPProofs.tla
    tlapm PendProofs.tla
    tlapm TimeoutProofs.tla
    tlapm CountingProofs.tla
    tlapm MsgQProofs.tla
    tlapm MutexProofs.tla
    tlapm WorkProofs.tla

`sched_up` has about 350,000 distinct states and takes one to two minutes,
`objects` about 340,000 and two to three, `work` about 150,000 and two to three; the other passing runs take less
than one. The proofs take from half a minute (`PriqProofs`) to about fifteen
minutes (`WorkProofs`).
