---------------------------- MODULE SchedWindows ----------------------------
(***************************************************************************)
(* The calls of kernel/sched.c that are not one locked section, cut where  *)
(* the lock is released: k_wakeup(), which tests and marks its target      *)
(* without the scheduler's lock, and k_thread_suspend(), which cancels the *)
(* target's timeout before it takes it.  An interrupt may come at a cut,   *)
(* and other threads may run before the caller goes on.                    *)
(***************************************************************************)
EXTENDS SchedUP

VARIABLE call       \* where a thread is inside such a call, and its target

NoCall == [at |-> "none", thread |-> NULL]

\* the running thread is at the place at
At(at) == InThread /\ call[k.current].at = at

Goes(at, t) == call' = [call EXCEPT ![k.current] = [at |-> at, thread |-> t]]

Returns == call' = [call EXCEPT ![k.current] = NoCall]

Target == call[k.current].thread

-----------------------------------------------------------------------------
WakeupTest(t) ==
    /\ At("none") /\ "PENDING" \notin k.state[t]
    /\ Goes("wakeup_abort", t)
    /\ UNCHANGED k

WakeupAbort ==
    /\ At("wakeup_abort")
    /\ k' = z_abort_thread_timeout(k, Target)
    /\ IF Target \in k.timeout \/ k.state[Target] = {"SUSPENDED"}
       THEN Goes("wakeup_mark", Target) ELSE Returns

WakeupMark ==
    /\ At("wakeup_mark")
    /\ k' = [k EXCEPT !.state[Target] = @ \ {"SUSPENDED"}]
    /\ Goes("wakeup_ready", Target)

WakeupReady ==
    /\ At("wakeup_ready")
    /\ k' = ready_thread(k, Target)
    /\ Goes("resched", Target)

SuspendAbort(t) ==
    /\ At("none")
    /\ k' = z_abort_thread_timeout(k, t)
    /\ Goes("suspend", t)

SuspendMark ==
    /\ At("suspend")
    /\ LET s == DequeueIfQueued(k, Target)
       IN  k' = update_cache([s EXCEPT !.state[Target] = @ \cup {"SUSPENDED"}],
                             Target = k.current)
    /\ IF Target = k.current THEN Goes("resched", Target) ELSE Returns

z_reschedule_unlocked ==
    /\ At("resched")
    /\ k' = z_reschedule(k)
    /\ Returns

\* any other call, by an interrupt handler or by a thread outside these calls
Others ==
    /\ InThread => call[k.current] = NoCall
    /\ Next
    /\ UNCHANGED call

WindowsInit == Init /\ call = [t \in Threads |-> NoCall]

WindowsNext ==
    \/ \E t \in Threads : WakeupTest(t) \/ SuspendAbort(t)
    \/ WakeupAbort \/ WakeupMark \/ WakeupReady
    \/ SuspendMark \/ z_reschedule_unlocked
    \/ IsrEnter /\ UNCHANGED call
    \/ Others

WindowsSpec == WindowsInit /\ [][WindowsNext]_<<k, call>>

-----------------------------------------------------------------------------
\* "The node must be part of a list": the threads that a k_yield() or a
\* k_thread_priority_set() made now would unlink, without a look at
\* _THREAD_QUEUED, are on the ready queue.
DequeueFindsThread ==
    At("none") =>
        \A t \in Threads : t = k.current \/ z_is_thread_ready(k, t) => OnQueue(k.runq, t)
=============================================================================
