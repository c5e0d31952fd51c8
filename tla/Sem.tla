--------------------------------- MODULE Sem ---------------------------------
(***************************************************************************)
(* The counting semaphore of kernel/sem.c.  Threads take with or without a *)
(* wait, threads and interrupt handlers give and reset, thread priorities  *)
(* change and timeouts expire meanwhile.                                   *)
(***************************************************************************)
EXTENDS Pend, FiniteSets

CONSTANTS
    sem,            \* the semaphore's wait_q
    Limit           \* the limit given to k_sem_init()

ASSUME SemAssumption ==
    Objects = {sem} /\ Limit \in Nat \ {0} /\ IsFiniteSet(Threads)

VARIABLES
    p,              \* the threads and their waits
    count,
    op,             \* the operation that holds the lock, if it is not done yet
    taking,         \* threads inside a k_sem_take() that waits
    credit          \* tokens given and not taken: a history variable

vars == <<p, count, op, taking, credit>>

TypeOK ==
    /\ p \in Pending
    /\ count \in 0 .. Limit
    /\ op \in {"none", "give", "reset"}
    /\ taking \subseteq Threads
    /\ credit \in Nat

Init ==
    /\ \E prio \in [Threads -> Prios] : p = PendInit(prio)
    /\ count \in 0 .. Limit
    /\ op = "none"
    /\ taking = {}
    /\ credit = count

-----------------------------------------------------------------------------
\* mutant: the count passes the limit
k_sem_give_OverLimit ==
    /\ op = "none"
    /\ IF p.waitq[sem] # <<>>
       THEN /\ p' = z_unpend_first_thread(p, sem)
            /\ op' = "give"
            /\ credit' = credit + 1
            /\ UNCHANGED count
       ELSE /\ count' = count + 1
            /\ credit' = credit + count' - count
            /\ UNCHANGED <<p, op>>
    /\ UNCHANGED taking

\* with no waiter the count goes up to the limit; otherwise the token goes to
\* the first waiter, which is woken in a second step
k_sem_give ==
    /\ op = "none"
    /\ IF p.waitq[sem] # <<>>
       THEN /\ p' = z_unpend_first_thread(p, sem)
            /\ op' = "give"
            /\ credit' = credit + 1
            /\ UNCHANGED count
       ELSE /\ count' = IF count # Limit THEN count + 1 ELSE count
            /\ credit' = credit + count' - count
            /\ UNCHANGED <<p, op>>
    /\ UNCHANGED taking

GiveWake ==
    /\ op = "give"
    /\ p' = WakeWith(p, "OK")
    /\ op' = "none"
    /\ UNCHANGED <<count, taking, credit>>

\* k_sem_take() that takes; -EBUSY changes nothing
k_sem_take(t) ==
    /\ op = "none" /\ Runs(p, t) /\ t \notin taking
    /\ count > 0
    /\ count' = count - 1
    /\ credit' = credit - 1
    /\ UNCHANGED <<p, op, taking>>

\* k_sem_take() that waits
TakePend(t, wait) ==
    /\ op = "none" /\ Runs(p, t) /\ t \notin taking
    /\ count = 0 /\ wait # "NO_WAIT"
    /\ p' = z_pend_curr(p, t, sem, wait)
    /\ taking' = taking \cup {t}
    /\ UNCHANGED <<count, op, credit>>

\* z_pend_curr() returns in the thread that waited
TakeReturn(t) ==
    /\ t \in taking /\ Runs(p, t)
    /\ taking' = taking \ {t}
    /\ credit' = IF p.swap_retval[t] = "OK" THEN credit - 1 ELSE credit
    /\ UNCHANGED <<p, count, op>>

\* the waiters leave one by one with -EAGAIN, then the count is cleared
k_sem_reset ==
    /\ op = "none"
    /\ op' = "reset"
    /\ UNCHANGED <<p, count, taking, credit>>

ResetUnpend ==
    /\ op = "reset" /\ p.waking = NULL /\ p.waitq[sem] # <<>>
    /\ p' = z_unpend_first_thread(p, sem)
    /\ UNCHANGED <<count, op, taking, credit>>

\* mutant: the waiters are told they have taken the semaphore
ResetWake_Ok ==
    /\ op = "reset" /\ p.waking # NULL
    /\ p' = WakeWith(p, "OK")
    /\ UNCHANGED <<count, op, taking, credit>>

ResetWake ==
    /\ op = "reset" /\ p.waking # NULL
    /\ p' = WakeWith(p, "EAGAIN")
    /\ UNCHANGED <<count, op, taking, credit>>

ResetDone ==
    /\ op = "reset" /\ p.waking = NULL /\ p.waitq[sem] = <<>>
    /\ count' = 0 /\ op' = "none"
    /\ credit' = credit - count
    /\ UNCHANGED <<p, taking>>

-----------------------------------------------------------------------------
\* k_thread_priority_set()
SetPrio(t, prio) ==
    /\ op = "none" \/ SMP
    /\ p' = z_set_prio(p, t, prio)
    /\ UNCHANGED <<count, op, taking, credit>>

sys_clock_announce(t) ==
    /\ op = "none" \/ SMP
    /\ p.expired = NULL /\ t \in p.timeout
    /\ p' = Expire(p, t)
    /\ UNCHANGED <<count, op, taking, credit>>

TimeoutHandler ==
    /\ op = "none" \/ SMP
    /\ p.expired # NULL
    /\ p' = z_thread_timeout(p)
    /\ UNCHANGED <<count, op, taking, credit>>

Finish == GiveWake \/ ResetUnpend \/ ResetWake \/ ResetDone

Next ==
    \/ k_sem_give \/ k_sem_reset \/ Finish \/ TimeoutHandler
    \/ \E t \in Threads :
          \/ k_sem_take(t)
          \/ \E wait \in Waits : TakePend(t, wait)
          \/ TakeReturn(t)
          \/ \E prio \in Prios : SetPrio(t, prio)
          \/ sys_clock_announce(t)

\* A caller that holds the lock goes on.  The timer interrupt stays pending
\* while it is masked, and the timeout list is in order of time, so no timeout
\* is overtaken for ever.
Fairness ==
    /\ WF_vars(Finish)
    /\ SF_vars(TimeoutHandler)
    /\ \A t \in Threads : SF_vars(sys_clock_announce(t))

Spec == Init /\ [][Next]_vars /\ Fairness

-----------------------------------------------------------------------------
\* threads that have been given the semaphore and have not returned yet
Granted ==
    {t \in taking : p.pended_on[t] = NULL /\ p.waking # t /\ p.swap_retval[t] = "OK"}

\* No token is lost or made up: every k_sem_give() that counted is still in
\* the count, is being handed over, or belongs to a k_sem_take() that returns
\* 0, whatever timeout expires between z_unpend_first_thread() and
\* z_ready_thread().
TokensConserved ==
    credit = count + Cardinality(Granted) + (IF op = "give" THEN 1 ELSE 0)

\* A thread blocked in k_sem_take() is on the wait queue or is the one being
\* woken, only a thread on the queue has a timeout armed, and there is nobody
\* on it while the semaphore is available.
NobodyStranded ==
    /\ \A t \in Threads :
          /\ t \in p.timeout => p.pended_on[t] = sem
          /\ OnQueue(p.waitq[sem], t) <=> p.pended_on[t] = sem
          /\ t \notin p.ready => OnQueue(p.waitq[sem], t) \/ p.waking = t
    /\ count > 0 => p.waitq[sem] = <<>>

\* "When the semaphore is given, it is taken by the highest priority thread
\* that has waited longest": k_sem_give() picks a waiter no other waiter's
\* priority is higher than.
GivenToHighest ==
    [][ op = "none" /\ op' = "give" =>
            \A t \in Threads : OnQueue(p.waitq[sem], t) =>
                p.prio[p'.waking] <= p.prio[t] ]_vars

\* A k_sem_take() with a timeout ends: once armed, the timeout makes the
\* thread ready again unless somebody else has, whatever gives, resets and
\* other timeouts come first.
TimedTakeEnds == \A t \in Threads : t \in p.timeout ~> t \in p.ready
=============================================================================
