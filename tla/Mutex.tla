------------------------------- MODULE Mutex --------------------------------
(***************************************************************************)
(* The mutexes of kernel/mutex.c, with priority inheritance, and the       *)
(* condition variables of kernel/condvar.c, which release and retake one.  *)
(* A mutex and a condition variable are named after their wait queues.     *)
(***************************************************************************)
EXTENDS Pend

CONSTANTS
    Mutexes,
    Condvars,
    PRIORITY_CEILING,   \* CONFIG_PRIORITY_CEILING
    MaxDepth            \* bound on how often a thread locks a mutex again

ASSUME MutexAssumption ==
    /\ Objects = Mutexes \cup Condvars /\ Mutexes \cap Condvars = {}
    /\ PRIORITY_CEILING \in Int /\ Prios # {}
    /\ PRIORITY_CEILING \in Prios \/ \A prio \in Prios : PRIORITY_CEILING <= prio
    /\ MaxDepth \in Nat \ {0}

VARIABLES
    p,                  \* the threads and their waits
    owner, lock_count, owner_orig_prio,
    op,                 \* the operation that has not released its lock yet
    pc,                 \* where a thread is inside a call, and with which mutex
    base,               \* the priority a thread was created with
    holds               \* how often a thread has locked a mutex: history

mutex == <<owner, lock_count, owner_orig_prio>>
vars == <<p, mutex, op, pc, base, holds>>

NoOp == [kind |-> "none", thread |-> NULL, obj |-> NULL]
Running == [at |-> "running", mutex |-> NULL]

TypeOK ==
    /\ p \in Pending
    /\ owner \in [Mutexes -> Threads \cup {NULL}]
    /\ lock_count \in [Mutexes -> 0 .. MaxDepth]
    /\ owner_orig_prio \in [Mutexes -> Prios]
    /\ op \in [kind : {"none", "wake", "wait", "broadcast"},
               thread : Threads \cup {NULL}, obj : Objects \cup {NULL}]
    /\ pc \in [Threads -> [at : {"running", "locking", "timedout", "waiting", "relock"},
                           mutex : Mutexes \cup {NULL}]]
    /\ base \in [Threads -> Prios]
    /\ holds \in [Threads -> [Mutexes -> 0 .. MaxDepth]]

Init ==
    /\ base \in [Threads -> Prios]
    /\ p = PendInit(base)
    /\ owner = [m \in Mutexes |-> NULL]
    /\ lock_count = [m \in Mutexes |-> 0]
    /\ owner_orig_prio \in [Mutexes -> {CHOOSE prio \in Prios : TRUE}]
    /\ op = NoOp
    /\ pc = [t \in Threads |-> Running]
    /\ holds = [t \in Threads |-> [m \in Mutexes |-> 0]]

-----------------------------------------------------------------------------
z_get_new_prio_with_ceiling(prio) ==
    IF prio >= PRIORITY_CEILING THEN prio ELSE PRIORITY_CEILING

\* mutant: the waiter's priority whatever the owner's is
new_prio_for_inheritance_NoLimit(target, limit) == z_get_new_prio_with_ceiling(target)

new_prio_for_inheritance(target, limit) ==
    z_get_new_prio_with_ceiling(IF target < limit THEN target ELSE limit)

\* adjust_owner_prio() of mutex m in the wait record s
adjust_owner_prio(s, m, new_prio) == z_set_prio(s, owner[m], new_prio)

\* t is outside the kernel and may call it; or it is inside k_condvar_wait()
\* and calls k_mutex_lock()
MayLock(t, m) ==
    /\ op = NoOp /\ Runs(p, t)
    /\ pc[t] = Running \/ pc[t] = [at |-> "relock", mutex |-> m]

Calls(t) == op = NoOp /\ Runs(p, t) /\ pc[t] = Running

\* mutant: the priority to go back to is saved again at every lock
k_mutex_lock_ResavesPrio(t, m) ==
    /\ MayLock(t, m)
    /\ lock_count[m] = 0 \/ owner[m] = t
    /\ lock_count[m] < MaxDepth
    /\ owner_orig_prio' = [owner_orig_prio EXCEPT ![m] = p.prio[t]]
    /\ lock_count' = [lock_count EXCEPT ![m] = @ + 1]
    /\ owner' = [owner EXCEPT ![m] = t]
    /\ pc' = [pc EXCEPT ![t] = Running]
    /\ holds' = [holds EXCEPT ![t][m] = @ + 1]
    /\ UNCHANGED <<p, op, base>>

\* k_mutex_lock() of a mutex that is free or the caller's own
k_mutex_lock(t, m) ==
    /\ MayLock(t, m)
    /\ lock_count[m] = 0 \/ owner[m] = t
    /\ lock_count[m] < MaxDepth
    /\ owner_orig_prio' =
          [owner_orig_prio EXCEPT ![m] = IF lock_count[m] = 0 THEN p.prio[t] ELSE @]
    /\ lock_count' = [lock_count EXCEPT ![m] = @ + 1]
    /\ owner' = [owner EXCEPT ![m] = t]
    /\ pc' = [pc EXCEPT ![t] = Running]
    /\ holds' = [holds EXCEPT ![t][m] = @ + 1]
    /\ UNCHANGED <<p, op, base>>

\* mutant: the owner does not inherit
LockPend_NoBoost(t, m, wait) ==
    /\ MayLock(t, m) /\ wait # "NO_WAIT"
    /\ pc[t] # Running => wait = "FOREVER"
    /\ lock_count[m] # 0 /\ owner[m] # t
    /\ p' = z_pend_curr(p, t, m, wait)
    /\ pc' = [pc EXCEPT ![t] = [at |-> "locking", mutex |-> m]]
    /\ UNCHANGED <<mutex, op, base, holds>>

\* k_mutex_lock() of somebody else's: the owner inherits, the caller waits;
\* k_condvar_wait() waits for ever, and -EBUSY changes nothing
LockPend(t, m, wait) ==
    /\ MayLock(t, m) /\ wait # "NO_WAIT"
    /\ pc[t] # Running => wait = "FOREVER"
    /\ lock_count[m] # 0 /\ owner[m] # t
    /\ LET new_prio == new_prio_for_inheritance(p.prio[t], p.prio[owner[m]])
           s == IF new_prio < p.prio[owner[m]]
                THEN adjust_owner_prio(p, m, new_prio) ELSE p
       IN  p' = z_pend_curr(s, t, m, wait)
    /\ pc' = [pc EXCEPT ![t] = [at |-> "locking", mutex |-> m]]
    /\ UNCHANGED <<mutex, op, base, holds>>

\* z_pend_curr() returns in the thread that waited: it owns the mutex, or it
\* has timed out
LockReturn(t) ==
    /\ pc[t].at = "locking" /\ Runs(p, t)
    /\ IF p.swap_retval[t] = "OK"
       THEN /\ pc' = [pc EXCEPT ![t] = Running]
            /\ holds' = [holds EXCEPT ![t][pc[t].mutex] = @ + 1]
       ELSE /\ pc' = [pc EXCEPT ![t].at = "timedout"]
            /\ UNCHANGED holds
    /\ UNCHANGED <<p, mutex, op, base>>

\* the timed-out thread takes the lock again and lowers the owner's priority
\* to what the remaining waiters call for
LockTimedOut(t) ==
    /\ op = NoOp /\ Runs(p, t) /\ pc[t].at = "timedout"
    /\ LET m == pc[t].mutex
           new_prio == IF p.waitq[m] # <<>>
                       THEN new_prio_for_inheritance(p.prio[z_priq_dumb_best(p.waitq[m])],
                                                     owner_orig_prio[m])
                       ELSE owner_orig_prio[m]
       IN  p' = IF owner[m] # NULL THEN adjust_owner_prio(p, m, new_prio) ELSE p
    /\ pc' = [pc EXCEPT ![t] = Running]
    /\ UNCHANGED <<mutex, op, base, holds>>

-----------------------------------------------------------------------------
\* mutant: the count of a mutex that is handed over is cleared
Unlock_ClearsCount(t, m, next) ==
    /\ owner[m] = t
    /\ holds' = [holds EXCEPT ![t][m] = @ - 1]
    /\ op' = next
    /\ LET s == adjust_owner_prio(p, m, owner_orig_prio[m])
           u == z_unpend_first_thread(s, m)
       IN  IF lock_count[m] > 1
           THEN /\ lock_count' = [lock_count EXCEPT ![m] = @ - 1]
                /\ UNCHANGED <<p, owner, owner_orig_prio>>
           ELSE IF p.waitq[m] = <<>>
           THEN /\ p' = s
                /\ owner' = [owner EXCEPT ![m] = NULL]
                /\ lock_count' = [lock_count EXCEPT ![m] = 0]
                /\ UNCHANGED owner_orig_prio
           ELSE /\ p' = u
                /\ owner' = [owner EXCEPT ![m] = u.waking]
                /\ owner_orig_prio' = [owner_orig_prio EXCEPT ![m] = u.prio[u.waking]]
                /\ lock_count' = [lock_count EXCEPT ![m] = 0]

\* mutant: whoever unlocks need not be the owner
Unlock_AnyThread(t, m, next) ==
    /\ owner[m] # NULL
    /\ holds' = [holds EXCEPT ![t][m] = @ - 1]
    /\ op' = next
    /\ owner' = [owner EXCEPT ![m] = NULL]
    /\ lock_count' = [lock_count EXCEPT ![m] = 0]
    /\ UNCHANGED <<p, owner_orig_prio>>

\* k_mutex_unlock() by the owner, up to the waking of the next one; next is
\* what is left to do then.  By another thread it fails and changes nothing.
Unlock(t, m, next) ==
    /\ owner[m] = t
    /\ holds' = [holds EXCEPT ![t][m] = @ - 1]
    /\ op' = next
    /\ LET s == adjust_owner_prio(p, m, owner_orig_prio[m])
           u == z_unpend_first_thread(s, m)
       IN  IF lock_count[m] > 1
           THEN /\ lock_count' = [lock_count EXCEPT ![m] = @ - 1]
                /\ UNCHANGED <<p, owner, owner_orig_prio>>
           ELSE IF p.waitq[m] = <<>>
           THEN /\ p' = s
                /\ owner' = [owner EXCEPT ![m] = NULL]
                /\ lock_count' = [lock_count EXCEPT ![m] = 0]
                /\ UNCHANGED owner_orig_prio
           ELSE /\ p' = u
                /\ owner' = [owner EXCEPT ![m] = u.waking]
                /\ owner_orig_prio' = [owner_orig_prio EXCEPT ![m] = u.prio[u.waking]]
                /\ UNCHANGED lock_count

k_mutex_unlock(t, m) ==
    /\ Calls(t)
    /\ Unlock(t, m, [kind |-> "wake", thread |-> t, obj |-> m])
    /\ UNCHANGED <<pc, base>>

\* the thread that was unpended, if there is one, is made ready
UnlockWake ==
    /\ op.kind = "wake"
    /\ p' = IF p.waking # NULL THEN WakeWith(p, "OK") ELSE p
    /\ op' = NoOp
    /\ UNCHANGED <<mutex, pc, base, holds>>

-----------------------------------------------------------------------------
(* Condition variables (kernel/condvar.c).                                 *)

\* k_condvar_wait(): the mutex is unlocked under the condition variable's lock
k_condvar_wait(t, cv, m) ==
    /\ Calls(t)
    /\ Unlock(t, m, [kind |-> "wait", thread |-> t, obj |-> cv])
    /\ pc' = [pc EXCEPT ![t] = [at |-> "waiting", mutex |-> m]]
    /\ UNCHANGED base

\* k_condvar_wait() with a mutex the caller has not locked: nobody looks at the
\* -EPERM of k_mutex_unlock(), and the caller waits all the same
CondvarWaitUnowned(t, cv, m) ==
    /\ Calls(t) /\ owner[m] # t
    /\ op' = [kind |-> "wait", thread |-> t, obj |-> cv]
    /\ pc' = [pc EXCEPT ![t] = [at |-> "waiting", mutex |-> m]]
    /\ UNCHANGED <<p, mutex, base, holds>>

\* the new owner is woken, then the caller waits, with K_NO_WAIT until the
\* next tick
CondvarPend(wait) ==
    /\ op.kind = "wait"
    /\ LET s == IF p.waking # NULL THEN WakeWith(p, "OK") ELSE p
       IN  p' = z_pend_curr(s, op.thread, op.obj, wait)
    /\ op' = NoOp
    /\ UNCHANGED <<mutex, pc, base, holds>>

\* signalled or timed out, the thread goes on to k_mutex_lock(K_FOREVER)
CondvarReturn(t) ==
    /\ op = NoOp /\ pc[t].at = "waiting" /\ Runs(p, t)
    /\ pc' = [pc EXCEPT ![t].at = "relock"]
    /\ UNCHANGED <<p, mutex, op, base, holds>>

k_condvar_signal(t, cv) ==
    /\ Calls(t)
    /\ p.waitq[cv] # <<>>
    /\ p' = z_unpend_first_thread(p, cv)
    /\ op' = [kind |-> "wake", thread |-> t, obj |-> cv]
    /\ UNCHANGED <<mutex, pc, base, holds>>

k_condvar_broadcast(t, cv) ==
    /\ Calls(t)
    /\ p.waitq[cv] # <<>>
    /\ op' = [kind |-> "broadcast", thread |-> t, obj |-> cv]
    /\ UNCHANGED <<p, mutex, pc, base, holds>>

BroadcastUnpend ==
    /\ op.kind = "broadcast" /\ p.waking = NULL /\ p.waitq[op.obj] # <<>>
    /\ p' = z_unpend_first_thread(p, op.obj)
    /\ UNCHANGED <<mutex, op, pc, base, holds>>

BroadcastWake ==
    /\ op.kind = "broadcast" /\ p.waking # NULL
    /\ p' = WakeWith(p, "OK")
    /\ UNCHANGED <<mutex, op, pc, base, holds>>

BroadcastDone ==
    /\ op.kind = "broadcast" /\ p.waking = NULL /\ p.waitq[op.obj] = <<>>
    /\ op' = NoOp
    /\ UNCHANGED <<p, mutex, pc, base, holds>>

-----------------------------------------------------------------------------
sys_clock_announce(t) ==
    /\ op = NoOp \/ SMP
    /\ p.expired = NULL /\ t \in p.timeout
    /\ p' = Expire(p, t)
    /\ UNCHANGED <<mutex, op, pc, base, holds>>

TimeoutHandler ==
    /\ op = NoOp \/ SMP
    /\ p.expired # NULL
    /\ p' = z_thread_timeout(p)
    /\ UNCHANGED <<mutex, op, pc, base, holds>>

Next ==
    \/ \E t \in Threads :
          \/ \E m \in Mutexes :
                \/ k_mutex_lock(t, m) \/ k_mutex_unlock(t, m)
                \/ \E wait \in Waits : LockPend(t, m, wait)
                \/ \E cv \in Condvars : k_condvar_wait(t, cv, m) \/ CondvarWaitUnowned(t, cv, m)
          \/ \E cv \in Condvars : k_condvar_signal(t, cv) \/ k_condvar_broadcast(t, cv)
          \/ LockReturn(t) \/ LockTimedOut(t) \/ CondvarReturn(t)
          \/ sys_clock_announce(t)
    \/ UnlockWake \/ \E wait \in Waits : CondvarPend(wait)
    \/ BroadcastUnpend \/ BroadcastWake \/ BroadcastDone
    \/ TimeoutHandler

Spec == Init /\ [][Next]_vars

-----------------------------------------------------------------------------
\* t has been made the owner and k_mutex_lock() has not returned yet
BeingGiven(t, m) ==
    /\ pc[t] = [at |-> "locking", mutex |-> m] /\ p.pended_on[t] = NULL
    /\ p.waking = t \/ p.swap_retval[t] = "OK"

\* A thread that has locked a mutex and not unlocked it is its owner, with the
\* count the mutex records, until it unlocks it; hand-over, timeout and
\* condition variables included.  A mutex nobody has is free, and nobody waits
\* for a free mutex.
MutualExclusion ==
    \A m \in Mutexes :
        /\ \A t \in Threads : owner[m] = t <=> holds[t][m] > 0 \/ BeingGiven(t, m)
        /\ \A t \in Threads : owner[m] = t =>
              lock_count[m] = IF BeingGiven(t, m) THEN 1 ELSE holds[t][m]
        /\ owner[m] = NULL <=> lock_count[m] = 0
        /\ owner[m] = NULL => p.waitq[m] = <<>>

\* "This allows the owning thread to complete its work and release the mutex
\* more rapidly by executing at the same priority as the waiting thread": no
\* thread waits for a mutex whose owner has a lower priority than it, up to
\* the ceiling, also after timeouts and hand-over.
OwnerInherits ==
    op = NoOp =>
        \A m \in Mutexes, t \in Threads : OnQueue(p.waitq[m], t) =>
            p.prio[owner[m]] <= z_get_new_prio_with_ceiling(p.prio[t])

\* A raised priority has a cause and ends with it: a thread runs at its own
\* priority, or at that of a thread waiting for a mutex it owns, or of one
\* that has timed out and has not lowered it yet.
BoostHasCause ==
    op = NoOp =>
        \A t \in Threads : p.prio[t] # base[t] =>
            \E m \in Mutexes, u \in Threads :
                /\ owner[m] = t
                /\ p.prio[t] = z_get_new_prio_with_ceiling(p.prio[u])
                /\ pc[u].at \in {"locking", "timedout"} /\ pc[u].mutex = m

\* "When the owning thread releases the lock (or if the high priority waiting
\* thread times out), the kernel restores the thread's base priority from the
\* value saved in the mutex": inheritance never leaves a thread below the
\* priority it was created with.
NeverBelowBase == \A t \in Threads : p.prio[t] <= base[t]
=============================================================================
