---------------------------- MODULE MutexProofs -----------------------------
(***************************************************************************)
(* The mutexes and condition variables on one CPU, for any number of       *)
(* threads: mutual exclusion and NeverBelowBase for any number of mutexes; *)
(* that the owner inherits, and that a boost has a cause, for threads that *)
(* use one mutex, the case they are promised for.                          *)
(***************************************************************************)
EXTENDS Mutex, PendProofs

\* No thread is on its way from a wait queue to the ready ones, and no timeout
\* handler is due, but where the operation in progress says so.
OpInv ==
    /\ op.kind = "none" => op = NoOp
    /\ op = NoOp => p.waking = NULL
    /\ op # NoOp => p.expired = NULL
    /\ op.kind = "wait" => /\ op.thread \in p.ready /\ op.obj \in Condvars
                           /\ pc[op.thread].at = "waiting"
    /\ op.kind = "broadcast" => op.obj \in Condvars

\* Where a thread is inside a call agrees with what it waits for, and a thread
\* does not have the mutex it is locking.
PcInv ==
    \A t \in Threads :
        /\ pc[t].at = "running" => pc[t] = Running
        /\ pc[t].at # "running" => pc[t].mutex \in Mutexes
        /\ p.pended_on[t] \in Mutexes => pc[t] = [at |-> "locking", mutex |-> p.pended_on[t]]
        /\ p.pended_on[t] \in Condvars => pc[t].at = "waiting"
        /\ t \notin p.ready => pc[t].at \in {"locking", "waiting"}
        /\ pc[t].at = "locking" => holds[t][pc[t].mutex] = 0

\* the inductive invariant
MutexInv == TypeOK /\ Sound(p) /\ MutualExclusion /\ OpInv /\ PcInv

-----------------------------------------------------------------------------
\* Mutexes, condition variables and threads are told apart, and none is NULL.
LEMMA MutexTypes ==
    ASSUME MutexInv
    PROVE  /\ TypeOK /\ Sound(p) /\ p \in Pending /\ NULL \notin Threads
           /\ NULL \notin Objects /\ NULL \notin Mutexes /\ NULL \notin Condvars
           /\ Mutexes \subseteq Objects /\ Condvars \subseteq Objects
           /\ Mutexes \cap Condvars = {} /\ MaxDepth \in Nat \ {0}
           /\ p.waking \in Threads \cup {NULL} /\ p.expired \in Threads \cup {NULL}
           /\ \A t \in Threads : p.pended_on[t] \in Mutexes \cup Condvars \cup {NULL}
           /\ \A t \in Threads : t \in p.ready => p.pended_on[t] = NULL /\ p.waking # t
           /\ \A t \in Threads : t \notin p.ready => p.swap_retval[t] = "EAGAIN"
<1>1. TypeOK /\ Sound(p) /\ p \in Pending
  BY Zenon DEF MutexInv, Sound
<1>2. \A t \in Threads : /\ t \in p.ready => p.pended_on[t] = NULL /\ p.waking # t
                         /\ t \notin p.ready => p.swap_retval[t] = "EAGAIN"
  BY <1>1, Zenon DEF Sound
<1> QED BY <1>1, <1>2, PendTypes, MutexAssumption, Zenon

\* Nobody waits for a free mutex: the same, said of the threads.
LEMMA FreeMutex ==
    ASSUME NEW s, Sound(s), NEW m \in Mutexes
    PROVE  s.waitq[m] = <<>> <=> \A t \in Threads : s.pended_on[t] # m
<1>1. m \in Objects
  BY MutexAssumption, Zenon
<1> QED BY <1>1, WaitqEmpty, Zenon

\* Every mutex starts unlocked.
LEMMA InitInv ==
    ASSUME Init PROVE MutexInv
<1>1. /\ base \in [Threads -> Prios] /\ p = PendInit(base) /\ op = NoOp
      /\ owner = [m \in Mutexes |-> NULL] /\ lock_count = [m \in Mutexes |-> 0]
      /\ owner_orig_prio \in [Mutexes -> {CHOOSE prio \in Prios : TRUE}]
      /\ pc = [t \in Threads |-> Running]
      /\ holds = [t \in Threads |-> [m \in Mutexes |-> 0]]
  BY Zenon DEF Init
<1>2. /\ Sound(p) /\ p.ready = Threads /\ p.waking = NULL /\ p.expired = NULL
      /\ \A w \in Objects : p.waitq[w] = <<>>
  BY <1>1, InitSound, Zenon
<1>3. /\ p \in Pending /\ MaxDepth \in Nat \ {0} /\ Mutexes \subseteq Objects
      /\ NULL \notin Threads /\ NULL \notin Mutexes /\ NULL \notin Condvars
      /\ \A t \in Threads : p.pended_on[t] = NULL
  BY <1>2, PendAssumption, MutexAssumption, Zenon DEF Sound
<1>4. owner_orig_prio \in [Mutexes -> Prios]
  <2>1. (CHOOSE prio \in Prios : TRUE) \in Prios
    BY MutexAssumption, Zenon
  <2> QED BY <1>1, <2>1, Zenon
<1>5. TypeOK
  BY <1>1, <1>3, <1>4 DEF TypeOK, NoOp, Running
<1>6. MutualExclusion
  BY <1>1, <1>2, <1>3 DEF MutualExclusion, BeingGiven, Running
<1>7. OpInv
  BY <1>1, <1>2, Zenon DEF OpInv, NoOp
<1>8. PcInv
  BY <1>1, <1>2, <1>3, Zenon DEF PcInv, Running
<1> QED BY <1>2, <1>5, <1>6, <1>7, <1>8, Zenon DEF MutexInv

\* A step that neither locks nor unlocks: who has which mutex stays.
LEMMA ExclusionSame ==
    ASSUME MutexInv, Sound(p'), UNCHANGED <<owner, lock_count, holds>>,
           \A t \in Threads, m \in Mutexes : BeingGiven(t, m)' <=> BeingGiven(t, m),
           \A t \in Threads, m \in Mutexes : p'.pended_on[t] = m =>
               p.pended_on[t] = m \/ owner[m] # NULL
    PROVE  MutualExclusion'
<1>1. \A m \in Mutexes : owner[m] = NULL => p'.waitq[m] = <<>>
  <2>1. \A m \in Mutexes : owner[m] = NULL => p.waitq[m] = <<>>
    BY Zenon DEF MutexInv, MutualExclusion
  <2> QED BY <2>1, MutexTypes, FreeMutex
<1> QED BY <1>1, Zenon DEF MutexInv, MutualExclusion

\* A step that changes the threads' waits and the operation in progress only.
LEMMA WaitsInv ==
    ASSUME MutexInv, Sound(p'), UNCHANGED <<mutex, pc, base, holds>>, OpInv',
           op' \in [kind : {"none", "wake", "wait", "broadcast"},
                    thread : Threads \cup {NULL}, obj : Objects \cup {NULL}],
           \A t \in Threads :
              /\ p'.pended_on[t] \in Mutexes => p'.pended_on[t] = p.pended_on[t]
              /\ p'.pended_on[t] \in Condvars => pc[t].at = "waiting"
              /\ t \notin p'.ready => pc[t].at \in {"locking", "waiting"}
              /\ pc[t].at = "locking" =>
                    (/\ p'.pended_on[t] = NULL
                     /\ p'.waking = t \/ p'.swap_retval[t] = "OK") <=>
                    (/\ p.pended_on[t] = NULL
                     /\ p.waking = t \/ p.swap_retval[t] = "OK")
    PROVE  MutexInv'
<1>1. /\ owner' = owner /\ lock_count' = lock_count /\ pc' = pc /\ base' = base
      /\ owner_orig_prio' = owner_orig_prio /\ holds' = holds
  BY Zenon DEF mutex
<1>2. TypeOK'
  BY <1>1, MutexTypes DEF TypeOK, Sound
<1>3. \A t \in Threads, m \in Mutexes : BeingGiven(t, m)' <=> BeingGiven(t, m)
  BY <1>1 DEF BeingGiven
<1>4. MutualExclusion'
  BY <1>1, <1>3, ExclusionSame, Zenon
<1>5. PcInv'
  <2> SUFFICES ASSUME NEW t \in Threads
               PROVE  /\ pc[t].at = "running" => pc[t] = Running
                      /\ pc[t].at # "running" => pc[t].mutex \in Mutexes
                      /\ p'.pended_on[t] \in Mutexes =>
                            pc[t] = [at |-> "locking", mutex |-> p'.pended_on[t]]
                      /\ p'.pended_on[t] \in Condvars => pc[t].at = "waiting"
                      /\ t \notin p'.ready => pc[t].at \in {"locking", "waiting"}
                      /\ pc[t].at = "locking" => holds[t][pc[t].mutex] = 0
    BY <1>1, ZenonT(40) DEF PcInv
  <2>1. p'.pended_on[t] \in Mutexes => pc[t] = [at |-> "locking", mutex |-> p'.pended_on[t]]
    BY DEF MutexInv, PcInv
  <2> QED BY <2>1, ZenonT(40) DEF MutexInv, PcInv
<1> QED BY <1>2, <1>4, <1>5, Zenon DEF MutexInv

-----------------------------------------------------------------------------
(* Steps that change the threads' waits.                                   *)

\* The thread taken off a wait queue becomes ready and will return 0.
LEMMA WakeWaits ==
    ASSUME MutexInv, p.waking # NULL
    PROVE  LET r == WakeWith(p, "OK")
           IN  /\ Sound(r) /\ r.waking = NULL /\ r.expired = p.expired
               /\ p.ready \subseteq r.ready /\ r.prio = p.prio
               /\ r.pended_on = p.pended_on /\ r.waitq = p.waitq
               /\ \A t \in Threads :
                     /\ t \notin r.ready => t \notin p.ready
                     /\ (r.waking = t \/ r.swap_retval[t] = "OK") <=>
                        (p.waking = t \/ p.swap_retval[t] = "OK")
<1> DEFINE r == WakeWith(p, "OK")
<1>1. /\ Sound(r) /\ p.waking \in Threads /\ r.ready = p.ready \cup {p.waking}
      /\ r.waking = NULL /\ r.expired = p.expired /\ r.prio = p.prio
      /\ r.pended_on = p.pended_on /\ r.waitq = p.waitq
      /\ \A u \in Threads :
            r.swap_retval[u] = IF u = p.waking THEN "OK" ELSE p.swap_retval[u]
  BY MutexTypes, WakeSound, Zenon DEF Retvals
<1>2. NULL \notin Threads
  BY MutexTypes, Zenon
<1> HIDE DEF r
<1> QED BY <1>1, <1>2, Zenon DEF r

\* k_mutex_unlock() wakes the new owner.
LEMMA UnlockWakeInv ==
    ASSUME MutexInv, UnlockWake PROVE MutexInv'
<1>1. /\ op.kind = "wake" /\ op' = NoOp /\ UNCHANGED <<mutex, pc, base, holds>>
      /\ p' = IF p.waking # NULL THEN WakeWith(p, "OK") ELSE p
  BY Zenon DEF UnlockWake
<1>2. /\ Sound(p') /\ p'.waking = NULL /\ p'.pended_on = p.pended_on
      /\ \A t \in Threads :
            /\ t \notin p'.ready => t \notin p.ready
            /\ (p'.waking = t \/ p'.swap_retval[t] = "OK") <=>
               (p.waking = t \/ p.swap_retval[t] = "OK")
  <2>1. CASE p.waking # NULL
    BY <1>1, <2>1, WakeWaits, Zenon
  <2>2. CASE p.waking = NULL
    BY <1>1, <2>2, MutexTypes, Zenon
  <2> QED BY <2>1, <2>2, Zenon
<1>3. OpInv'
  BY <1>1, <1>2, Zenon DEF OpInv, NoOp
<1>4. op' \in [kind : {"none", "wake", "wait", "broadcast"},
               thread : Threads \cup {NULL}, obj : Objects \cup {NULL}]
  BY <1>1, Zenon DEF NoOp
<1>5. \A t \in Threads : /\ p.pended_on[t] \in Condvars => pc[t].at = "waiting"
                         /\ t \notin p.ready => pc[t].at \in {"locking", "waiting"}
  BY ZenonT(40) DEF MutexInv, PcInv
<1> QED BY <1>1, <1>2, <1>3, <1>4, <1>5, WaitsInv, Zenon

\* k_condvar_wait() wakes the new owner of the mutex, then the caller waits.
LEMMA CondvarPendInv ==
    ASSUME MutexInv, NEW wait, CondvarPend(wait) PROVE MutexInv'
<1> DEFINE s == IF p.waking # NULL THEN WakeWith(p, "OK") ELSE p
           t == op.thread
           cv == op.obj
<1>1. /\ op.kind = "wait" /\ op' = NoOp /\ UNCHANGED <<mutex, pc, base, holds>>
      /\ p' = z_pend_curr(s, t, cv, wait)
  BY Zenon DEF CondvarPend
<1>2. /\ Sound(s) /\ s.waking = NULL /\ s.pended_on = p.pended_on /\ s.expired = p.expired
      /\ p.ready \subseteq s.ready
      /\ \A u \in Threads :
            /\ u \notin s.ready => u \notin p.ready
            /\ (s.waking = u \/ s.swap_retval[u] = "OK") <=>
               (p.waking = u \/ p.swap_retval[u] = "OK")
  <2>1. CASE p.waking # NULL
    BY <2>1, WakeWaits, Zenon
  <2>2. CASE p.waking = NULL
    BY <2>2, MutexTypes, Zenon
  <2> QED BY <2>1, <2>2, Zenon
<1> HIDE DEF s
<1>3. /\ t \in p.ready /\ t \in Threads /\ cv \in Condvars /\ cv \in Objects
      /\ pc[t].at = "waiting" /\ p.expired = NULL
  <2>1. t \in p.ready /\ cv \in Condvars /\ pc[t].at = "waiting" /\ p.expired = NULL
    BY <1>1 DEF MutexInv, OpInv, NoOp
  <2> QED BY <2>1, MutexTypes, PendTypes, Zenon
<1> HIDE DEF t, cv
<1>4. /\ Sound(p') /\ p'.ready = s.ready \ {t} /\ p'.waking = s.waking
      /\ \A u \in Threads :
            /\ p'.pended_on[u] = IF u = t THEN cv ELSE s.pended_on[u]
            /\ p'.swap_retval[u] = IF u = t THEN "EAGAIN" ELSE s.swap_retval[u]
  BY <1>1, <1>2, <1>3, PendSound
<1>5. OpInv'
  BY <1>1, <1>2, <1>4, Zenon DEF OpInv, NoOp
<1>6. op' \in [kind : {"none", "wake", "wait", "broadcast"},
               thread : Threads \cup {NULL}, obj : Objects \cup {NULL}]
  BY <1>1, Zenon DEF NoOp
<1>7. \A u \in Threads : /\ p.pended_on[u] \in Condvars => pc[u].at = "waiting"
                         /\ u \notin p.ready => pc[u].at \in {"locking", "waiting"}
  BY ZenonT(40) DEF MutexInv, PcInv
<1>8. ASSUME NEW u \in Threads
      PROVE  /\ p'.pended_on[u] \in Mutexes => p'.pended_on[u] = p.pended_on[u]
             /\ p'.pended_on[u] \in Condvars => pc[u].at = "waiting"
             /\ u \notin p'.ready => pc[u].at \in {"locking", "waiting"}
             /\ pc[u].at = "locking" =>
                   (/\ p'.pended_on[u] = NULL
                    /\ p'.waking = u \/ p'.swap_retval[u] = "OK") <=>
                   (/\ p.pended_on[u] = NULL
                    /\ p.waking = u \/ p.swap_retval[u] = "OK")
  BY <1>2, <1>3, <1>4, <1>7, MutexTypes
<1> QED BY <1>1, <1>4, <1>5, <1>6, <1>8, WaitsInv, Zenon

\* The first thread waiting on a condition variable leaves its queue.
LEMMA CondvarUnpend ==
    ASSUME MutexInv, NEW cv \in Condvars, p.waking = NULL, p.waitq[cv] # <<>>,
           p' = z_unpend_first_thread(p, cv)
    PROVE  /\ Sound(p') /\ p'.expired = p.expired /\ p'.ready = p.ready
           /\ \A u \in Threads :
                 /\ p'.pended_on[u] \in Mutexes => p'.pended_on[u] = p.pended_on[u]
                 /\ p'.pended_on[u] \in Condvars => pc[u].at = "waiting"
                 /\ u \notin p'.ready => pc[u].at \in {"locking", "waiting"}
                 /\ pc[u].at = "locking" =>
                       (/\ p'.pended_on[u] = NULL
                        /\ p'.waking = u \/ p'.swap_retval[u] = "OK") <=>
                       (/\ p.pended_on[u] = NULL
                        /\ p.waking = u \/ p.swap_retval[u] = "OK")
<1> DEFINE w == z_priq_dumb_best(p.waitq[cv])
<1>1. /\ Sound(p') /\ w \in Threads /\ p.pended_on[w] = cv
      /\ p'.ready = p.ready /\ p'.waking = w /\ p'.expired = p.expired
      /\ p'.swap_retval = p.swap_retval
      /\ \A u \in Threads : p'.pended_on[u] = IF u = w THEN NULL ELSE p.pended_on[u]
  BY MutexTypes, UnpendFirstSound
<1> HIDE DEF w
<1>2. pc[w].at = "waiting"
  BY <1>1, ZenonT(40) DEF MutexInv, PcInv
<1>3. \A u \in Threads : /\ p.pended_on[u] \in Condvars => pc[u].at = "waiting"
                         /\ u \notin p.ready => pc[u].at \in {"locking", "waiting"}
  BY ZenonT(40) DEF MutexInv, PcInv
<1>4. NULL \notin Mutexes /\ NULL \notin Condvars /\ NULL \notin Threads
  BY MutexTypes, Zenon
<1> QED BY <1>1, <1>2, <1>3, <1>4, Zenon

\* k_condvar_signal() and k_condvar_broadcast().
LEMMA SignalInv ==
    ASSUME MutexInv, ~SMP,
           \/ \E t \in Threads, cv \in Condvars :
                 k_condvar_signal(t, cv) \/ k_condvar_broadcast(t, cv)
           \/ BroadcastUnpend \/ BroadcastWake \/ BroadcastDone
    PROVE  MutexInv'
<1> DEFINE Ops == [kind : {"none", "wake", "wait", "broadcast"},
                   thread : Threads \cup {NULL}, obj : Objects \cup {NULL}]
<1>t. op \in Ops /\ NoOp \in Ops
  BY MutexTypes, Zenon DEF TypeOK, NoOp
<1>p. \A u \in Threads : /\ p.pended_on[u] \in Condvars => pc[u].at = "waiting"
                         /\ u \notin p.ready => pc[u].at \in {"locking", "waiting"}
  BY ZenonT(40) DEF MutexInv, PcInv
<1>1. ASSUME NEW t \in Threads, NEW cv \in Condvars, k_condvar_signal(t, cv) PROVE MutexInv'
  <2>1. /\ op = NoOp /\ p.expired = NULL /\ p.waitq[cv] # <<>>
        /\ p' = z_unpend_first_thread(p, cv) /\ UNCHANGED <<mutex, pc, base, holds>>
        /\ op' = [kind |-> "wake", thread |-> t, obj |-> cv]
    BY <1>1, Zenon DEF k_condvar_signal, Calls, Runs
  <2>2. p.waking = NULL
    BY <2>1, Zenon DEF MutexInv, OpInv
  <2>3. op' \in Ops
    BY <2>1, MutexTypes, Zenon
  <2>4. OpInv'
    BY <2>1, <2>2, CondvarUnpend, Zenon DEF OpInv, NoOp
  <2> QED BY <2>1, <2>2, <2>3, <2>4, CondvarUnpend, WaitsInv, Zenon
<1>2. ASSUME NEW t \in Threads, NEW cv \in Condvars, k_condvar_broadcast(t, cv)
      PROVE  MutexInv'
  <2>1. /\ op = NoOp /\ p.expired = NULL /\ p' = p /\ UNCHANGED <<mutex, pc, base, holds>>
        /\ op' = [kind |-> "broadcast", thread |-> t, obj |-> cv]
    BY <1>2, Zenon DEF k_condvar_broadcast, Calls, Runs
  <2>2. op' \in Ops
    BY <2>1, MutexTypes, Zenon
  <2>3. OpInv'
    BY <2>1, Zenon DEF OpInv, NoOp
  <2> QED BY <1>p, <2>1, <2>2, <2>3, MutexTypes, WaitsInv, Zenon
<1>3. CASE BroadcastUnpend
  <2>1. /\ op.kind = "broadcast" /\ p.waking = NULL /\ p.waitq[op.obj] # <<>>
        /\ p' = z_unpend_first_thread(p, op.obj) /\ op' = op
        /\ UNCHANGED <<mutex, pc, base, holds>>
    BY <1>3, Zenon DEF BroadcastUnpend
  <2>2. op.obj \in Condvars /\ op # NoOp /\ p.expired = NULL
    BY <2>1 DEF MutexInv, OpInv, NoOp
  <2>3. OpInv'
    BY <2>1, <2>2, CondvarUnpend, Zenon DEF OpInv, NoOp
  <2> QED BY <1>t, <2>1, <2>2, <2>3, CondvarUnpend, WaitsInv, Zenon
<1>4. CASE BroadcastWake
  <2>1. /\ op.kind = "broadcast" /\ p.waking # NULL /\ p' = WakeWith(p, "OK")
        /\ op' = op /\ UNCHANGED <<mutex, pc, base, holds>>
    BY <1>4, Zenon DEF BroadcastWake
  <2>2. /\ Sound(p') /\ p'.expired = p.expired /\ p'.pended_on = p.pended_on
        /\ \A u \in Threads :
              /\ u \notin p'.ready => u \notin p.ready
              /\ (p'.waking = u \/ p'.swap_retval[u] = "OK") <=>
                 (p.waking = u \/ p.swap_retval[u] = "OK")
    BY <2>1, WakeWaits, Zenon
  <2>3. OpInv'
    BY <2>1, <2>2, Zenon DEF MutexInv, OpInv, NoOp
  <2> QED BY <1>t, <1>p, <2>1, <2>2, <2>3, WaitsInv, Zenon
<1>5. CASE BroadcastDone
  <2>1. /\ p.waking = NULL /\ op' = NoOp /\ p' = p /\ UNCHANGED <<mutex, pc, base, holds>>
    BY <1>5, Zenon DEF BroadcastDone
  <2>2. OpInv'
    BY <2>1, Zenon DEF OpInv, NoOp
  <2> QED BY <1>t, <1>p, <2>1, <2>2, MutexTypes, WaitsInv, Zenon
<1> QED BY <1>1, <1>2, <1>3, <1>4, <1>5, Zenon

\* The timeout of a waiting thread.
LEMMA TimeoutInv ==
    ASSUME MutexInv, ~SMP, TimeoutHandler \/ \E t \in Threads : sys_clock_announce(t)
    PROVE  MutexInv'
<1>t. op \in [kind : {"none", "wake", "wait", "broadcast"},
              thread : Threads \cup {NULL}, obj : Objects \cup {NULL}]
  BY MutexTypes, Zenon DEF TypeOK
<1>p. \A u \in Threads : /\ p.pended_on[u] \in Condvars => pc[u].at = "waiting"
                         /\ u \notin p.ready => pc[u].at \in {"locking", "waiting"}
  BY ZenonT(40) DEF MutexInv, PcInv
<1>1. ASSUME NEW t \in Threads, sys_clock_announce(t) PROVE MutexInv'
  <2>1. op = NoOp /\ p' = Expire(p, t) /\ op' = op /\ UNCHANGED <<mutex, pc, base, holds>>
    BY <1>1, Zenon DEF sys_clock_announce
  <2>2. /\ Sound(p') /\ p'.ready = p.ready /\ p'.swap_retval = p.swap_retval
        /\ p'.pended_on = p.pended_on /\ p'.waking = p.waking
    BY <2>1, MutexTypes, ExpireSound, SMTT(40)
  <2>3. OpInv'
    BY <2>1, <2>2, Zenon DEF MutexInv, OpInv, NoOp
  <2> QED BY <1>t, <1>p, <2>1, <2>2, <2>3, WaitsInv, Zenon
<1>2. CASE TimeoutHandler
  <2>1. /\ op = NoOp /\ p.expired # NULL /\ p' = z_thread_timeout(p) /\ op' = op
        /\ UNCHANGED <<mutex, pc, base, holds>> /\ p.waking = NULL
    BY <1>2, Zenon DEF TimeoutHandler, MutexInv, OpInv
  <2>2. /\ Sound(p') /\ p'.ready = p.ready \cup {p.expired} /\ p'.waking = NULL
        /\ p'.swap_retval = p.swap_retval
        /\ \A u \in Threads :
              p'.pended_on[u] = IF u = p.expired THEN NULL ELSE p.pended_on[u]
    BY <2>1, MutexTypes, TimeoutSound
  <2>3. OpInv'
    BY <2>1, <2>2, Zenon DEF OpInv, NoOp
  <2>4. \A u \in Threads : u \in p.ready <=> p.pended_on[u] = NULL
    BY <2>1, MutexTypes DEF Sound
  <2>5. ASSUME NEW u \in Threads
        PROVE  /\ p'.pended_on[u] \in Mutexes => p'.pended_on[u] = p.pended_on[u]
               /\ p'.pended_on[u] \in Condvars => pc[u].at = "waiting"
               /\ u \notin p'.ready => pc[u].at \in {"locking", "waiting"}
               /\ pc[u].at = "locking" =>
                     (/\ p'.pended_on[u] = NULL
                      /\ p'.waking = u \/ p'.swap_retval[u] = "OK") <=>
                     (/\ p.pended_on[u] = NULL
                      /\ p.waking = u \/ p.swap_retval[u] = "OK")
    BY <1>p, <2>1, <2>2, <2>4, MutexTypes, ZenonT(40)
  <2> QED BY <1>t, <2>1, <2>2, <2>3, <2>5, WaitsInv, Zenon
<1> QED BY <1>1, <1>2, Zenon

-----------------------------------------------------------------------------
(* Steps of a thread inside a call.                                        *)

\* One thread moves within its call, to v; the others wait as they did, or have
\* been taken off their queue.
LEMMA PcStep ==
    ASSUME MutexInv, Sound(p'), NEW t \in Threads, NEW v, pc' = [pc EXCEPT ![t] = v],
           v.at = "running" => v = Running,
           v.at # "running" => v.mutex \in Mutexes,
           p'.pended_on[t] \in Mutexes => v = [at |-> "locking", mutex |-> p'.pended_on[t]],
           p'.pended_on[t] \in Condvars => v.at = "waiting",
           t \notin p'.ready => v.at \in {"locking", "waiting"},
           v.at = "locking" => holds'[t][v.mutex] = 0,
           \A u \in Threads : u # t =>
              /\ p'.pended_on[u] \in {p.pended_on[u], NULL}
              /\ u \notin p'.ready => u \notin p.ready
              /\ holds'[u] = holds[u]
    PROVE  PcInv'
<1>1. pc'[t] = v /\ \A u \in Threads : u # t => pc'[u] = pc[u]
  BY MutexTypes DEF TypeOK
<1> SUFFICES ASSUME NEW u \in Threads
             PROVE  /\ pc'[u].at = "running" => pc'[u] = Running
                    /\ pc'[u].at # "running" => pc'[u].mutex \in Mutexes
                    /\ p'.pended_on[u] \in Mutexes =>
                          pc'[u] = [at |-> "locking", mutex |-> p'.pended_on[u]]
                    /\ p'.pended_on[u] \in Condvars => pc'[u].at = "waiting"
                    /\ u \notin p'.ready => pc'[u].at \in {"locking", "waiting"}
                    /\ pc'[u].at = "locking" => holds'[u][pc'[u].mutex] = 0
  BY ZenonT(40) DEF PcInv
<1>2. CASE u = t
  BY <1>1, <1>2, Zenon
<1>3. CASE u # t
  <2>1. /\ pc[u].at = "running" => pc[u] = Running
        /\ pc[u].at # "running" => pc[u].mutex \in Mutexes
        /\ p.pended_on[u] \in Mutexes => pc[u] = [at |-> "locking", mutex |-> p.pended_on[u]]
        /\ p.pended_on[u] \in Condvars => pc[u].at = "waiting"
        /\ u \notin p.ready => pc[u].at \in {"locking", "waiting"}
        /\ pc[u].at = "locking" => holds[u][pc[u].mutex] = 0
    BY ZenonT(40) DEF MutexInv, PcInv
  <2>2. NULL \notin Mutexes /\ NULL \notin Condvars
    BY MutexTypes, Zenon
  <2>3. p'.pended_on[u] \in Mutexes => pc[u] = [at |-> "locking", mutex |-> p'.pended_on[u]]
    BY <1>3, <2>1, <2>2, Zenon
  <2> QED BY <1>1, <1>3, <2>1, <2>2, <2>3, Zenon
<1> QED BY <1>2, <1>3, Zenon

\* Priorities under the ceiling: what new_prio_for_inheritance() returns.
LEMMA NewPrio ==
    ASSUME NEW a \in Prios, NEW b \in Prios
    PROVE  /\ new_prio_for_inheritance(a, b) \in Prios
           /\ new_prio_for_inheritance(a, b) <= z_get_new_prio_with_ceiling(a)
           /\ a <= z_get_new_prio_with_ceiling(a)
           /\ a <= b => z_get_new_prio_with_ceiling(a) <= z_get_new_prio_with_ceiling(b)
           /\ z_get_new_prio_with_ceiling(a) \in Prios
           /\ \/ new_prio_for_inheritance(a, b) = z_get_new_prio_with_ceiling(a)
              \/ new_prio_for_inheritance(a, b) = z_get_new_prio_with_ceiling(b)
           /\ PRIORITY_CEILING <= a => z_get_new_prio_with_ceiling(a) = a
<1>1. a \in Int /\ b \in Int /\ PRIORITY_CEILING \in Int
  BY PendAssumption, MutexAssumption, Zenon
<1>2. z_get_new_prio_with_ceiling(a) \in Prios /\ z_get_new_prio_with_ceiling(b) \in Prios
  BY <1>1, MutexAssumption, Zenon DEF z_get_new_prio_with_ceiling
<1>3. \/ new_prio_for_inheritance(a, b) = z_get_new_prio_with_ceiling(a) /\ a <= b
      \/ new_prio_for_inheritance(a, b) = z_get_new_prio_with_ceiling(b) /\ b <= a
  BY <1>1 DEF new_prio_for_inheritance
<1> QED BY <1>1, <1>2, <1>3 DEF z_get_new_prio_with_ceiling

\* The priority that a timed-out thread leaves the owner with.
DownPrio(m) ==
    IF p.waitq[m] # <<>>
    THEN new_prio_for_inheritance(p.prio[z_priq_dumb_best(p.waitq[m])], owner_orig_prio[m])
    ELSE owner_orig_prio[m]

\* The priority an owner goes back to is a priority.
LEMMA DownPrioType ==
    ASSUME MutexInv, NEW m \in Mutexes PROVE DownPrio(m) \in Prios
<1>1. m \in Objects /\ owner_orig_prio[m] \in Prios
  BY MutexTypes, Zenon DEF TypeOK
<1>2. CASE p.waitq[m] # <<>>
  <2>1. p.prio[z_priq_dumb_best(p.waitq[m])] \in Prios
    BY <1>1, <1>2, MutexTypes, WaitqHead, PendTypes, Zenon
  <2> QED BY <1>1, <1>2, <2>1, NewPrio, ZenonT(40) DEF DownPrio
<1> QED BY <1>1, <1>2, Zenon DEF DownPrio

\* The return from a lock that timed out lowers the owner's priority.
LEMMA LockTimedOutInv ==
    ASSUME MutexInv, NEW t \in Threads, LockTimedOut(t) PROVE MutexInv'
<1> DEFINE m == pc[t].mutex
<1>1. /\ op = NoOp /\ t \in p.ready /\ pc[t].at = "timedout" /\ op' = op
      /\ pc' = [pc EXCEPT ![t] = Running] /\ owner' = owner /\ lock_count' = lock_count
      /\ owner_orig_prio' = owner_orig_prio /\ base' = base /\ holds' = holds
      /\ p' = IF owner[m] # NULL THEN z_set_prio(p, owner[m], DownPrio(m)) ELSE p
  BY Zenon DEF LockTimedOut, Runs, mutex, adjust_owner_prio, DownPrio
<1>2. m \in Mutexes
  BY <1>1, ZenonT(40) DEF MutexInv, PcInv
<1>3. /\ Sound(p') /\ p'.ready = p.ready /\ p'.waking = p.waking /\ p'.expired = p.expired
      /\ p'.waitq = p.waitq /\ p'.pended_on = p.pended_on /\ p'.swap_retval = p.swap_retval
  <2>1. CASE owner[m] # NULL
    <3>1. owner[m] \in Threads
      BY <1>2, <2>1, MutexTypes DEF TypeOK
    <3> QED BY <1>1, <1>2, <2>1, <3>1, DownPrioType, MutexTypes, PrioSound, SMTT(40)
  <2> QED BY <1>1, <2>1, MutexTypes, Zenon
<1> HIDE DEF m
<1>4. Running.at = "running" /\ Running.mutex = NULL
  BY Zenon DEF Running
<1>5. pc'[t] = Running /\ \A u \in Threads : u # t => pc'[u] = pc[u]
  BY <1>1, MutexTypes, Zenon DEF TypeOK
<1>6. TypeOK'
  <2>1. pc' \in [Threads -> [at : {"running", "locking", "timedout", "waiting", "relock"},
                             mutex : Mutexes \cup {NULL}]]
    BY <1>1, MutexTypes, Zenon DEF TypeOK, Running
  <2> QED BY <1>1, <1>3, <2>1, MutexTypes, Zenon DEF TypeOK, Sound
<1>7. \A u \in Threads, n \in Mutexes : BeingGiven(u, n)' <=> BeingGiven(u, n)
  BY <1>1, <1>3, <1>4, <1>5 DEF BeingGiven
<1>8. MutualExclusion'
  BY <1>1, <1>3, <1>7, ExclusionSame, Zenon
<1>9. OpInv'
  BY <1>1, <1>3, Zenon DEF MutexInv, OpInv, NoOp
<1>10. PcInv'
  BY <1>1, <1>3, <1>4, MutexTypes, PcStep, ZenonT(40)
<1> QED BY <1>3, <1>6, <1>8, <1>9, <1>10, Zenon DEF MutexInv

\* A thread that does not have the mutex goes to wait on a condition variable.
LEMMA CondvarWaitUnownedInv ==
    ASSUME MutexInv, ~SMP, NEW t \in Threads, NEW cv \in Condvars, NEW m \in Mutexes,
           CondvarWaitUnowned(t, cv, m)
    PROVE  MutexInv'
<1> DEFINE v == [at |-> "waiting", mutex |-> m]
           o == [kind |-> "wait", thread |-> t, obj |-> cv]
<1>1. /\ op = NoOp /\ t \in p.ready /\ p.expired = NULL /\ pc[t] = Running
      /\ op' = o /\ p' = p /\ pc' = [pc EXCEPT ![t] = v]
      /\ owner' = owner /\ lock_count' = lock_count
      /\ owner_orig_prio' = owner_orig_prio /\ base' = base /\ holds' = holds
  BY Zenon DEF CondvarWaitUnowned, Calls, Runs, mutex
<1>2. /\ v.at = "waiting" /\ v.mutex \in Mutexes
      /\ v \in [at : {"running", "locking", "timedout", "waiting", "relock"},
                mutex : Mutexes \cup {NULL}]
  BY Zenon
<1>3. /\ o.kind = "wait" /\ o.thread = t /\ o.obj = cv
      /\ o \in [kind : {"none", "wake", "wait", "broadcast"},
                thread : Threads \cup {NULL}, obj : Objects \cup {NULL}]
  BY MutexTypes, Zenon
<1> HIDE DEF v, o
<1>4. pc'[t] = v /\ \A u \in Threads : u # t => pc'[u] = pc[u]
  BY <1>1, MutexTypes DEF TypeOK
<1>5. TypeOK'
  <2>1. pc' \in [Threads -> [at : {"running", "locking", "timedout", "waiting", "relock"},
                             mutex : Mutexes \cup {NULL}]]
    BY <1>1, <1>2, MutexTypes, Zenon DEF TypeOK
  <2> QED BY <1>1, <1>3, <2>1, MutexTypes, Zenon DEF TypeOK
<1>6. \A u \in Threads, n \in Mutexes : BeingGiven(u, n)' <=> BeingGiven(u, n)
  BY <1>1, <1>2, <1>4 DEF BeingGiven, Running
<1>7. MutualExclusion'
  BY <1>1, <1>6, MutexTypes, ExclusionSame, Zenon
<1>8. OpInv'
  BY <1>1, <1>2, <1>3, <1>4 DEF OpInv, NoOp
<1>9. PcInv'
  BY <1>1, <1>2, MutexTypes, PcStep, ZenonT(40)
<1> QED BY <1>1, <1>5, <1>7, <1>8, <1>9, MutexTypes, Zenon DEF MutexInv

\* A thread returns from its wait on a condition variable.
LEMMA CondvarReturnInv ==
    ASSUME MutexInv, NEW t \in Threads, CondvarReturn(t) PROVE MutexInv'
<1> DEFINE v == [pc[t] EXCEPT !.at = "relock"]
<1>1. /\ op = NoOp /\ t \in p.ready /\ pc[t].at = "waiting" /\ op' = op /\ p' = p
      /\ pc' = [pc EXCEPT ![t] = v] /\ owner' = owner /\ lock_count' = lock_count
      /\ owner_orig_prio' = owner_orig_prio /\ base' = base /\ holds' = holds
  BY Zenon DEF CondvarReturn, Runs, mutex
<1>2. pc[t].mutex \in Mutexes
  BY <1>1, ZenonT(40) DEF MutexInv, PcInv
<1>3. /\ v.at = "relock" /\ v.mutex \in Mutexes
      /\ v \in [at : {"running", "locking", "timedout", "waiting", "relock"},
                mutex : Mutexes \cup {NULL}]
  <2>1. pc[t] \in [at : {"running", "locking", "timedout", "waiting", "relock"},
                   mutex : Mutexes \cup {NULL}]
    BY MutexTypes, Zenon DEF TypeOK
  <2> QED BY <1>2, <2>1, Zenon
<1> HIDE DEF v
<1>4. pc'[t] = v /\ \A u \in Threads : u # t => pc'[u] = pc[u]
  BY <1>1, MutexTypes DEF TypeOK
<1>5. TypeOK'
  <2>1. pc' \in [Threads -> [at : {"running", "locking", "timedout", "waiting", "relock"},
                             mutex : Mutexes \cup {NULL}]]
    BY <1>1, <1>3, MutexTypes, Zenon DEF TypeOK
  <2> QED BY <1>1, <2>1, MutexTypes, Zenon DEF TypeOK
<1>6. \A u \in Threads, n \in Mutexes : BeingGiven(u, n)' <=> BeingGiven(u, n)
  BY <1>1, <1>3, <1>4 DEF BeingGiven
<1>7. MutualExclusion'
  BY <1>1, <1>6, MutexTypes, ExclusionSame, Zenon
<1>8. OpInv'
  BY <1>1, Zenon DEF MutexInv, OpInv, NoOp
<1>9. PcInv'
  BY <1>1, <1>3, MutexTypes, PcStep, ZenonT(40)
<1> QED BY <1>1, <1>5, <1>7, <1>8, <1>9, MutexTypes, Zenon DEF MutexInv

\* A lock call that waited returns: with the mutex, or to lower the owner.
LEMMA LockReturnInv ==
    ASSUME MutexInv, NEW t \in Threads, LockReturn(t) PROVE MutexInv'
<1> DEFINE m == pc[t].mutex
           v == IF p.swap_retval[t] = "OK" THEN Running ELSE [pc[t] EXCEPT !.at = "timedout"]
           h == IF p.swap_retval[t] = "OK" THEN [holds EXCEPT ![t][m] = @ + 1] ELSE holds
<1>1. /\ pc[t].at = "locking" /\ t \in p.ready /\ p' = p /\ op' = op
      /\ pc' = [pc EXCEPT ![t] = v] /\ holds' = h /\ owner' = owner /\ base' = base
      /\ lock_count' = lock_count /\ owner_orig_prio' = owner_orig_prio
  BY Zenon DEF LockReturn, Runs, mutex
<1>2. /\ m \in Mutexes /\ holds[t][m] = 0 /\ p.pended_on[t] = NULL /\ p.waking # t
      /\ pc[t] = [at |-> "locking", mutex |-> m]
  BY <1>1, MutexTypes, Zenon DEF MutexInv, PcInv, TypeOK
<1>3. /\ v \in [at : {"running", "timedout"}, mutex : Mutexes \cup {NULL}]
      /\ v.at = "running" <=> p.swap_retval[t] = "OK"
      /\ v.at = "running" => v = Running
      /\ v.at = "timedout" => v.mutex \in Mutexes
  BY <1>2, MutexTypes, ZenonT(40) DEF TypeOK, Running
<1>4. /\ h \in [Threads -> [Mutexes -> 0 .. MaxDepth]]
      /\ \A u \in Threads, n \in Mutexes :
            h[u][n] = IF u = t /\ n = m /\ p.swap_retval[t] = "OK" THEN 1 ELSE holds[u][n]
      /\ \A u \in Threads : u # t => h[u] = holds[u]
  BY <1>2, MutexTypes DEF TypeOK
<1> HIDE DEF v, h, m
<1>5. pc'[t] = v /\ \A u \in Threads : u # t => pc'[u] = pc[u]
  BY <1>1, MutexTypes, Zenon DEF TypeOK
<1>6. TypeOK'
  <2>1. pc' \in [Threads -> [at : {"running", "locking", "timedout", "waiting", "relock"},
                             mutex : Mutexes \cup {NULL}]]
    BY <1>1, <1>3, MutexTypes, Zenon DEF TypeOK
  <2> QED BY <1>1, <1>4, <2>1, MutexTypes, Zenon DEF TypeOK
<1>7. /\ \A n \in Mutexes : BeingGiven(t, n) <=> n = m /\ p.swap_retval[t] = "OK"
      /\ \A n \in Mutexes : ~BeingGiven(t, n)'
      /\ \A u \in Threads, n \in Mutexes : u # t => (BeingGiven(u, n)' <=> BeingGiven(u, n))
  BY <1>1, <1>2, <1>3, <1>5 DEF BeingGiven
<1>8. MutualExclusion'
  <2>1. MutualExclusion /\ NULL \notin Threads
    BY MutexTypes, Zenon DEF MutexInv
  <2>2. \A u \in Threads, n \in Mutexes : holds[u][n] \in Nat
    BY MutexTypes DEF TypeOK
  <2> QED BY <1>1, <1>2, <1>4, <1>7, <2>1, <2>2, SMTT(40) DEF MutualExclusion
<1>9. OpInv'
  BY <1>1, <1>5, MutexTypes DEF MutexInv, OpInv, NoOp
<1>10. PcInv'
  <2>1. /\ v.at # "running" => v.mutex \in Mutexes
        /\ v.at # "locking" /\ (v.at = "running" => v = Running)
    BY <1>3, Zenon
  <2>2. /\ p'.pended_on[t] \notin Mutexes /\ p'.pended_on[t] \notin Condvars
        /\ t \in p'.ready /\ Sound(p')
    BY <1>1, <1>2, MutexTypes, Zenon
  <2>3. \A u \in Threads : u # t => /\ p'.pended_on[u] \in {p.pended_on[u], NULL}
                                    /\ u \notin p'.ready => u \notin p.ready
                                    /\ holds'[u] = holds[u]
    BY <1>1, <1>4, Zenon
  <2> QED BY <1>1, <2>1, <2>2, <2>3, PcStep, ZenonT(40)
<1> QED BY <1>1, <1>6, <1>8, <1>9, <1>10, MutexTypes, Zenon DEF MutexInv

\* A thread that may call k_mutex_lock() is not being given a mutex.
LEMMA MayLockNotGiven ==
    ASSUME MutexInv, NEW t \in Threads,
           pc[t] = Running \/ \E m \in Mutexes : pc[t] = [at |-> "relock", mutex |-> m]
    PROVE  pc[t].at \in {"running", "relock"} /\ \A n \in Mutexes : ~BeingGiven(t, n)
<1>1. pc[t].at \in {"running", "relock"}
  <2>1. CASE pc[t] = Running
    BY <2>1 DEF Running
  <2>2. ASSUME NEW m \in Mutexes, pc[t] = [at |-> "relock", mutex |-> m]
        PROVE  pc[t].at = "relock"
    BY <2>2
  <2> QED BY <2>1, <2>2, ZenonT(40)
<1>2. ASSUME NEW n \in Mutexes, BeingGiven(t, n) PROVE pc[t].at = "locking"
  BY <1>2 DEF BeingGiven
<1> QED BY <1>1, <1>2, Zenon

\* k_mutex_lock() of a free mutex, or of one's own.
LEMMA LockInv ==
    ASSUME MutexInv, NEW t \in Threads, NEW m \in Mutexes, k_mutex_lock(t, m)
    PROVE  MutexInv'
<1>1. /\ op = NoOp /\ t \in p.ready /\ lock_count[m] < MaxDepth
      /\ lock_count[m] = 0 \/ owner[m] = t
      /\ pc[t] = Running \/ pc[t] = [at |-> "relock", mutex |-> m]
      /\ p' = p /\ op' = op /\ base' = base /\ pc' = [pc EXCEPT ![t] = Running]
      /\ owner' = [owner EXCEPT ![m] = t] /\ holds' = [holds EXCEPT ![t][m] = @ + 1]
      /\ lock_count' = [lock_count EXCEPT ![m] = @ + 1]
      /\ owner_orig_prio' =
            [owner_orig_prio EXCEPT ![m] = IF lock_count[m] = 0 THEN p.prio[t] ELSE @]
  BY Zenon DEF k_mutex_lock, MayLock, Runs
<1>2. /\ p.prio[t] \in Prios /\ NULL \notin Threads /\ MaxDepth \in Nat
      /\ \A u \in Threads, n \in Mutexes : holds[u][n] \in Nat
      /\ \A n \in Mutexes : lock_count[n] \in 0 .. MaxDepth
  BY MutexTypes, PendTypes DEF TypeOK
<1>3. /\ \A n \in Mutexes : ~BeingGiven(t, n)
      /\ Running.at = "running" /\ Running.mutex = NULL
  BY <1>1, MayLockNotGiven, Zenon DEF Running
<1>4. MutualExclusion
  BY Zenon DEF MutexInv
<1>5. lock_count[m] = holds[t][m]
  BY <1>1, <1>2, <1>3, <1>4 DEF MutualExclusion
<1>6. /\ pc'[t] = Running /\ \A u \in Threads : u # t => pc'[u] = pc[u] /\ holds'[u] = holds[u]
      /\ \A u \in Threads, n \in Mutexes :
            holds'[u][n] = IF u = t /\ n = m THEN holds[t][m] + 1 ELSE holds[u][n]
      /\ \A n \in Mutexes : owner'[n] = IF n = m THEN t ELSE owner[n]
      /\ \A n \in Mutexes : lock_count'[n] = IF n = m THEN lock_count[m] + 1 ELSE lock_count[n]
  BY <1>1, MutexTypes, SMTT(40) DEF TypeOK
<1>7. TypeOK'
  <2>1. pc' \in [Threads -> [at : {"running", "locking", "timedout", "waiting", "relock"},
                             mutex : Mutexes \cup {NULL}]]
    BY <1>1, MutexTypes, Zenon DEF TypeOK, Running
  <2>2. holds' \in [Threads -> [Mutexes -> 0 .. MaxDepth]]
    <3>1. holds[t][m] + 1 \in 0 .. MaxDepth
      BY <1>1, <1>2, <1>5
    <3> QED BY <1>1, <3>1, MutexTypes, Zenon DEF TypeOK
  <2>3. lock_count' \in [Mutexes -> 0 .. MaxDepth]
    <3>1. lock_count[m] + 1 \in 0 .. MaxDepth
      BY <1>1, <1>2
    <3> QED BY <1>1, <3>1, MutexTypes, Zenon DEF TypeOK
  <2>4. owner_orig_prio' \in [Mutexes -> Prios] /\ owner' \in [Mutexes -> Threads \cup {NULL}]
    BY <1>1, <1>2, MutexTypes, Zenon DEF TypeOK
  <2> QED BY <1>1, <2>1, <2>2, <2>3, <2>4, MutexTypes, Zenon DEF TypeOK
<1>8. /\ \A n \in Mutexes : ~BeingGiven(t, n)'
      /\ \A u \in Threads, n \in Mutexes : u # t => (BeingGiven(u, n)' <=> BeingGiven(u, n))
  BY <1>1, <1>3, <1>6 DEF BeingGiven
<1>9. MutualExclusion'
  BY <1>1, <1>2, <1>3, <1>4, <1>5, <1>6, <1>8 DEF MutualExclusion
<1>10. OpInv'
  BY <1>1, Zenon DEF MutexInv, OpInv, NoOp
<1>11. PcInv'
  <2>1. /\ p'.pended_on[t] \notin Mutexes /\ p'.pended_on[t] \notin Condvars
        /\ t \in p'.ready /\ Sound(p')
    BY <1>1, MutexTypes, Zenon
  <2>2. \A u \in Threads : u # t => /\ p'.pended_on[u] \in {p.pended_on[u], NULL}
                                    /\ u \notin p'.ready => u \notin p.ready
                                    /\ holds'[u] = holds[u]
    BY <1>1, <1>6, Zenon
  <2>3. Running.at # "locking" /\ Running.at = "running"
    BY <1>3, Zenon
  <2> QED BY <1>1, <2>1, <2>2, <2>3, PcStep, ZenonT(40)
<1> QED BY <1>1, <1>7, <1>9, <1>10, <1>11, MutexTypes, Zenon DEF MutexInv

\* The record of waits when k_mutex_lock() has raised the owner's priority.
Raised(t, m) ==
    LET new_prio == new_prio_for_inheritance(p.prio[t], p.prio[owner[m]])
    IN  IF new_prio < p.prio[owner[m]] THEN z_set_prio(p, owner[m], new_prio) ELSE p

\* The owner is a thread, which has not the calling thread's name, and its
\* priority is the only thing that is raised.
LEMMA RaisedSound ==
    ASSUME MutexInv, NEW t \in Threads, NEW m \in Mutexes, lock_count[m] # 0
    PROVE  /\ owner[m] \in Threads /\ Sound(Raised(t, m))
           /\ Raised(t, m).ready = p.ready /\ Raised(t, m).waking = p.waking
           /\ Raised(t, m).expired = p.expired /\ Raised(t, m).waitq = p.waitq
           /\ Raised(t, m).pended_on = p.pended_on
           /\ Raised(t, m).swap_retval = p.swap_retval
           /\ \A u \in Threads : Raised(t, m).prio[u] =
                 LET n == new_prio_for_inheritance(p.prio[t], p.prio[u])
                 IN  IF u = owner[m] /\ n < p.prio[u] THEN n ELSE p.prio[u]
<1> DEFINE o == owner[m]
           n == new_prio_for_inheritance(p.prio[t], p.prio[o])
<1>1. o \in Threads
  BY MutexTypes DEF MutexInv, MutualExclusion, TypeOK
<1>2. n \in Prios
  BY <1>1, MutexTypes, PendTypes, NewPrio, ZenonT(40)
<1>3. CASE n < p.prio[o]
  <2>1. Raised(t, m) = z_set_prio(p, o, n)
    BY <1>3, Zenon DEF Raised
  <2> HIDE DEF n, o
  <2>2. LET r == z_set_prio(p, o, n)
        IN  /\ Sound(r) /\ r.ready = p.ready /\ r.waking = p.waking
            /\ r.expired = p.expired /\ r.waitq = p.waitq
            /\ r.pended_on = p.pended_on /\ r.swap_retval = p.swap_retval
            /\ \A u \in Threads : r.prio[u] = IF u = o THEN n ELSE p.prio[u]
    BY <1>1, <1>2, MutexTypes, PrioSound, SMTT(40)
  <2> QED BY <1>1, <1>3, <2>1, <2>2, ZenonT(40) DEF n, o
<1>4. CASE ~(n < p.prio[o])
  BY <1>1, <1>4, MutexTypes, Zenon DEF Raised
<1> QED BY <1>3, <1>4, Zenon

\* k_mutex_lock() of somebody else's mutex.
LEMMA LockPendInv ==
    ASSUME MutexInv, ~SMP, NEW t \in Threads, NEW m \in Mutexes, NEW wait,
           LockPend(t, m, wait)
    PROVE  MutexInv'
<1> DEFINE s == Raised(t, m)
           v == [at |-> "locking", mutex |-> m]
<1>1. /\ op = NoOp /\ t \in p.ready /\ p.expired = NULL /\ lock_count[m] # 0 /\ owner[m] # t
      /\ pc[t] = Running \/ pc[t] = [at |-> "relock", mutex |-> m]
      /\ p' = z_pend_curr(s, t, m, wait) /\ pc' = [pc EXCEPT ![t] = v] /\ op' = op
      /\ owner' = owner /\ lock_count' = lock_count /\ base' = base /\ holds' = holds
      /\ owner_orig_prio' = owner_orig_prio
  BY Zenon  DEF LockPend, MayLock, Runs, mutex, adjust_owner_prio, Raised
<1>2. /\ owner[m] \in Threads /\ Sound(s) /\ s.ready = p.ready /\ s.waking = p.waking
      /\ s.expired = p.expired /\ s.pended_on = p.pended_on /\ s.swap_retval = p.swap_retval
  BY <1>1, RaisedSound, Zenon
<1> HIDE DEF s
<1>3. /\ Sound(p') /\ p'.ready = p.ready \ {t} /\ p'.waking = p.waking /\ p'.expired = NULL
      /\ \A u \in Threads :
            /\ p'.pended_on[u] = IF u = t THEN m ELSE p.pended_on[u]
            /\ p'.swap_retval[u] = IF u = t THEN "EAGAIN" ELSE p.swap_retval[u]
  BY <1>1, <1>2, MutexTypes, PendSound, SMTT(40)
<1>4. /\ \A n \in Mutexes : ~BeingGiven(t, n)
      /\ v.at = "locking" /\ v.mutex = m /\ NULL \notin Threads /\ NULL \notin Mutexes
  BY <1>1, MayLockNotGiven, MutexTypes, Zenon
<1>5. MutualExclusion /\ holds[t][m] \in Nat
  BY MutexTypes DEF MutexInv, TypeOK
<1>6. holds[t][m] = 0
  BY <1>1, <1>5, SMTT(40) DEF MutualExclusion
<1>7. TypeOK'
  <2>1. pc' \in [Threads -> [at : {"running", "locking", "timedout", "waiting", "relock"},
                             mutex : Mutexes \cup {NULL}]]
    BY <1>1, MutexTypes, Zenon DEF TypeOK
  <2> QED BY <1>1, <1>3, <2>1, MutexTypes, ZenonT(40) DEF TypeOK, Sound
<1> HIDE DEF v
<1>8. pc'[t] = v /\ \A u \in Threads : u # t => pc'[u] = pc[u]
  BY <1>1, MutexTypes DEF TypeOK
<1>9. \A u \in Threads, n \in Mutexes : BeingGiven(u, n)' <=> BeingGiven(u, n)
  BY <1>3, <1>4, <1>8, ZenonT(40) DEF BeingGiven
<1>10. MutualExclusion'
  BY <1>1, <1>2, <1>3, <1>4, <1>9, ExclusionSame, SMTT(40)
<1>11. OpInv'
  BY <1>1, <1>3, ZenonT(40) DEF MutexInv, OpInv, NoOp
<1>12. PcInv'
  <2>1. v = [at |-> "locking", mutex |-> m]
    BY Zenon  DEF v
  <2>2. /\ p'.pended_on[t] = m /\ m \notin Condvars /\ holds'[t][v.mutex] = 0
        /\ \A u \in Threads : u # t =>
              /\ p'.pended_on[u] \in {p.pended_on[u], NULL}
              /\ u \notin p'.ready => u \notin p.ready
              /\ holds'[u] = holds[u]
    BY <1>1, <1>3, <1>4, <1>6, MutexTypes, ZenonT(40)
  <2> QED BY <1>1, <1>3, <1>4, <2>1, <2>2, PcStep, ZenonT(40)
<1> QED BY <1>3, <1>7, <1>10, <1>11, <1>12, Zenon DEF MutexInv

\* The owner's priority goes back to what it was when it got the mutex.
Restored(m) == z_set_prio(p, owner[m], owner_orig_prio[m])

\* Unlock() by the owner, which is outside the kernel, up to the waking of the
\* next one: it still has the mutex, or nobody has, or the first waiter is being
\* given it.
LEMMA UnlockExclusion ==
    ASSUME MutexInv, NEW t \in Threads, NEW m \in Mutexes, NEW next, op = NoOp,
           t \in p.ready, pc[t] = Running, Unlock(t, m, next),
           \A u \in Threads : u # t => pc'[u] = pc[u],
           pc'[t].at # "locking"
    PROVE  /\ Sound(p') /\ p'.ready = p.ready /\ p'.expired = p.expired
           /\ \A u \in Threads : p'.pended_on[u] \in {p.pended_on[u], NULL}
           /\ \A u \in Threads : u # t => holds'[u] = holds[u]
           /\ owner' \in [Mutexes -> Threads \cup {NULL}]
           /\ lock_count' \in [Mutexes -> 0 .. MaxDepth]
           /\ owner_orig_prio' \in [Mutexes -> Prios]
           /\ holds' \in [Threads -> [Mutexes -> 0 .. MaxDepth]]
           /\ MutualExclusion'
<1>1. /\ owner[m] = t /\ holds' = [holds EXCEPT ![t][m] = @ - 1]
      /\ p.waking = NULL /\ MutualExclusion /\ NULL \notin Threads /\ m \in Objects
  BY MutexTypes, Zenon DEF Unlock, MutexInv, OpInv
<1>2. /\ \A u \in Threads, n \in Mutexes : holds[u][n] \in 0 .. MaxDepth
      /\ \A n \in Mutexes : lock_count[n] \in 0 .. MaxDepth
      /\ MaxDepth \in Nat /\ owner_orig_prio[m] \in Prios
  BY MutexTypes, SMTT(40) DEF TypeOK
<1>3. \A n \in Mutexes : ~BeingGiven(t, n) /\ ~BeingGiven(t, n)'
  <2>1. \A n \in Mutexes : BeingGiven(t, n)' => pc'[t].at = "locking"
    BY DEF BeingGiven
  <2> QED BY <2>1, MayLockNotGiven, Zenon
<1>4. lock_count[m] = holds[t][m] /\ holds[t][m] > 0
  BY <1>1, <1>3, Zenon DEF MutualExclusion
<1>5. /\ holds' \in [Threads -> [Mutexes -> 0 .. MaxDepth]]
      /\ \A u \in Threads : u # t => holds'[u] = holds[u]
      /\ \A u \in Threads, n \in Mutexes :
            holds'[u][n] = IF u = t /\ n = m THEN holds[t][m] - 1 ELSE holds[u][n]
  <2>1. holds[t][m] - 1 \in 0 .. MaxDepth
    BY <1>2, <1>4
  <2> QED BY <1>1, <2>1, MutexTypes DEF TypeOK
<1>6. LET s == Restored(m)
      IN  /\ Sound(s) /\ s.ready = p.ready /\ s.waking = NULL /\ s.expired = p.expired
          /\ s.waitq = p.waitq /\ s.pended_on = p.pended_on
          /\ s.swap_retval = p.swap_retval
          /\ \A u \in Threads : s.prio[u] = IF u = t THEN owner_orig_prio[m] ELSE p.prio[u]
  BY <1>1, <1>2, MutexTypes, PrioSound, SMTT(40) DEF Restored
<1>7. CASE lock_count[m] > 1
  <2>1. /\ lock_count' = [lock_count EXCEPT ![m] = @ - 1] /\ p' = p /\ owner' = owner
        /\ owner_orig_prio' = owner_orig_prio
    BY <1>7, Zenon DEF Unlock
  <2>2. lock_count[m] - 1 \in 0 .. MaxDepth
    BY <1>2, <1>7
  <2>3. /\ lock_count' \in [Mutexes -> 0 .. MaxDepth]
        /\ \A n \in Mutexes :
              lock_count'[n] = IF n = m THEN lock_count[m] - 1 ELSE lock_count[n]
    BY <2>1, <2>2, MutexTypes, ZenonT(40) DEF TypeOK
  <2>4. \A u \in Threads, n \in Mutexes : u # t => (BeingGiven(u, n)' <=> BeingGiven(u, n))
    BY <2>1, Zenon DEF BeingGiven
  <2>5. MutualExclusion'
    BY <1>1, <1>2, <1>3, <1>4, <1>5, <1>7, <2>1, <2>3, <2>4 DEF MutualExclusion
  <2> QED BY <1>5, <2>1, <2>3, <2>5, MutexTypes, Zenon DEF TypeOK
<1>8. CASE lock_count[m] <= 1 /\ p.waitq[m] = <<>>
  <2>1. /\ p' = Restored(m) /\ owner' = [owner EXCEPT ![m] = NULL]
        /\ lock_count' = [lock_count EXCEPT ![m] = 0] /\ owner_orig_prio' = owner_orig_prio
    BY <1>2, <1>8, SMTT(40) DEF Unlock, Restored, adjust_owner_prio
  <2>2. lock_count[m] = 1
    BY <1>2, <1>4, <1>8, SMTT(40)
  <2>3. /\ lock_count' \in [Mutexes -> 0 .. MaxDepth]
        /\ \A n \in Mutexes : lock_count'[n] = IF n = m THEN 0 ELSE lock_count[n]
        /\ owner' \in [Mutexes -> Threads \cup {NULL}]
        /\ \A n \in Mutexes : owner'[n] = IF n = m THEN NULL ELSE owner[n]
    BY <1>2, <2>1, MutexTypes, SMTT(40) DEF TypeOK
  <2>4. \A u \in Threads, n \in Mutexes : u # t => (BeingGiven(u, n)' <=> BeingGiven(u, n))
    BY <1>1, <1>6, <2>1, ZenonT(40) DEF BeingGiven
  <2>5. MutualExclusion'
    BY <1>1, <1>2, <1>3, <1>4, <1>5, <1>6, <1>8, <2>1, <2>2, <2>3, <2>4, SMTT(40)
       DEF MutualExclusion
  <2> QED BY <1>5, <1>6, <2>1, <2>3, <2>5, MutexTypes, ZenonT(40) DEF TypeOK
<1>9. CASE lock_count[m] <= 1 /\ p.waitq[m] # <<>>
  <2> DEFINE s == Restored(m)
  <2>1. /\ p' = z_unpend_first_thread(s, m) /\ owner' = [owner EXCEPT ![m] = p'.waking]
        /\ owner_orig_prio' = [owner_orig_prio EXCEPT ![m] = p'.prio[p'.waking]]
        /\ lock_count' = lock_count
    BY <1>2, <1>9 DEF Unlock, Restored, adjust_owner_prio
  <2> PICK w \in Threads : w = z_priq_dumb_best(s.waitq[m])
    BY <1>1, <1>6, <1>9, UnpendFirstSound, SMTT(40)
  <2>2. /\ Sound(p') /\ p'.prio = s.prio /\ p.pended_on[w] = m
        /\ p'.ready = p.ready /\ p'.waking = w /\ p'.expired = p.expired
        /\ p'.swap_retval = p.swap_retval
        /\ \A u \in Threads : p'.pended_on[u] = IF u = w THEN NULL ELSE p.pended_on[u]
    BY <1>1, <1>6, <1>9, <2>1, UnpendFirstSound, SMTT(40) DEF OnlyQueue
  <2> HIDE DEF s
  <2>3. /\ pc[w] = [at |-> "locking", mutex |-> m] /\ w # t /\ holds[w][m] = 0
        /\ w \notin p.ready
    <3>1. pc[w] = [at |-> "locking", mutex |-> m] /\ holds[w][pc[w].mutex] = 0
      BY <2>2 DEF MutexInv, PcInv
    <3>2. w \notin p.ready
      BY <2>2, MutexTypes
    <3> QED BY <3>1, <3>2, SMTT(40)
  <2>4. lock_count[m] = 1
    BY <1>2, <1>4, <1>9, SMTT(40)
  <2>5. p'.prio[w] \in Prios
    BY <2>2, PendTypes, ZenonT(40) DEF Sound
  <2>6. /\ owner_orig_prio' \in [Mutexes -> Prios]
        /\ owner' \in [Mutexes -> Threads \cup {NULL}]
        /\ \A n \in Mutexes : owner'[n] = IF n = m THEN w ELSE owner[n]
    BY <2>1, <2>2, <2>5, MutexTypes, ZenonT(40) DEF TypeOK
  <2>7. /\ BeingGiven(w, m)' /\ ~BeingGiven(w, m)
        /\ \A n \in Mutexes : n # m => ~BeingGiven(w, n) /\ ~BeingGiven(w, n)'
        /\ \A u \in Threads, n \in Mutexes :
              u # t /\ u # w => (BeingGiven(u, n)' <=> BeingGiven(u, n))
    <3>1. BeingGiven(w, m)' /\ ~BeingGiven(w, m)
      BY <1>1, <2>2, <2>3, MutexTypes, Zenon DEF BeingGiven
    <3>2. ASSUME NEW n \in Mutexes, n # m PROVE ~BeingGiven(w, n) /\ ~BeingGiven(w, n)'
      <4>1. pc[w].mutex = m /\ pc'[w] = pc[w]
        BY <2>3
      <4> QED BY <3>2, <4>1 DEF BeingGiven
    <3>3. \A u \in Threads, n \in Mutexes :
             u # t /\ u # w => (BeingGiven(u, n)' <=> BeingGiven(u, n))
      BY <1>1, <2>2, Zenon DEF BeingGiven
    <3> QED BY <3>1, <3>2, <3>3, Zenon
  <2>8. \A n \in Mutexes : owner'[n] = NULL => p'.waitq[n] = <<>>
    <3>1. \A n \in Mutexes : owner'[n] = NULL => owner[n] = NULL /\ p.waitq[n] = <<>>
      BY <1>1, <2>2, <2>6, SMTT(40) DEF MutualExclusion
    <3> QED BY <2>2, <3>1, MutexTypes, FreeMutex
  <2>9. MutualExclusion'
    <3>1. \A u \in Threads, n \in Mutexes : n # m =>
             (BeingGiven(u, n)' <=> BeingGiven(u, n)) /\ holds'[u][n] = holds[u][n]
      BY <1>3, <1>5, <2>7, Zenon
    <3>2. ASSUME NEW n \in Mutexes, n # m
          PROVE  /\ \A u \in Threads : owner'[n] = u <=> holds'[u][n] > 0 \/ BeingGiven(u, n)'
                 /\ \A u \in Threads : owner'[n] = u =>
                       lock_count'[n] = IF BeingGiven(u, n)' THEN 1 ELSE holds'[u][n]
                 /\ owner'[n] = NULL <=> lock_count'[n] = 0
      <4>1. owner'[n] = owner[n] /\ lock_count'[n] = lock_count[n]
        BY <2>1, <2>6, <3>2, Zenon
      <4> QED BY <1>1, <3>1, <3>2, <4>1, SMTT(40) DEF MutualExclusion
    <3>3. owner'[m] = w /\ lock_count'[m] = 1 /\ holds'[t][m] = 0
      <4>1. holds'[t][m] = holds[t][m] - 1
        BY <1>5, Zenon
      <4>2. owner'[m] = w /\ lock_count'[m] = lock_count[m]
        BY <2>1, <2>6, Zenon
      <4>3. holds[t][m] = 1 /\ lock_count[m] = 1
        BY <1>4, <2>4, Zenon
      <4>4. 1 - 1 = 0
        OBVIOUS
      <4> QED BY <4>1, <4>2, <4>3, <4>4, Zenon
    <3>4. \A u \in Threads : u # w => ~(holds'[u][m] > 0) /\ ~BeingGiven(u, m)'
      <4>1. ~(0 > 0)
        OBVIOUS
      <4>2. \A u \in Threads : u # t => ~(holds[u][m] > 0) /\ ~BeingGiven(u, m)
        BY <1>1, Zenon DEF MutualExclusion
      <4> QED BY <1>3, <1>5, <2>7, <3>3, <4>1, <4>2, Zenon
    <3>5. w # NULL /\ 1 # 0
      BY <1>1
    <3>6. /\ \A u \in Threads : owner'[m] = u <=> holds'[u][m] > 0 \/ BeingGiven(u, m)'
          /\ \A u \in Threads : owner'[m] = u =>
                lock_count'[m] = IF BeingGiven(u, m)' THEN 1 ELSE holds'[u][m]
          /\ owner'[m] = NULL <=> lock_count'[m] = 0
      BY <2>7, <3>3, <3>4, <3>5, Zenon
    <3>7. \A n \in Mutexes :
             /\ \A u \in Threads : owner'[n] = u <=> holds'[u][n] > 0 \/ BeingGiven(u, n)'
             /\ \A u \in Threads : owner'[n] = u =>
                   lock_count'[n] = IF BeingGiven(u, n)' THEN 1 ELSE holds'[u][n]
             /\ owner'[n] = NULL <=> lock_count'[n] = 0
      <4> TAKE n \in Mutexes
      <4>1. CASE n = m
        BY <3>6, <4>1, Zenon
      <4>2. CASE n # m
        BY <3>2, <4>2, Zenon
      <4> QED BY <4>1, <4>2, Zenon
    <3> QED BY <2>8, <3>7, Zenon DEF MutualExclusion
  <2>10. lock_count' \in [Mutexes -> 0 .. MaxDepth]
    BY <2>1, MutexTypes, ZenonT(40) DEF TypeOK
  <2> QED BY <1>5, <2>1, <2>2, <2>6, <2>9, <2>10, Zenon
<1> QED BY <1>2, <1>7, <1>8, <1>9

\* k_mutex_unlock(), and the unlocking of k_condvar_wait().
LEMMA UnlockInv ==
    ASSUME MutexInv, ~SMP, NEW t \in Threads, NEW m \in Mutexes,
           k_mutex_unlock(t, m) \/ \E cv \in Condvars : k_condvar_wait(t, cv, m)
    PROVE  MutexInv'
<1>1. \E kind \in {"wake", "wait"}, obj \in Objects,
         v \in {Running, [at |-> "waiting", mutex |-> m]} :
         /\ Calls(t) /\ Unlock(t, m, [kind |-> kind, thread |-> t, obj |-> obj])
         /\ pc' = [pc EXCEPT ![t] = v] /\ base' = base
         /\ kind = "wait" => obj \in Condvars /\ v.at = "waiting"
  <2>1. CASE k_mutex_unlock(t, m)
    <3>1. /\ Calls(t) /\ Unlock(t, m, [kind |-> "wake", thread |-> t, obj |-> m])
          /\ pc' = pc /\ base' = base /\ pc[t] = Running
      BY <2>1, Zenon DEF k_mutex_unlock, Calls
    <3>2. pc = [pc EXCEPT ![t] = Running]
      BY <3>1, MutexTypes, Zenon DEF TypeOK
    <3>3. m \in Objects
      BY MutexTypes, Zenon
    <3> QED BY <3>1, <3>2, <3>3, Zenon
  <2>2. ASSUME NEW cv \in Condvars, k_condvar_wait(t, cv, m)
        PROVE  /\ Calls(t) /\ Unlock(t, m, [kind |-> "wait", thread |-> t, obj |-> cv])
               /\ pc' = [pc EXCEPT ![t] = [at |-> "waiting", mutex |-> m]] /\ base' = base
               /\ cv \in Objects /\ [at |-> "waiting", mutex |-> m].at = "waiting"
    BY <2>2, MutexTypes, Zenon DEF k_condvar_wait
  <2> QED BY <2>1, <2>2, ZenonT(40)
<1> PICK kind \in {"wake", "wait"}, obj \in Objects,
         v \in {Running, [at |-> "waiting", mutex |-> m]} :
         /\ Calls(t) /\ Unlock(t, m, [kind |-> kind, thread |-> t, obj |-> obj])
         /\ pc' = [pc EXCEPT ![t] = v] /\ base' = base
         /\ kind = "wait" => obj \in Condvars /\ v.at = "waiting"
  BY <1>1, ZenonT(40)
<1>2. /\ op = NoOp /\ t \in p.ready /\ pc[t] = Running /\ p.expired = NULL
      /\ op' = [kind |-> kind, thread |-> t, obj |-> obj]
  BY Zenon DEF Calls, Runs, Unlock
<1>3. /\ v.at \in {"running", "waiting"} /\ v.mutex \in Mutexes \cup {NULL}
      /\ v \in [at : {"running", "locking", "timedout", "waiting", "relock"},
                mutex : Mutexes \cup {NULL}]
      /\ v.at = "running" => v = Running
      /\ v.at # "running" => v.mutex \in Mutexes
  <2>1. CASE v = Running
    BY <2>1, Zenon DEF Running
  <2>2. CASE v = [at |-> "waiting", mutex |-> m]
    BY <2>2, Zenon
  <2> QED BY <2>1, <2>2, Zenon
<1>4. pc'[t] = v /\ \A u \in Threads : u # t => pc'[u] = pc[u]
  BY MutexTypes, Zenon DEF TypeOK
<1>5. /\ Sound(p') /\ p'.ready = p.ready /\ p'.expired = p.expired
      /\ \A u \in Threads : p'.pended_on[u] \in {p.pended_on[u], NULL}
      /\ \A u \in Threads : u # t => holds'[u] = holds[u]
      /\ owner' \in [Mutexes -> Threads \cup {NULL}]
      /\ lock_count' \in [Mutexes -> 0 .. MaxDepth]
      /\ owner_orig_prio' \in [Mutexes -> Prios]
      /\ holds' \in [Threads -> [Mutexes -> 0 .. MaxDepth]]
      /\ MutualExclusion'
  BY <1>2, <1>3, <1>4, UnlockExclusion, Zenon
<1>6. TypeOK'
  <2>1. pc' \in [Threads -> [at : {"running", "locking", "timedout", "waiting", "relock"},
                             mutex : Mutexes \cup {NULL}]]
    BY <1>3, MutexTypes, Zenon DEF TypeOK
  <2>2. op' \in [kind : {"none", "wake", "wait", "broadcast"},
                 thread : Threads \cup {NULL}, obj : Objects \cup {NULL}]
    BY <1>2, Zenon
  <2> QED BY <1>5, <2>1, <2>2, MutexTypes, Zenon DEF TypeOK, Sound
<1>7. OpInv'
  BY <1>2, <1>4, <1>5, Zenon DEF OpInv, NoOp
<1>8. PcInv'
  <2>1. p'.pended_on[t] = NULL /\ t \in p'.ready /\ v.at # "locking"
    BY <1>2, <1>3, <1>5, MutexTypes, Zenon
  <2>2. NULL \notin Mutexes /\ NULL \notin Condvars
    BY MutexTypes, Zenon
  <2> QED BY <1>3, <1>5, <2>1, <2>2, PcStep, ZenonT(40)
<1> QED BY <1>5, <1>6, <1>7, <1>8, Zenon DEF MutexInv

\* Every step keeps the invariant.
LEMMA NextInv ==
    ASSUME MutexInv, ~SMP, [Next]_vars PROVE MutexInv'
<1>1. CASE UNCHANGED vars
  <2>1. /\ p' = p /\ owner' = owner /\ lock_count' = lock_count /\ op' = op /\ pc' = pc
        /\ owner_orig_prio' = owner_orig_prio /\ base' = base /\ holds' = holds
    BY <1>1, Zenon DEF vars, mutex
  <2>2. TypeOK' /\ OpInv'
    BY <2>1, ZenonT(40) DEF MutexInv, TypeOK, OpInv
  <2>3. PcInv' /\ MutualExclusion'
    BY <2>1 DEF MutexInv, PcInv, MutualExclusion, BeingGiven
  <2> QED BY <2>1, <2>2, <2>3, Zenon DEF MutexInv
<1>2. ASSUME NEW t \in Threads, NEW m \in Mutexes, NEW wait \in Waits, LockPend(t, m, wait)
      PROVE  MutexInv'
  BY <1>2, LockPendInv, Zenon
<1>3. ASSUME NEW wait \in Waits, CondvarPend(wait) PROVE MutexInv'
  BY <1>3, CondvarPendInv, Zenon
<1>4. ASSUME NEW t \in Threads, NEW m \in Mutexes,
             \/ k_mutex_lock(t, m) \/ k_mutex_unlock(t, m)
             \/ \E cv \in Condvars : k_condvar_wait(t, cv, m)
      PROVE  MutexInv'
  BY <1>4, LockInv, UnlockInv, Zenon
<1>5. ASSUME NEW t \in Threads, LockReturn(t) \/ LockTimedOut(t) \/ CondvarReturn(t)
      PROVE  MutexInv'
  BY <1>5, LockReturnInv, LockTimedOutInv, CondvarReturnInv, Zenon
<1> QED BY <1>1, <1>2, <1>3, <1>4, <1>5, SignalInv, UnlockWakeInv, TimeoutInv,
           CondvarWaitUnownedInv, Zenon DEF Next

\* The invariant of the mutexes holds in every state that lock, unlock, the
\* condition variables' calls and the timeouts of waiting calls reach.
THEOREM MutexInvariant ==
    ASSUME ~SMP
    PROVE  Spec => []MutexInv
<1>1. Init => MutexInv
  BY InitInv, Zenon
<1>2. MutexInv /\ [Next]_vars => MutexInv'
  BY NextInv, Zenon
<1> QED BY <1>1, <1>2, PTL DEF Spec

\* owner, lock_count, the priorities that k_mutex_lock() saves and sets, and the
\* threads' waits are well formed.
THEOREM MutexTypeCorrect ==
    ASSUME ~SMP
    PROVE  Spec => []TypeOK
<1>1. MutexInv => TypeOK
  BY Zenon DEF MutexInv
<1> QED BY <1>1, MutexInvariant, PTL

\* A thread that has locked a mutex and not unlocked it is its one owner, with
\* the count the mutex records, through hand-over by k_mutex_unlock(), timeout
\* and condition variables; nobody waits for a free mutex.
THEOREM MutualExclusionCorrect ==
    ASSUME ~SMP
    PROVE  Spec => []MutualExclusion
<1>1. MutexInv => MutualExclusion
  BY Zenon DEF MutexInv
<1> QED BY <1>1, MutexInvariant, PTL

-----------------------------------------------------------------------------
(* Priorities.                                                             *)

\* A step that leaves the priorities and the owners alone, in which nobody
\* begins to wait for a mutex, and a thread that gives up waiting for one has
\* become its owner.
Quiet ==
    /\ p'.prio = p.prio /\ owner' = owner /\ owner_orig_prio' = owner_orig_prio
    /\ base' = base
    /\ \A m \in Mutexes : InPriorityOrder(p.waitq[m], p.prio) =>
          InPriorityOrder(p'.waitq[m], p.prio)
    /\ \A t \in Threads : p'.pended_on[t] \in Mutexes => p'.pended_on[t] = p.pended_on[t]
    /\ \A t \in Threads : pc[t].at \in {"locking", "timedout"} =>
          \/ pc'[t].at \in {"locking", "timedout"} /\ pc'[t].mutex = pc[t].mutex
          \/ owner[pc[t].mutex] = t

\* The threads' waits: waking, signalling and timeouts are quiet.
LEMMA WaitsQuiet ==
    ASSUME MutexInv, ~SMP,
           \/ UnlockWake \/ (\E wait \in Waits : CondvarPend(wait)) \/ TimeoutHandler
           \/ BroadcastUnpend \/ BroadcastWake \/ BroadcastDone
           \/ \E t \in Threads : sys_clock_announce(t)
           \/ \E t \in Threads, cv \in Condvars :
                 k_condvar_signal(t, cv) \/ k_condvar_broadcast(t, cv)
    PROVE  Quiet
<1>a. /\ pc' = pc /\ base' = base /\ owner' = owner /\ owner_orig_prio' = owner_orig_prio
  BY Zenon DEF UnlockWake, CondvarPend, TimeoutHandler, BroadcastUnpend, BroadcastWake,
         BroadcastDone, sys_clock_announce, k_condvar_signal, k_condvar_broadcast, mutex
<1>b. /\ Sound(p) /\ \A m \in Mutexes : m \in Objects /\ m \notin Condvars
      /\ NULL \notin Mutexes
  BY MutexTypes, Zenon
<1> DEFINE Keeps(r) ==
        /\ r.prio = p.prio
        /\ \A m \in Mutexes : InPriorityOrder(p.waitq[m], p.prio) =>
              InPriorityOrder(r.waitq[m], p.prio)
        /\ \A t \in Threads : r.pended_on[t] \in Mutexes => r.pended_on[t] = p.pended_on[t]
<1>c. Keeps(p') => Quiet
  BY <1>a, Zenon DEF Quiet
<1>1. Keeps(p)
  BY Zenon
<1>2. p.waking # NULL => Keeps(WakeWith(p, "OK"))
  BY WakeWaits, Zenon
<1>3. ASSUME NEW wait, CondvarPend(wait) PROVE Keeps(p')
  <2> DEFINE s == IF p.waking # NULL THEN WakeWith(p, "OK") ELSE p
             t == op.thread
             cv == op.obj
  <2>1. op.kind = "wait" /\ p' = z_pend_curr(s, t, cv, wait)
    BY <1>3, Zenon DEF CondvarPend
  <2>2. /\ Sound(s) /\ Keeps(s) /\ s.expired = p.expired /\ p.ready \subseteq s.ready
        /\ s.pended_on = p.pended_on /\ s.waitq = p.waitq /\ s.prio = p.prio
    <3>1. CASE p.waking # NULL
      BY <1>2, <3>1, WakeWaits, Zenon
    <3>2. CASE p.waking = NULL
      BY <1>1, <1>b, <3>2, Zenon
    <3> QED BY <3>1, <3>2, Zenon
  <2> HIDE DEF s
  <2>3. t \in s.ready /\ t \in Threads /\ cv \in Condvars /\ cv \in Objects /\ s.expired = NULL
    <3>1. t \in p.ready /\ cv \in Condvars /\ p.expired = NULL
      BY <2>1, SMTT(40) DEF MutexInv, OpInv, NoOp
    <3> QED BY <2>2, <3>1, MutexTypes, PendTypes, ZenonT(40)
  <2> HIDE DEF t, cv
  <2>4. /\ p'.prio = s.prio /\ \A v \in Objects : v # cv => p'.waitq[v] = s.waitq[v]
        /\ \A u \in Threads : p'.pended_on[u] = IF u = t THEN cv ELSE s.pended_on[u]
    BY <2>1, <2>2, <2>3, PendSound DEF OnlyQueue
  <2> QED BY <1>b, <2>2, <2>3, <2>4, Zenon
<1>4. ASSUME NEW cv \in Condvars, p.waking = NULL, p.waitq[cv] # <<>>
      PROVE  Keeps(z_unpend_first_thread(p, cv))
  <2> DEFINE r == z_unpend_first_thread(p, cv)
  <2>1. /\ r.prio = p.prio /\ \A v \in Objects : v # cv => r.waitq[v] = p.waitq[v]
        /\ \A u \in Threads : r.pended_on[u] \in {p.pended_on[u], NULL}
    BY <1>4, MutexTypes, UnpendFirstSound DEF OnlyQueue
  <2> HIDE DEF r
  <2>2. Keeps(r)
    BY <1>b, <2>1, Zenon
  <2> QED BY <2>2, Zenon DEF r
<1>5. CASE TimeoutHandler
  <2>1. p.waking = NULL /\ p.expired # NULL /\ p' = z_thread_timeout(p)
    BY <1>5, Zenon DEF TimeoutHandler, MutexInv, OpInv
  <2>2. /\ p'.prio = p.prio /\ \A u \in Threads : p'.pended_on[u] \in {p.pended_on[u], NULL}
        /\ \A w \in Objects : InPriorityOrder(p.waitq[w], p.prio) =>
              InPriorityOrder(p'.waitq[w], p.prio)
    BY <1>b, <2>1, TimeoutSound
  <2> QED BY <1>b, <1>c, <2>2, Zenon
<1>6. ASSUME NEW t \in Threads, sys_clock_announce(t) PROVE Keeps(p')
  <2>1. p' = Expire(p, t)
    BY <1>6, Zenon DEF sys_clock_announce
  <2>2. p'.prio = p.prio /\ p'.waitq = p.waitq /\ p'.pended_on = p.pended_on
    BY <1>b, <2>1, ExpireSound, Zenon
  <2> QED BY <2>2, Zenon
<1> HIDE DEF Keeps
<1>7. CASE UnlockWake \/ BroadcastWake \/ BroadcastDone
  BY <1>1, <1>2, <1>7, <1>c, Zenon DEF UnlockWake, BroadcastWake, BroadcastDone
<1>8. CASE BroadcastUnpend
  BY <1>4, <1>8, <1>c, Zenon DEF BroadcastUnpend, MutexInv, OpInv
<1>9. ASSUME NEW t \in Threads, NEW cv \in Condvars,
             k_condvar_signal(t, cv) \/ k_condvar_broadcast(t, cv)
      PROVE  Keeps(p')
  BY <1>1, <1>4, <1>9, Zenon DEF k_condvar_signal, k_condvar_broadcast, Calls, MutexInv, OpInv
<1> QED BY <1>3, <1>5, <1>6, <1>7, <1>8, <1>9, <1>c, Zenon

\* A call that returns, a mutex locked again and one unlocked not for the last
\* time are quiet.
LEMMA CallsQuiet ==
    ASSUME MutexInv, NEW t \in Threads,
           \/ LockReturn(t) \/ CondvarReturn(t)
           \/ \E m \in Mutexes, cv \in Condvars : CondvarWaitUnowned(t, cv, m)
           \/ \E m \in Mutexes : k_mutex_lock(t, m) /\ lock_count[m] # 0
           \/ \E m \in Mutexes : /\ lock_count[m] > 1
                                 /\ \/ k_mutex_unlock(t, m)
                                    \/ \E cv \in Condvars : k_condvar_wait(t, cv, m)
    PROVE  Quiet
<1>a. ASSUME p' = p, owner' = owner, owner_orig_prio' = owner_orig_prio, base' = base,
             \A u \in Threads : u # t => pc'[u] = pc[u],
             pc[t].at \in {"locking", "timedout"} =>
                \/ pc'[t].at \in {"locking", "timedout"} /\ pc'[t].mutex = pc[t].mutex
                \/ owner[pc[t].mutex] = t
      PROVE  Quiet
  BY <1>a, Zenon DEF Quiet
<1>b. pc \in [Threads -> [at : {"running", "locking", "timedout", "waiting", "relock"},
                          mutex : Mutexes \cup {NULL}]]
  BY MutexTypes, Zenon DEF TypeOK
<1>c. Running.at = "running"
  BY Zenon DEF Running
<1>1. CASE LockReturn(t)
  <2>1. /\ pc[t].at = "locking" /\ t \in p.ready /\ p' = p /\ owner' = owner
        /\ owner_orig_prio' = owner_orig_prio /\ base' = base
        /\ pc' = [pc EXCEPT ![t] = IF p.swap_retval[t] = "OK" THEN Running
                                   ELSE [pc[t] EXCEPT !.at = "timedout"]]
    BY <1>1, Zenon DEF LockReturn, Runs, mutex
  <2>2. /\ \A u \in Threads : u # t => pc'[u] = pc[u]
        /\ p.swap_retval[t] # "OK" => pc'[t] = [pc[t] EXCEPT !.at = "timedout"]
    BY <1>b, <2>1, Zenon
  <2>3. p.swap_retval[t] # "OK" => pc'[t].at = "timedout" /\ pc'[t].mutex = pc[t].mutex
    BY <1>b, <2>2, Zenon
  <2>4. p.swap_retval[t] = "OK" => owner[pc[t].mutex] = t
    <3>1. /\ pc[t].mutex \in Mutexes /\ p.pended_on[t] = NULL
          /\ pc[t] = [at |-> "locking", mutex |-> pc[t].mutex]
      BY <1>b, <2>1, MutexTypes, Zenon DEF MutexInv, PcInv
    <3> QED BY <3>1 DEF MutexInv, MutualExclusion, BeingGiven
  <2> QED BY <1>a, <2>1, <2>2, <2>3, <2>4, Zenon
<1>2. CASE CondvarReturn(t)
  <2>1. /\ pc[t].at = "waiting" /\ p' = p /\ owner' = owner /\ base' = base
        /\ owner_orig_prio' = owner_orig_prio
        /\ pc' = [pc EXCEPT ![t] = [pc[t] EXCEPT !.at = "relock"]]
    BY <1>2, Zenon DEF CondvarReturn, mutex
  <2> QED BY <1>a, <1>b, <2>1, Zenon
<1>3. ASSUME NEW m \in Mutexes, k_mutex_lock(t, m), lock_count[m] # 0 PROVE Quiet
  <2>1. /\ owner[m] = t
        /\ p' = p /\ base' = base /\ pc' = [pc EXCEPT ![t] = Running]
        /\ owner' = [owner EXCEPT ![m] = t]
        /\ owner_orig_prio' = [owner_orig_prio EXCEPT ![m] = @]
    BY <1>3, Zenon DEF k_mutex_lock, MayLock
  <2>2. owner' = owner /\ owner_orig_prio' = owner_orig_prio
    BY <1>3, <2>1, MutexTypes DEF TypeOK, k_mutex_lock
  <2>3. pc[t].at \in {"running", "relock"}
    BY <1>3, MayLockNotGiven, Zenon DEF k_mutex_lock, MayLock
  <2>4. \A u \in Threads : u # t => pc'[u] = pc[u]
    BY <1>b, <2>1, Zenon
  <2> QED BY <1>a, <2>1, <2>2, <2>3, <2>4, Zenon
<1>4. ASSUME NEW m \in Mutexes, lock_count[m] > 1,
             k_mutex_unlock(t, m) \/ \E cv \in Condvars : k_condvar_wait(t, cv, m)
      PROVE  Quiet
  <2>1. /\ pc[t] = Running /\ p' = p /\ owner' = owner /\ base' = base
        /\ owner_orig_prio' = owner_orig_prio
        /\ pc' = pc \/ \E v : pc' = [pc EXCEPT ![t] = v]
    BY <1>4, ZenonT(40) DEF k_mutex_unlock, k_condvar_wait, Calls, Unlock
  <2> QED BY <1>a, <1>b, <1>c, <2>1, Zenon
<1>5. ASSUME NEW m \in Mutexes, NEW cv \in Condvars, CondvarWaitUnowned(t, cv, m) PROVE Quiet
  <2>1. /\ pc[t] = Running /\ p' = p /\ owner' = owner /\ base' = base
        /\ owner_orig_prio' = owner_orig_prio /\ \E v : pc' = [pc EXCEPT ![t] = v]
    BY <1>5, Zenon DEF CondvarWaitUnowned, Calls, mutex
  <2> QED BY <1>a, <1>b, <1>c, <2>1, Zenon
<1> QED BY <1>1, <1>2, <1>3, <1>4, <1>5, Zenon

\* The first lock of a mutex saves the caller's priority.
LEMMA FirstLock ==
    ASSUME MutexInv, NEW t \in Threads, NEW m \in Mutexes, k_mutex_lock(t, m),
           lock_count[m] = 0
    PROVE  /\ p' = p /\ base' = base /\ owner[m] = NULL
           /\ \A n \in Mutexes :
                 /\ owner'[n] = IF n = m THEN t ELSE owner[n]
                 /\ owner_orig_prio'[n] = IF n = m THEN p.prio[t] ELSE owner_orig_prio[n]
           /\ \A u \in Threads : p.pended_on[u] # m
           /\ \A u \in Threads : pc[u].at \in {"locking", "timedout"} => pc'[u] = pc[u]
<1>1. /\ p' = p /\ base' = base /\ pc' = [pc EXCEPT ![t] = Running]
      /\ owner' = [owner EXCEPT ![m] = t]
      /\ owner_orig_prio' = [owner_orig_prio EXCEPT ![m] = p.prio[t]]
      /\ pc[t].at \in {"running", "relock"}
  BY MayLockNotGiven, Zenon DEF k_mutex_lock, MayLock
<1>2. owner[m] = NULL /\ p.waitq[m] = <<>>
  BY Zenon DEF MutexInv, MutualExclusion
<1>3. \A u \in Threads : p.pended_on[u] # m
  BY <1>2, MutexTypes, FreeMutex, Zenon
<1>4. \A n \in Mutexes :
         /\ owner'[n] = IF n = m THEN t ELSE owner[n]
         /\ owner_orig_prio'[n] = IF n = m THEN p.prio[t] ELSE owner_orig_prio[n]
  BY <1>1, MutexTypes, Zenon DEF TypeOK
<1>5. \A u \in Threads : pc[u].at \in {"locking", "timedout"} => pc'[u] = pc[u]
  BY <1>1, MutexTypes, Zenon DEF TypeOK
<1> QED BY <1>1, <1>2, <1>3, <1>4, <1>5, Zenon

\* A thread that waits for a mutex raises its owner to its own priority, within
\* the ceiling, if that is a rise.
LEMMA LockRaises ==
    ASSUME MutexInv, ~SMP, NEW t \in Threads, NEW m \in Mutexes, NEW wait,
           LockPend(t, m, wait)
    PROVE  /\ owner[m] \in Threads /\ owner[m] # t /\ owner' = owner /\ base' = base
           /\ owner_orig_prio' = owner_orig_prio
           /\ \A u \in Threads : p'.prio[u] =
                 LET n == new_prio_for_inheritance(p.prio[t], p.prio[u])
                 IN  IF u = owner[m] /\ n < p.prio[u] THEN n ELSE p.prio[u]
           /\ \A n \in Mutexes : n # m => p'.waitq[n] = p.waitq[n]
           /\ InPriorityOrder(p.waitq[m], p'.prio) => InPriorityOrder(p'.waitq[m], p'.prio)
           /\ \A u \in Threads : p'.pended_on[u] = IF u = t THEN m ELSE p.pended_on[u]
           /\ pc'[t].at = "locking" /\ pc'[t].mutex = m
           /\ \A u \in Threads : u # t => pc'[u] = pc[u]
<1> DEFINE s == Raised(t, m)
<1>1. /\ t \in p.ready /\ p.expired = NULL /\ lock_count[m] # 0 /\ owner[m] # t
      /\ p' = z_pend_curr(s, t, m, wait) /\ owner' = owner /\ base' = base
      /\ pc' = [pc EXCEPT ![t] = [at |-> "locking", mutex |-> m]]
      /\ owner_orig_prio' = owner_orig_prio
  BY Zenon DEF LockPend, MayLock, Runs, mutex, adjust_owner_prio, Raised
<1>2. /\ owner[m] \in Threads /\ Sound(s) /\ s.ready = p.ready /\ s.expired = p.expired
      /\ s.pended_on = p.pended_on /\ s.waitq = p.waitq
      /\ \A u \in Threads : s.prio[u] =
            LET n == new_prio_for_inheritance(p.prio[t], p.prio[u])
            IN  IF u = owner[m] /\ n < p.prio[u] THEN n ELSE p.prio[u]
  BY <1>1, RaisedSound, ZenonT(40)
<1> HIDE DEF s
<1>3. /\ p'.prio = s.prio /\ \A v \in Objects : v # m => p'.waitq[v] = s.waitq[v]
      /\ InPriorityOrder(s.waitq[m], s.prio) => InPriorityOrder(p'.waitq[m], s.prio)
      /\ \A u \in Threads : p'.pended_on[u] = IF u = t THEN m ELSE s.pended_on[u]
  BY <1>1, <1>2, MutexTypes, PendSound, SMTT(40) DEF OnlyQueue
<1>4. pc'[t] = [at |-> "locking", mutex |-> m] /\ \A u \in Threads : u # t => pc'[u] = pc[u]
  BY <1>1, MutexTypes DEF TypeOK
<1>5. \A n \in Mutexes : n \in Objects
  BY MutexTypes, Zenon
<1> QED BY <1>1, <1>2, <1>3, <1>4, <1>5, SMTT(40)

\* A thread that timed out leaves the owner with DownPrio.
LEMMA TimedOutLowers ==
    ASSUME MutexInv, NEW t \in Threads, LockTimedOut(t)
    PROVE  /\ pc[t].mutex \in Mutexes /\ owner' = owner /\ base' = base
           /\ owner_orig_prio' = owner_orig_prio /\ p'.waitq = p.waitq
           /\ p'.pended_on = p.pended_on
           /\ \A u \in Threads :
                 p'.prio[u] = IF u = owner[pc[t].mutex] THEN DownPrio(pc[t].mutex)
                              ELSE p.prio[u]
           /\ \A u \in Threads : u # t => pc'[u] = pc[u]
           /\ p.pended_on[t] = NULL
<1> DEFINE m == pc[t].mutex
<1>1. /\ t \in p.ready /\ pc[t].at = "timedout" /\ pc' = [pc EXCEPT ![t] = Running]
      /\ owner' = owner /\ owner_orig_prio' = owner_orig_prio /\ base' = base
      /\ p' = IF owner[m] # NULL THEN z_set_prio(p, owner[m], DownPrio(m)) ELSE p
  BY Zenon DEF LockTimedOut, Runs, mutex, adjust_owner_prio, DownPrio
<1>2. m \in Mutexes
  BY <1>1, ZenonT(40) DEF MutexInv, PcInv
<1>3. /\ p'.waitq = p.waitq /\ p'.pended_on = p.pended_on
      /\ \A u \in Threads : p'.prio[u] = IF u = owner[m] THEN DownPrio(m) ELSE p.prio[u]
  <2>1. CASE owner[m] # NULL
    <3> DEFINE o == owner[m]
               d == DownPrio(m)
    <3>1. o \in Threads /\ d \in Prios /\ p' = z_set_prio(p, o, d)
      BY <1>1, <1>2, <2>1, MutexTypes, DownPrioType, SMTT(40) DEF TypeOK
    <3> HIDE DEF o, d
    <3>2. /\ p'.waitq = p.waitq /\ p'.pended_on = p.pended_on
          /\ \A u \in Threads : p'.prio[u] = IF u = o THEN d ELSE p.prio[u]
      BY <3>1, MutexTypes, PrioSound
    <3> QED BY <3>2, Zenon DEF o, d
  <2> QED BY <1>1, <2>1, MutexTypes
<1>4. \A u \in Threads : u # t => pc'[u] = pc[u]
  BY <1>1, MutexTypes, Zenon DEF TypeOK
<1> QED BY <1>1, <1>2, <1>3, <1>4, MutexTypes, Zenon

\* The last unlock gives the owner its saved priority back, and the mutex to the
\* first waiter, whose priority is saved in turn.
LEMMA LastUnlock ==
    ASSUME MutexInv, NEW t \in Threads, NEW m \in Mutexes, ~(lock_count[m] > 1),
           k_mutex_unlock(t, m) \/ \E cv \in Condvars : k_condvar_wait(t, cv, m)
    PROVE  /\ owner[m] = t /\ base' = base
           /\ \A u \in Threads :
                 /\ p'.prio[u] = IF u = t THEN owner_orig_prio[m] ELSE p.prio[u]
                 /\ p'.pended_on[u] \in {p.pended_on[u], NULL}
                 /\ pc[u].at \in {"locking", "timedout"} => pc'[u] = pc[u]
           /\ \A n \in Mutexes :
                 /\ n # m => owner'[n] = owner[n] /\ owner_orig_prio'[n] = owner_orig_prio[n]
                 /\ InPriorityOrder(p.waitq[n], p'.prio) => InPriorityOrder(p'.waitq[n], p'.prio)
           /\ \/ owner'[m] = NULL /\ \A u \in Threads : p.pended_on[u] # m
              \/ /\ owner'[m] \in Threads /\ owner'[m] # t
                 /\ owner_orig_prio'[m] = p'.prio[owner'[m]]
                 /\ InPriorityOrder(p.waitq[m], p'.prio) =>
                       \A u \in Threads : p.pended_on[u] = m =>
                          p'.prio[owner'[m]] <= p'.prio[u]
<1>1. /\ owner[m] = t /\ base' = base /\ pc[t] = Running /\ t \in p.ready /\ op = NoOp
      /\ pc' = pc \/ \E v : pc' = [pc EXCEPT ![t] = v]
      /\ \E next : Unlock(t, m, next)
  BY ZenonT(40) DEF k_mutex_unlock, k_condvar_wait, Unlock, Calls, Runs
<1>2. \A u \in Threads : pc[u].at \in {"locking", "timedout"} => pc'[u] = pc[u]
  <2>1. pc[t].at = "running"
    BY <1>1, SMTT(40) DEF Running
  <2> QED BY <1>1, <2>1, MutexTypes, Zenon DEF TypeOK
<1> DEFINE s == Restored(m)
<1>3. owner_orig_prio[m] \in Prios /\ m \in Objects /\ p.waking = NULL
      /\ \A n \in Mutexes : n \in Objects
  BY <1>1, MutexTypes, ZenonT(40) DEF TypeOK, MutexInv, OpInv
<1>4. /\ Sound(s) /\ s.waking = NULL /\ s.waitq = p.waitq /\ s.pended_on = p.pended_on
      /\ \A u \in Threads : s.prio[u] = IF u = t THEN owner_orig_prio[m] ELSE p.prio[u]
  BY <1>1, <1>3, MutexTypes, PrioSound, SMTT(40) DEF Restored
<1>5. CASE p.waitq[m] = <<>>
  <2>1. /\ p' = s /\ owner' = [owner EXCEPT ![m] = NULL] /\ owner_orig_prio' = owner_orig_prio
    BY <1>1, <1>5, Zenon DEF Unlock, Restored, adjust_owner_prio
  <2>2. \A n \in Mutexes : owner'[n] = IF n = m THEN NULL ELSE owner[n]
    BY <2>1, MutexTypes DEF TypeOK
  <2>3. \A u \in Threads : p.pended_on[u] # m
    BY <1>5, MutexTypes, FreeMutex, Zenon
  <2> HIDE DEF s
  <2> QED BY <1>1, <1>2, <1>4, <2>1, <2>2, <2>3
<1>6. CASE p.waitq[m] # <<>>
  <2> DEFINE w == z_priq_dumb_best(s.waitq[m])
  <2>1. /\ p' = z_unpend_first_thread(s, m) /\ owner' = [owner EXCEPT ![m] = p'.waking]
        /\ owner_orig_prio' = [owner_orig_prio EXCEPT ![m] = p'.prio[p'.waking]]
    BY <1>1, <1>6, ZenonT(40) DEF Unlock, Restored, adjust_owner_prio
  <2> HIDE DEF s
  <2>2. /\ p'.prio = s.prio /\ w \in Threads /\ p.pended_on[w] = m /\ p'.waking = w
        /\ \A u \in Threads : p'.pended_on[u] = IF u = w THEN NULL ELSE p.pended_on[u]
        /\ \A v \in Objects : v # m => p'.waitq[v] = p.waitq[v]
        /\ InPriorityOrder(p.waitq[m], s.prio) => InPriorityOrder(p'.waitq[m], s.prio)
    BY <1>3, <1>4, <1>6, <2>1, UnpendFirstSound, SMTT(40) DEF OnlyQueue
  <2>3. InPriorityOrder(p.waitq[m], s.prio) =>
           \A u \in Threads : p.pended_on[u] = m => s.prio[w] <= s.prio[u]
    BY <1>3, <1>4, <1>6, WaitqHead, Zenon
  <2> HIDE DEF w
  <2>4. w # t
    BY <1>1, <1>3, <2>2, MutexTypes, ZenonT(40)
  <2>5. \A n \in Mutexes :
           /\ owner'[n] = IF n = m THEN w ELSE owner[n]
           /\ owner_orig_prio'[n] = IF n = m THEN p'.prio[w] ELSE owner_orig_prio[n]
    BY <2>1, <2>2, MutexTypes, SMTT(40) DEF TypeOK
  <2>6. \A n \in Mutexes :
           InPriorityOrder(p.waitq[n], p'.prio) => InPriorityOrder(p'.waitq[n], p'.prio)
    BY <1>3, <2>2, Zenon
  <2>7. \A u \in Threads : /\ p'.prio[u] = IF u = t THEN owner_orig_prio[m] ELSE p.prio[u]
                           /\ p'.pended_on[u] \in {p.pended_on[u], NULL}
    BY <1>4, <2>2, Zenon
  <2>8. \A n \in Mutexes : n # m => /\ owner'[n] = owner[n]
                                    /\ owner_orig_prio'[n] = owner_orig_prio[n]
    BY <2>5, ZenonT(40)
  <2>9. /\ owner'[m] \in Threads /\ owner'[m] # t /\ owner_orig_prio'[m] = p'.prio[owner'[m]]
        /\ InPriorityOrder(p.waitq[m], p'.prio) =>
              \A u \in Threads : p.pended_on[u] = m => p'.prio[owner'[m]] <= p'.prio[u]
    BY <2>2, <2>3, <2>4, <2>5
  <2> QED BY <1>1, <1>2, <2>6, <2>7, <2>8, <2>9, Zenon
<1> QED BY <1>5, <1>6, Zenon

\* The steps that move priorities or owners are these; every other is quiet.
LEMMA NextSplit ==
    ASSUME MutexInv, ~SMP, [Next]_vars
    PROVE  \/ Quiet
           \/ \E t \in Threads, m \in Mutexes : k_mutex_lock(t, m) /\ lock_count[m] = 0
           \/ \E t \in Threads, m \in Mutexes, wait \in Waits : LockPend(t, m, wait)
           \/ \E t \in Threads : LockTimedOut(t)
           \/ \E t \in Threads, m \in Mutexes :
                 /\ ~(lock_count[m] > 1)
                 /\ k_mutex_unlock(t, m) \/ \E cv \in Condvars : k_condvar_wait(t, cv, m)
<1>1. CASE UNCHANGED vars
  BY <1>1, Zenon DEF vars, mutex, Quiet
<1>2. CASE Next
  <2>1. CASE \/ UnlockWake \/ (\E wait \in Waits : CondvarPend(wait)) \/ TimeoutHandler
             \/ BroadcastUnpend \/ BroadcastWake \/ BroadcastDone
             \/ \E t \in Threads : sys_clock_announce(t)
             \/ \E t \in Threads, cv \in Condvars :
                   k_condvar_signal(t, cv) \/ k_condvar_broadcast(t, cv)
    BY <2>1, WaitsQuiet, Zenon
  <2>2. CASE \E t \in Threads :
                \/ LockReturn(t) \/ CondvarReturn(t)
                \/ \E m \in Mutexes, cv \in Condvars : CondvarWaitUnowned(t, cv, m)
    BY <2>2, CallsQuiet, Zenon
  <2>3. CASE \E t \in Threads, m \in Mutexes :
                \/ k_mutex_lock(t, m) \/ k_mutex_unlock(t, m)
                \/ \E cv \in Condvars : k_condvar_wait(t, cv, m)
    BY <2>3, CallsQuiet, Zenon
  <2> QED BY <1>2, <2>1, <2>2, <2>3, Zenon DEF Next
<1> QED BY <1>1, <1>2, Zenon

\* The priorities of the state, as integers.
LEMMA PrioTypes ==
    ASSUME MutexInv
    PROVE  /\ \A t \in Threads : /\ p.prio[t] \in Prios /\ p.prio[t] \in Int
                                 /\ base[t] \in Prios /\ base[t] \in Int
           /\ \A m \in Mutexes : /\ owner_orig_prio[m] \in Prios /\ owner_orig_prio[m] \in Int
                                 /\ owner[m] \in Threads \cup {NULL}
           /\ NULL \notin Threads /\ Prios \subseteq Int /\ PRIORITY_CEILING \in Int
BY MutexTypes, PendTypes, PendAssumption, MutexAssumption, ZenonT(40) DEF TypeOK

\* no thread's priority is above the ceiling, as with the default configuration
NobodyAboveCeiling == \A prio \in Prios : PRIORITY_CEILING <= prio

\* No thread is below its own priority, and no owner would be put below it by the
\* priority saved in a mutex.
BaseInv ==
    /\ NeverBelowBase
    /\ \A m \in Mutexes : owner[m] # NULL => owner_orig_prio[m] <= base[owner[m]]

\* Every step keeps threads at their base priority or above.
LEMMA BaseStep ==
    ASSUME NobodyAboveCeiling, MutexInv, BaseInv, ~SMP, [Next]_vars PROVE BaseInv'
<1>1. CASE Quiet
  BY <1>1, Zenon DEF BaseInv, NeverBelowBase, Quiet
<1>2. ASSUME NEW t \in Threads, NEW m \in Mutexes, k_mutex_lock(t, m), lock_count[m] = 0
      PROVE  BaseInv'
  BY <1>2, FirstLock DEF BaseInv, NeverBelowBase
<1>3. ASSUME NEW t \in Threads, NEW m \in Mutexes, NEW wait \in Waits, LockPend(t, m, wait)
      PROVE  BaseInv'
  <2>1. /\ owner' = owner /\ base' = base /\ owner_orig_prio' = owner_orig_prio
        /\ \A u \in Threads : p'.prio[u] =
              LET n == new_prio_for_inheritance(p.prio[t], p.prio[u])
              IN  IF u = owner[m] /\ n < p.prio[u] THEN n ELSE p.prio[u]
    BY <1>3, LockRaises, Zenon
  <2>2. ASSUME NEW u \in Threads PROVE p'.prio[u] <= base[u]
    <3> DEFINE n == new_prio_for_inheritance(p.prio[t], p.prio[u])
    <3>1. n \in Int /\ p.prio[u] \in Int /\ base[u] \in Int
      BY PrioTypes, NewPrio, Zenon
    <3>2. (p'.prio[u] = n /\ n < p.prio[u]) \/ p'.prio[u] = p.prio[u]
      BY <2>1, Zenon
    <3>3. p.prio[u] <= base[u]
      BY Zenon DEF BaseInv, NeverBelowBase
    <3> HIDE DEF n
    <3> QED BY <3>1, <3>2, <3>3
  <2> QED BY <2>1, <2>2, Zenon DEF BaseInv, NeverBelowBase
<1>4. ASSUME NEW t \in Threads, LockTimedOut(t) PROVE BaseInv'
  <2> DEFINE m == pc[t].mutex
  <2>1. /\ m \in Mutexes /\ owner' = owner /\ base' = base /\ owner_orig_prio' = owner_orig_prio
        /\ \A u \in Threads : p'.prio[u] = IF u = owner[m] THEN DownPrio(m) ELSE p.prio[u]
    BY <1>4, TimedOutLowers, Zenon
  <2> HIDE DEF m
  <2>2. DownPrio(m) <= owner_orig_prio[m] /\ DownPrio(m) \in Int
    <3> DEFINE w == z_priq_dumb_best(p.waitq[m])
    <3>1. owner_orig_prio[m] \in Prios /\ owner_orig_prio[m] \in Int
      BY <2>1, PrioTypes, Zenon
    <3>2. CASE p.waitq[m] # <<>>
      <4>1. m \in Objects /\ w \in Threads
        BY <2>1, <3>2, MutexTypes, WaitqHead, Zenon
      <4>2. p.prio[w] \in Prios
        BY <4>1, PrioTypes, Zenon
      <4>3. DownPrio(m) = new_prio_for_inheritance(p.prio[w], owner_orig_prio[m])
        BY <3>2, Zenon DEF DownPrio
      <4> HIDE DEF w
      <4>4. PRIORITY_CEILING \in Int /\ p.prio[w] \in Int /\ PRIORITY_CEILING <= p.prio[w]
            /\ PRIORITY_CEILING <= owner_orig_prio[m]
        BY <3>1, <4>2, PrioTypes, Zenon DEF NobodyAboveCeiling
      <4> QED BY <3>1, <4>3, <4>4, SMTT(40)
                 DEF new_prio_for_inheritance, z_get_new_prio_with_ceiling
    <3>3. CASE p.waitq[m] = <<>>
      BY <3>1, <3>3 DEF DownPrio
    <3> QED BY <3>2, <3>3, Zenon
  <2>3. ASSUME NEW u \in Threads PROVE p'.prio[u] <= base[u]
    <3>1. p.prio[u] <= base[u] /\ (u = owner[m] => owner_orig_prio[m] <= base[u])
      BY <2>1, PrioTypes DEF BaseInv, NeverBelowBase
    <3>2. owner_orig_prio[m] \in Int /\ base[u] \in Int
      BY <2>1, PrioTypes, Zenon
    <3> QED BY <2>1, <2>2, <3>1, <3>2
  <2> QED BY <2>1, <2>3, Zenon DEF BaseInv, NeverBelowBase
<1>5. ASSUME NEW t \in Threads, NEW m \in Mutexes, ~(lock_count[m] > 1),
             k_mutex_unlock(t, m) \/ \E cv \in Condvars : k_condvar_wait(t, cv, m)
      PROVE  BaseInv'
  <2>1. /\ owner[m] = t /\ base' = base
        /\ \A u \in Threads : p'.prio[u] = IF u = t THEN owner_orig_prio[m] ELSE p.prio[u]
        /\ \A n \in Mutexes : n # m =>
              owner'[n] = owner[n] /\ owner_orig_prio'[n] = owner_orig_prio[n]
        /\ \/ owner'[m] = NULL
           \/ owner'[m] \in Threads /\ owner_orig_prio'[m] = p'.prio[owner'[m]]
    BY <1>5, LastUnlock, SMTT(40)
  <2>2. \A u \in Threads : p'.prio[u] <= base[u]
    BY <2>1, PrioTypes, Zenon DEF BaseInv, NeverBelowBase
  <2> QED BY <2>1, <2>2, ZenonT(40) DEF BaseInv, NeverBelowBase
<1> QED BY <1>1, <1>2, <1>3, <1>4, <1>5, NextSplit, Zenon

\* With CONFIG_PRIORITY_CEILING at or above every thread's priority, as by
\* default, k_mutex_lock(), k_mutex_unlock() and a lock that times out never
\* leave a thread below the priority it was created with, whichever mutexes it
\* holds and in whichever order it unlocks them.
THEOREM NeverBelowBaseCorrect ==
    ASSUME ~SMP, NobodyAboveCeiling
    PROVE  Spec => []NeverBelowBase
<1>1. ASSUME Init PROVE BaseInv
  <2>1. p.prio = base
    BY <1>1, InitSound, Zenon DEF Init
  <2>2. \A t \in Threads : base[t] \in Int
    BY <1>1, PendAssumption, ZenonT(40) DEF Init
  <2> QED BY <1>1, <2>1, <2>2 DEF Init, BaseInv, NeverBelowBase
<1>2. MutexInv /\ BaseInv /\ [Next]_vars => BaseInv'
  BY BaseStep, Zenon
<1>3. BaseInv => NeverBelowBase
  BY Zenon DEF BaseInv
<1> QED BY <1>1, <1>2, <1>3, MutexInvariant, PTL DEF Spec

\* no two mutexes
OneMutex == \A m1, m2 \in Mutexes : m1 = m2

\* The waiters of the mutex are in order of priority, and its owner has the
\* priority of each of them, within the ceiling.
InheritInv ==
    \A m \in Mutexes :
        /\ InPriorityOrder(p.waitq[m], p.prio)
        /\ \A t \in Threads : p.pended_on[t] = m =>
              p.prio[owner[m]] <= z_get_new_prio_with_ceiling(p.prio[t])

\* The owner of a mutex is not among those who wait for it, so that a change of
\* its priority leaves the order of the queue alone.
LEMMA OwnerNotWaiting ==
    ASSUME MutexInv, NEW m \in Mutexes, NEW prio,
           \A u \in Threads : u # owner[m] => prio[u] = p.prio[u]
    PROVE  /\ \A u \in Threads : p.pended_on[u] = m => owner[m] \in Threads /\ u # owner[m]
           /\ InPriorityOrder(p.waitq[m], p.prio) => InPriorityOrder(p.waitq[m], prio)
<1>1. \A u \in Threads : p.pended_on[u] = m => owner[m] \in Threads /\ u # owner[m]
  <2>1. SUFFICES ASSUME NEW u \in Threads, p.pended_on[u] = m
                 PROVE  owner[m] \in Threads /\ u # owner[m]
    BY Zenon
  <2>2. pc[u].mutex = m /\ pc[u].at = "locking" /\ holds[u][m] = 0 /\ p.pended_on[u] # NULL
    <3>1. pc[u] = [at |-> "locking", mutex |-> m] /\ m # NULL
      BY <2>1, MutexTypes DEF MutexInv, PcInv
    <3>2. pc[u].at = "locking" /\ pc[u].mutex = m
      BY <3>1
    <3> QED BY <2>1, <3>1, <3>2, Zenon DEF MutexInv, PcInv
  <2>3. owner[m] # NULL
    <3>1. p.waitq[m] # <<>>
      BY <2>1, MutexTypes, FreeMutex
    <3> QED BY <3>1, Zenon DEF MutexInv, MutualExclusion
  <2>4. owner[m] # u
    <3>1. ~BeingGiven(u, m) /\ ~(holds[u][m] > 0)
      BY <2>2 DEF BeingGiven
    <3> QED BY <3>1, Zenon DEF MutexInv, MutualExclusion
  <2> QED BY <2>3, <2>4, PrioTypes, Zenon
<1>2. p.waitq[m] \in Seq(Threads) /\ \A i \in 1 .. Len(p.waitq[m]) : p.pended_on[p.waitq[m][i]] = m
  <2>1. m \in Objects /\ p.waitq[m] \in Seq(Threads) /\ Sound(p)
    BY MutexTypes, PendTypes, Zenon
  <2> QED BY <2>1 DEF Sound, OnQueue
<1>3. \A i \in 1 .. Len(p.waitq[m]) : prio[p.waitq[m][i]] = p.prio[p.waitq[m][i]]
  BY <1>1, <1>2
<1> QED BY <1>1, <1>3, Zenon DEF InPriorityOrder

\* Every step keeps the owner at the priority of the highest waiter.
LEMMA InheritStep ==
    ASSUME OneMutex, MutexInv, MutexInv', InheritInv, ~SMP, [Next]_vars
    PROVE  InheritInv'
<1> DEFINE Owned(m) == /\ InPriorityOrder(p'.waitq[m], p'.prio)
                       /\ \A t \in Threads : p'.pended_on[t] = m =>
                             p'.prio[owner'[m]] <= z_get_new_prio_with_ceiling(p'.prio[t])
<1>a. (\A m \in Mutexes : Owned(m)) => InheritInv'
  BY Zenon DEF InheritInv
<1>b. \A m \in Mutexes :
         /\ InPriorityOrder(p.waitq[m], p.prio)
         /\ \A t \in Threads : p.pended_on[t] = m =>
               p.prio[owner[m]] <= z_get_new_prio_with_ceiling(p.prio[t])
  BY Zenon DEF InheritInv
<1>c. \A m \in Mutexes, u \in Threads : p.pended_on[u] = m => owner[m] \in Threads /\ u # owner[m]
  BY OwnerNotWaiting, Zenon
<1>1. CASE Quiet
  BY <1>1, <1>b, <1>a, Zenon DEF Quiet
<1>2. ASSUME NEW t \in Threads, NEW m \in Mutexes, k_mutex_lock(t, m), lock_count[m] = 0
      PROVE  Owned(m)
  BY <1>2, <1>b, FirstLock
<1>3. ASSUME NEW t \in Threads, NEW m \in Mutexes, NEW wait \in Waits, LockPend(t, m, wait)
      PROVE  Owned(m)
  <2> DEFINE o == owner[m]
             n == new_prio_for_inheritance(p.prio[t], p.prio[o])
  <2>1. /\ o \in Threads /\ o # t /\ owner' = owner
        /\ \A u \in Threads : p'.prio[u] = IF u = o /\ n < p.prio[o] THEN n ELSE p.prio[u]
        /\ InPriorityOrder(p.waitq[m], p'.prio) => InPriorityOrder(p'.waitq[m], p'.prio)
        /\ \A u \in Threads : p'.pended_on[u] = IF u = t THEN m ELSE p.pended_on[u]
    BY <1>3, LockRaises, SMTT(40)
  <2>2. /\ n <= z_get_new_prio_with_ceiling(p.prio[t]) /\ n \in Int /\ p.prio[o] \in Int
        /\ \A u \in Threads : z_get_new_prio_with_ceiling(p.prio[u]) \in Int
    BY <2>1, PrioTypes, NewPrio, Zenon
  <2> HIDE DEF n
  <2>3. InPriorityOrder(p'.waitq[m], p'.prio)
    BY <2>1, <1>b, OwnerNotWaiting, Zenon
  <2>4. p'.prio[o] <= n /\ p'.prio[o] <= p.prio[o]
    BY <2>1, <2>2
  <2>5. ASSUME NEW u \in Threads, p'.pended_on[u] = m
        PROVE  p'.prio[o] <= z_get_new_prio_with_ceiling(p'.prio[u])
    <3>1. u # o /\ p'.prio[u] = p.prio[u]
      BY <1>c, <2>1, <2>5, Zenon
    <3>2. p'.prio[o] \in Int
      BY <2>1, <2>2, Zenon
    <3>3. CASE u = t
      BY <2>2, <2>4, <3>1, <3>2, <3>3, SMTT(40)
    <3>4. CASE u # t
      <4>1. p.prio[o] <= z_get_new_prio_with_ceiling(p.prio[u])
        BY <1>b, <2>1, <2>5, <3>4, Zenon
      <4> QED BY <2>2, <2>4, <3>1, <3>2, <4>1, SMTT(40)
    <3> QED BY <3>3, <3>4, Zenon
  <2> QED BY <2>1, <2>3, <2>5, Zenon
<1>4. ASSUME NEW t \in Threads, NEW m \in Mutexes, m = pc[t].mutex, LockTimedOut(t)
      PROVE  Owned(m)
  <2> DEFINE o == owner[m]
             w == z_priq_dumb_best(p.waitq[m])
  <2>1. /\ owner' = owner /\ p'.waitq = p.waitq /\ p'.pended_on = p.pended_on
        /\ \A u \in Threads : p'.prio[u] = IF u = o THEN DownPrio(m) ELSE p.prio[u]
    BY <1>4, TimedOutLowers, Zenon
  <2>2. InPriorityOrder(p'.waitq[m], p'.prio)
    BY <2>1, <1>b, OwnerNotWaiting, Zenon
  <2>3. ASSUME NEW u \in Threads, p.pended_on[u] = m
        PROVE  p'.prio[o] <= z_get_new_prio_with_ceiling(p'.prio[u])
    <3>1. m \in Objects /\ o \in Threads /\ u # o /\ p.waitq[m] # <<>>
      BY <1>c, <2>3, MutexTypes, WaitqEmpty, SMTT(40)
    <3>2. w \in Threads /\ p.prio[w] <= p.prio[u]
      BY <1>b, <2>3, <3>1, MutexTypes, WaitqHead, Zenon
    <3>3. p'.prio[o] = new_prio_for_inheritance(p.prio[w], owner_orig_prio[m])
      BY <2>1, <3>1, Zenon DEF DownPrio
    <3> HIDE DEF w, o
    <3>4. /\ p'.prio[o] <= z_get_new_prio_with_ceiling(p.prio[w])
          /\ z_get_new_prio_with_ceiling(p.prio[w]) <= z_get_new_prio_with_ceiling(p.prio[u])
          /\ p'.prio[o] \in Int /\ z_get_new_prio_with_ceiling(p.prio[w]) \in Int
          /\ z_get_new_prio_with_ceiling(p.prio[u]) \in Int
      BY <3>2, <3>3, PrioTypes, NewPrio
    <3>5. p'.prio[u] = p.prio[u]
      BY <2>1, <3>1, Zenon
    <3> QED BY <3>4, <3>5
  <2> QED BY <2>1, <2>2, <2>3, Zenon
<1>5. ASSUME NEW t \in Threads, NEW m \in Mutexes, ~(lock_count[m] > 1),
             k_mutex_unlock(t, m) \/ \E cv \in Condvars : k_condvar_wait(t, cv, m)
      PROVE  Owned(m)
  <2>1. /\ owner[m] = t
        /\ \A u \in Threads :
              /\ p'.prio[u] = IF u = t THEN owner_orig_prio[m] ELSE p.prio[u]
              /\ p'.pended_on[u] \in {p.pended_on[u], NULL}
        /\ InPriorityOrder(p.waitq[m], p'.prio) => InPriorityOrder(p'.waitq[m], p'.prio)
        /\ \/ owner'[m] = NULL /\ \A u \in Threads : p.pended_on[u] # m
           \/ /\ owner'[m] \in Threads
              /\ InPriorityOrder(p.waitq[m], p'.prio) =>
                    \A u \in Threads : p.pended_on[u] = m => p'.prio[owner'[m]] <= p'.prio[u]
    BY <1>5, LastUnlock, SMTT(40)
  <2>2. InPriorityOrder(p.waitq[m], p'.prio)
    BY <2>1, <1>b, OwnerNotWaiting, Zenon
  <2>3. ASSUME NEW u \in Threads, p'.pended_on[u] = m
        PROVE  p'.prio[owner'[m]] <= z_get_new_prio_with_ceiling(p'.prio[u])
    <3>1. p.pended_on[u] = m /\ p'.prio[owner'[m]] <= p'.prio[u]
      BY <2>1, <2>2, <2>3, MutexTypes, Zenon
    <3>2. u # t
      BY <1>c, <2>1, <3>1, Zenon
    <3>3. p'.prio[u] \in Prios
      BY <2>1, <3>2, PrioTypes, Zenon
    <3>4. owner'[m] \in Threads
      BY <2>1, <3>1, Zenon
    <3>5. p'.prio[owner'[m]] \in Int /\ p'.prio[u] \in Int
      <4>1. p' \in Pending
        BY Zenon DEF MutexInv, Sound
      <4> QED BY <3>4, <4>1, PendTypes, Zenon
    <3>6. /\ p'.prio[u] <= z_get_new_prio_with_ceiling(p'.prio[u])
          /\ z_get_new_prio_with_ceiling(p'.prio[u]) \in Int
      BY <3>3, NewPrio, PrioTypes, Zenon
    <3> QED BY <3>1, <3>5, <3>6, SMTT(40)
  <2> QED BY <2>1, <2>2, <2>3, ZenonT(40)
<1> HIDE DEF Owned
<1>6. ASSUME NEW m \in Mutexes, Owned(m) PROVE InheritInv'
  BY <1>6, <1>a, Zenon DEF OneMutex
<1>7. ASSUME NEW t \in Threads, LockTimedOut(t) PROVE InheritInv'
  <2>1. pc[t].mutex \in Mutexes
    BY <1>7, TimedOutLowers, Zenon
  <2> QED BY <1>4, <1>6, <1>7, <2>1, Zenon
<1> QED BY <1>1, <1>2, <1>3, <1>5, <1>6, <1>7, NextSplit, Zenon

\* Threads that use one mutex: none waits for it while its owner has a lower
\* priority, up to the ceiling; k_mutex_lock() raises the owner, and neither a
\* waiter that times out nor the hand-over of k_mutex_unlock() leaves an owner too
\* low.
THEOREM OwnerInheritsCorrect ==
    ASSUME ~SMP, OneMutex
    PROVE  Spec => []OwnerInherits
<1>1. ASSUME Init PROVE InheritInv
  <2>1. /\ \A w \in Objects : p.waitq[w] = <<>>
        /\ \A u \in Threads, m \in Mutexes : p.pended_on[u] # m
    <3>1. MutexInv /\ \A w \in Objects : p.waitq[w] = <<>>
      BY <1>1, InitInv, InitSound, Zenon DEF Init
    <3> QED BY <3>1, MutexTypes, FreeMutex, SMTT(40)
  <2>2. \A m \in Mutexes : m \in Objects
    BY MutexAssumption, Zenon
  <2> QED BY <2>1, <2>2 DEF InheritInv, InPriorityOrder
<1>2. MutexInv /\ MutexInv' /\ InheritInv /\ [Next]_vars => InheritInv'
  BY InheritStep, Zenon
<1>3. ASSUME MutexInv, InheritInv PROVE OwnerInherits
  <2>1. \A m \in Mutexes, t \in Threads : OnQueue(p.waitq[m], t) => p.pended_on[t] = m
    BY <1>3, MutexTypes, Zenon DEF Sound
  <2> QED BY <1>3, <2>1, Zenon DEF InheritInv, OwnerInherits
<1> QED BY <1>1, <1>2, <1>3, MutexInvariant, PTL DEF Spec

\* The priority saved in the mutex is its owner's own, and a thread that runs at
\* another one owns the mutex and has it from another thread, which waits for it
\* or has timed out and not lowered it yet.
CauseInv ==
    /\ \A m \in Mutexes : owner[m] # NULL => owner_orig_prio[m] = base[owner[m]]
    /\ \A t \in Threads : p.prio[t] # base[t] =>
          \E m \in Mutexes, u \in Threads :
             /\ owner[m] = t /\ u # t
             /\ p.prio[t] = z_get_new_prio_with_ceiling(p.prio[u])
             /\ pc[u].at \in {"locking", "timedout"} /\ pc[u].mutex = m

\* Every step keeps a cause for each raised priority.
LEMMA CauseStep ==
    ASSUME OneMutex, NobodyAboveCeiling, MutexInv, CauseInv, ~SMP, [Next]_vars
    PROVE  CauseInv'
<1>a. /\ \A m \in Mutexes : owner[m] # NULL => owner_orig_prio[m] = base[owner[m]]
      /\ \A t \in Threads : p.prio[t] # base[t] =>
            \E m \in Mutexes, u \in Threads :
               /\ owner[m] = t /\ u # t
               /\ p.prio[t] = z_get_new_prio_with_ceiling(p.prio[u])
               /\ pc[u].at \in {"locking", "timedout"} /\ pc[u].mutex = m
  BY Zenon DEF CauseInv
<1>b. \A m \in Mutexes, t \in Threads : t # owner[m] => p.prio[t] = base[t]
  BY <1>a DEF OneMutex
<1>1. CASE Quiet
  <2>1. /\ p'.prio = p.prio /\ owner' = owner /\ owner_orig_prio' = owner_orig_prio
        /\ base' = base
        /\ \A t \in Threads : pc[t].at \in {"locking", "timedout"} =>
              \/ pc'[t].at \in {"locking", "timedout"} /\ pc'[t].mutex = pc[t].mutex
              \/ owner[pc[t].mutex] = t
    BY <1>1, Zenon DEF Quiet
  <2>2. ASSUME NEW t \in Threads, p.prio[t] # base[t]
        PROVE  \E m \in Mutexes, u \in Threads :
                  /\ owner[m] = t /\ u # t
                  /\ p.prio[t] = z_get_new_prio_with_ceiling(p.prio[u])
                  /\ pc'[u].at \in {"locking", "timedout"} /\ pc'[u].mutex = m
    BY <1>a, <2>1, <2>2
  <2> QED BY <1>a, <2>1, <2>2 DEF CauseInv
<1>2. ASSUME NEW t \in Threads, NEW m \in Mutexes, k_mutex_lock(t, m), lock_count[m] = 0
      PROVE  CauseInv'
  <2>1. /\ p' = p /\ base' = base /\ owner[m] = NULL /\ owner'[m] = t
        /\ owner_orig_prio'[m] = p.prio[t]
    BY <1>2, FirstLock
  <2>2. \A u \in Threads : p.prio[u] = base[u]
    BY <1>b, <2>1, PrioTypes, Zenon
  <2>3. \A n \in Mutexes : n = m
    BY Zenon DEF OneMutex
  <2> QED BY <2>1, <2>2, <2>3, Zenon DEF CauseInv
<1>3. ASSUME NEW t \in Threads, NEW m \in Mutexes, NEW wait \in Waits, LockPend(t, m, wait)
      PROVE  CauseInv'
  <2> DEFINE o == owner[m]
             n == new_prio_for_inheritance(p.prio[t], p.prio[o])
  <2>1. /\ o \in Threads /\ o # t /\ owner' = owner /\ base' = base
        /\ owner_orig_prio' = owner_orig_prio
        /\ \A u \in Threads : p'.prio[u] = IF u = o /\ n < p.prio[o] THEN n ELSE p.prio[u]
        /\ pc'[t].at = "locking" /\ pc'[t].mutex = m
        /\ \A u \in Threads : u # t => pc'[u] = pc[u]
    BY <1>3, LockRaises, SMTT(40)
  <2>2. pc[t].at \in {"running", "relock"}
    BY <1>3, MayLockNotGiven, Zenon DEF LockPend, MayLock
  <2>3. /\ p.prio[o] \in Int /\ n \in Int
        /\ n = z_get_new_prio_with_ceiling(p.prio[t]) \/ n = p.prio[o]
    BY <2>1, PrioTypes, NewPrio DEF NobodyAboveCeiling
  <2> HIDE DEF n
  <2>4. ASSUME NEW u \in Threads, p'.prio[u] # base[u]
        PROVE  \E x \in Mutexes, y \in Threads :
                  /\ owner[x] = u /\ y # u
                  /\ p'.prio[u] = z_get_new_prio_with_ceiling(p'.prio[y])
                  /\ pc'[y].at \in {"locking", "timedout"} /\ pc'[y].mutex = x
    <3>1. CASE n < p.prio[o]
      <4>1. u = o
        BY <1>b, <2>1, <2>4, ZenonT(40)
      <4>2. p'.prio[t] = p.prio[t] /\ p'.prio[u] = z_get_new_prio_with_ceiling(p.prio[t])
        BY <2>1, <2>3, <3>1, <4>1
      <4> QED BY <2>1, <4>1, <4>2, Zenon
    <3>2. CASE ~(n < p.prio[o])
      <4>1. \A v \in Threads : p'.prio[v] = p.prio[v]
        BY <2>1, <3>2, Zenon
      <4>2. PICK x \in Mutexes, y \in Threads :
                  /\ owner[x] = u /\ y # u
                  /\ p.prio[u] = z_get_new_prio_with_ceiling(p.prio[y])
                  /\ pc[y].at \in {"locking", "timedout"} /\ pc[y].mutex = x
        BY <1>a, <2>4, <4>1, Zenon
      <4>3. y # t
        BY <2>2, <4>2, Zenon
      <4> QED BY <2>1, <4>1, <4>2, <4>3, Zenon
    <3> QED BY <3>1, <3>2, Zenon
  <2>5. \A x \in Mutexes : owner'[x] # NULL => owner_orig_prio'[x] = base'[owner'[x]]
    BY <1>a, <2>1, ZenonT(40)
  <2> QED BY <2>1, <2>4, <2>5, SMTT(40) DEF CauseInv
<1>4. ASSUME NEW t \in Threads, NEW m \in Mutexes, m = pc[t].mutex, LockTimedOut(t)
      PROVE  CauseInv'
  <2> DEFINE o == owner[m]
             w == z_priq_dumb_best(p.waitq[m])
  <2>1. /\ owner' = owner /\ base' = base /\ owner_orig_prio' = owner_orig_prio
        /\ \A u \in Threads : p'.prio[u] = IF u = o THEN DownPrio(m) ELSE p.prio[u]
        /\ \A u \in Threads : u # t => pc'[u] = pc[u]
        /\ p.pended_on[t] = NULL /\ m \in Objects /\ m # NULL
    BY <1>4, TimedOutLowers, MutexTypes
  <2>2. ASSUME NEW u \in Threads, p'.prio[u] # base[u]
        PROVE  \E x \in Mutexes, y \in Threads :
                  /\ owner[x] = u /\ y # u
                  /\ p'.prio[u] = z_get_new_prio_with_ceiling(p'.prio[y])
                  /\ pc'[y].at \in {"locking", "timedout"} /\ pc'[y].mutex = x
    <3>1. u = o /\ p'.prio[u] = DownPrio(m) /\ owner_orig_prio[m] = base[u]
      BY <1>a, <1>b, <2>1, <2>2, PrioTypes, SMTT(40)
    <3>2. p.waitq[m] # <<>>
      BY <2>2, <3>1, Zenon DEF DownPrio
    <3>3. w \in Threads /\ p.pended_on[w] = m
      BY <2>1, <3>2, MutexTypes, WaitqHead, SMTT(40)
    <3>4. p'.prio[u] = new_prio_for_inheritance(p.prio[w], owner_orig_prio[m])
      BY <3>1, <3>2, Zenon DEF DownPrio
    <3> HIDE DEF w, o
    <3>5. /\ w # u /\ w # t /\ p'.prio[w] = p.prio[w]
      BY <2>1, <3>1, <3>3, OwnerNotWaiting, Zenon DEF o
    <3>6. pc[w].at = "locking" /\ pc[w].mutex = m
      <4>1. pc[w] = [at |-> "locking", mutex |-> m]
        BY <3>3, Zenon DEF MutexInv, PcInv
      <4> QED BY <4>1
    <3>7. p'.prio[u] = z_get_new_prio_with_ceiling(p.prio[w])
      <4>1. p.prio[w] \in Prios /\ owner_orig_prio[m] \in Prios
        BY <3>3, PrioTypes, Zenon
      <4>2. PRIORITY_CEILING <= owner_orig_prio[m]
        BY <4>1, Zenon DEF NobodyAboveCeiling
      <4>3. z_get_new_prio_with_ceiling(owner_orig_prio[m]) = base[u]
        BY <3>1, <4>1, <4>2, NewPrio, Zenon
      <4> QED BY <2>2, <3>4, <4>1, <4>3, NewPrio, Zenon
    <3>8. pc'[w] = pc[w] /\ owner[m] = u
      BY <2>1, <3>1, <3>3, <3>5, Zenon DEF o
    <3> QED BY <3>3, <3>5, <3>6, <3>7, <3>8, ZenonT(40)
  <2>3. \A x \in Mutexes : owner'[x] # NULL => owner_orig_prio'[x] = base'[owner'[x]]
    BY <1>a, <2>1, Zenon
  <2> QED BY <2>1, <2>2, <2>3, SMTT(40) DEF CauseInv
<1>5. ASSUME NEW t \in Threads, NEW m \in Mutexes, ~(lock_count[m] > 1),
             k_mutex_unlock(t, m) \/ \E cv \in Condvars : k_condvar_wait(t, cv, m)
      PROVE  CauseInv'
  <2>1. /\ owner[m] = t /\ base' = base
        /\ \A u \in Threads : p'.prio[u] = IF u = t THEN owner_orig_prio[m] ELSE p.prio[u]
        /\ \/ owner'[m] = NULL
           \/ owner'[m] \in Threads /\ owner_orig_prio'[m] = p'.prio[owner'[m]]
    BY <1>5, LastUnlock, SMTT(40)
  <2>2. \A u \in Threads : p'.prio[u] = base[u]
    BY <1>a, <1>b, <2>1, PrioTypes
  <2>3. \A n \in Mutexes : n = m
    BY DEF OneMutex
  <2> QED BY <2>1, <2>2, <2>3, ZenonT(40) DEF CauseInv
<1>6. ASSUME NEW t \in Threads, LockTimedOut(t) PROVE CauseInv'
  <2>1. pc[t].mutex \in Mutexes
    BY <1>6, TimedOutLowers, Zenon
  <2> QED BY <1>4, <1>6, <2>1, Zenon
<1> QED BY <1>1, <1>2, <1>3, <1>5, <1>6, NextSplit, Zenon

\* Threads that use one mutex, none of them above CONFIG_PRIORITY_CEILING: a
\* raised priority has a cause and ends with it, at the unlock, or when the last
\* thread that called for it has timed out and lowered it.
THEOREM BoostHasCauseCorrect ==
    ASSUME ~SMP, OneMutex, NobodyAboveCeiling
    PROVE  Spec => []BoostHasCause
<1>1. ASSUME Init PROVE CauseInv
  <2>1. p.prio = base
    BY <1>1, InitSound, Zenon DEF Init
  <2> QED BY <1>1, <2>1, Zenon DEF Init, CauseInv
<1>2. MutexInv /\ CauseInv /\ [Next]_vars => CauseInv'
  BY CauseStep, Zenon
<1>3. CauseInv => BoostHasCause
  BY DEF CauseInv, BoostHasCause
<1> QED BY <1>1, <1>2, <1>3, MutexInvariant, PTL DEF Spec
=============================================================================
