--------------------------- MODULE SchedUPProofs ----------------------------
(***************************************************************************)
(* For any number of threads, objects and priorities: without meta-IRQ     *)
(* priorities the scheduler of SchedUP keeps its queues exact and runs     *)
(* only threads that may run.                                              *)
(*                                                                         *)
(* A lemma for each operator of SchedUP says which fields it changes and   *)
(* how.  The inductive invariant of the scheduler and its layers follow,   *)
(* and that it holds initially and is kept action by action: by those that *)
(* wake a thread up, interrupts and the scheduler lock, by those that move *)
(* a thread on the ready queue (yield, time slice, timeout, change of      *)
(* priority) and by those that take the CPU from it (suspend, sleep, pend, *)
(* abort and the end of a thread).                                         *)
(***************************************************************************)
EXTENDS SchedUP, PriqProofs

Prevents == {"PENDING", "PRESTART", "DEAD", "SUSPENDED"}

\* the ready queue and the QUEUED flags agree
Linked(s) ==
    /\ NoDuplicates(s.runq)
    /\ InPriorityOrder(s.runq, s.prio)
    /\ \A t \in Threads : OnQueue(s.runq, t) <=> z_is_thread_queued(s, t)

\* t is queued exactly when it is ready
QueuedReady(s, t) == z_is_thread_queued(s, t) <=> z_is_thread_ready(s, t)

\* t's wait queue, flag and back pointer agree
Waits(s) ==
    /\ \A w \in Queues : NoDuplicates(s.waitq[w])
    /\ \A t \in Threads : "PENDING" \in s.state[t] <=> s.pended_on[t] # NULL
    /\ \A t \in Threads, w \in Queues :
          OnQueue(s.waitq[w], t) <=> s.pended_on[t] = w

\* what every operator relies on
Base(s) ==
    /\ s \in Kernel
    /\ Linked(s)
    /\ Waits(s)
    /\ s.metairq_preempted = NULL
    /\ s.state[Idle] = {}

\* the fields only a context switch and the choice of the next thread change
SameThreads(r, s) ==
    /\ r.state = s.state /\ r.prio = s.prio /\ r.locks = s.locks
    /\ r.runq = s.runq /\ r.waitq = s.waitq /\ r.pended_on = s.pended_on
    /\ r.timeout = s.timeout /\ r.in_isr = s.in_isr /\ r.ending = s.ending
    /\ r.metairq_preempted = s.metairq_preempted

\* NULL is neither a thread nor a queue, and the idle thread is no thread object.
LEMMA QueuesTypes ==
    /\ NULL \notin Threads /\ NULL \notin Queues /\ NULL \notin Runnables
    /\ Idle \in Runnables /\ Threads \subseteq Runnables
    /\ Threads \subseteq Queues /\ Idle \notin Threads
BY ThreadAssumption, Zenon DEF Queues, Runnables

\* Priorities are integers, so z_sched_prio_cmp() orders them.
LEMMA PrioTypes ==
    ASSUME NEW s \in Kernel, NEW t \in Runnables
    PROVE  s.prio[t] \in Int /\ s.prio[t] >= -NumCoop
<1>1. s.prio[t] \in Prios \cup {NumPreempt}
  BY Zenon DEF Kernel
<1> QED BY <1>1, PrioAssumption DEF Prios

\* Without meta-IRQ priorities no priority is one.
LEMMA NoMetairq ==
    ASSUME NumMetairq = 0, NEW s \in Kernel, NEW t \in Runnables
    PROVE  ~is_metairq(s, t)
BY PrioTypes, PrioAssumption DEF is_metairq

\* What the base invariant says depends only on the threads' own fields.
LEMMA SameThreadsBase ==
    ASSUME NEW s, NEW r \in Kernel, Base(s), SameThreads(r, s)
    PROVE  Base(r)
BY DEF Base, SameThreads, Linked, Waits, z_is_thread_queued

\* z_reset_time_slice() changes nothing but the slice.
LEMMA ResetTimeSlice ==
    ASSUME NEW s \in Kernel, NEW t \in Runnables
    PROVE  LET r == z_reset_time_slice(s, t)
           IN  /\ r \in Kernel /\ SameThreads(r, s)
               /\ r.current = s.current /\ r.cache = s.cache
<1>1. sliceable(s, t) \in BOOLEAN
  BY Zenon DEF sliceable
<1> QED BY ZenonT(40), <1>1 DEF z_reset_time_slice, Kernel, SameThreads

\* no queued thread has a higher priority than t
IsBest(s, t) == \A u \in Threads : z_is_thread_queued(s, u) => s.prio[t] <= s.prio[u]

\* The next thread is the head of the ready queue, which is the best one, or
\* the idle thread when nothing is queued.
LEMMA NextUp ==
    ASSUME NEW s, Base(s)
    PROVE  /\ NextUpPreempted(s) = NULL
           /\ next_up(s) = Idle \/ (next_up(s) \in Threads /\ z_is_thread_queued(s, next_up(s)))
           /\ IsBest(s, next_up(s))
<1>1. s.runq \in Seq(Threads)
  BY Zenon DEF Base, Kernel
<1>2. CASE s.runq = <<>>
  <2>1. \A u \in Threads : ~z_is_thread_queued(s, u)
    BY <1>2 DEF Base, Linked, OnQueue
  <2> QED BY <1>2, <2>1, Zenon DEF Base, next_up, NextUpPreempted, MetairqReturns, runq_best,
             IsBest
<1>3. CASE s.runq # <<>>
  <2>1. 1 \in 1 .. Len(s.runq) /\ s.runq[1] \in Threads
    BY <1>1, <1>3
  <2>2. z_is_thread_queued(s, s.runq[1])
    BY <2>1, Zenon DEF Base, Linked, OnQueue
  <2>3. runq_best(s) = s.runq[1] /\ runq_best(s) # NULL
    BY <1>3, <2>1, QueuesTypes, Zenon DEF runq_best, z_priq_dumb_best
  <2>4. next_up(s) = s.runq[1] /\ NextUpPreempted(s) = NULL
    BY <2>3, Zenon DEF Base, next_up, NextUpPreempted, MetairqReturns
  <2>5. ASSUME NEW u \in Threads, z_is_thread_queued(s, u)
        PROVE  s.prio[s.runq[1]] <= s.prio[u]
    <3>1. PICK i \in 1 .. Len(s.runq) : s.runq[i] = u
      BY <2>5, Zenon DEF Base, Linked, OnQueue
    <3>2. CASE i = 1
      <4>1. s.prio[u] \in Int
        BY PrioTypes, QueuesTypes, Zenon DEF Base
      <4> QED BY <3>1, <3>2, <4>1
    <3>3. CASE i # 1
      BY <1>1, <2>1, <3>1, <3>3 DEF Base, Linked, InPriorityOrder
    <3> QED BY <3>2, <3>3, Zenon
  <2> QED BY <2>1, <2>2, <2>4, <2>5, Zenon DEF IsBest
<1> QED BY <1>2, <1>3, Zenon

\* update_cache() changes the cache and the time slice only.  It caches the
\* best queued thread, the idle thread if none is queued or, when it may not
\* preempt, the current thread if that may run.
LEMMA UpdateCache ==
    ASSUME NumMetairq = 0, NEW s, Base(s), NEW preempt_ok \in BOOLEAN
    PROVE  LET r == update_cache(s, preempt_ok)
           IN  /\ r \in Kernel /\ SameThreads(r, s) /\ r.current = s.current
               /\ \/ r.cache = Idle
                  \/ r.cache \in Threads /\ z_is_thread_queued(s, r.cache)
                  \/ /\ r.cache = s.current /\ ~preempt_ok
                     /\ ~z_is_thread_prevented_from_running(s, s.current)
               /\ \/ IsBest(s, r.cache)
                  \/ r.cache = s.current /\ ~preempt_ok /\ ~is_preempt(s, s.current)
<1> DEFINE t == next_up(s)
           n == [s EXCEPT !.metairq_preempted = NextUpPreempted(s)]
           r0 == IF t # s.current THEN z_reset_time_slice(n, t) ELSE n
           r == update_cache(s, preempt_ok)
<1>1. /\ NextUpPreempted(s) = NULL
      /\ t = Idle \/ (t \in Threads /\ z_is_thread_queued(s, t))
      /\ IsBest(s, t)
  BY NextUp, Zenon
<1>2. t \in Runnables /\ s \in Kernel /\ s.metairq_preempted = NULL
  BY <1>1, Zenon DEF Runnables, Base
<1>3. n \in Kernel /\ SameThreads(n, s) /\ n.current = s.current /\ n.cache = s.cache
  BY <1>1, <1>2, Zenon DEF Kernel, SameThreads
<1>4. r0 \in Kernel /\ SameThreads(r0, s) /\ r0.current = s.current
  <2> HIDE DEF n, t
  <2>1. CASE t # s.current
    BY <1>2, <1>3, <2>1, ResetTimeSlice, Zenon DEF SameThreads
  <2> QED BY <1>3, <2>1, Zenon
<1>5. update_metairq_preempt(n, t) = NULL
  <2> HIDE DEF n, t
  <2>1. ~is_metairq(n, t)
    BY <1>2, <1>3, NoMetairq, Zenon
  <2> QED BY <1>2, <1>3, <2>1, Zenon DEF update_metairq_preempt, SameThreads
<1>6. CASE should_preempt(n, t, preempt_ok)
  <2>1. r = [r0 EXCEPT !.metairq_preempted = update_metairq_preempt(n, t), !.cache = t]
    BY <1>6, Zenon DEF update_cache
  <2> HIDE DEF r0, n, t, r
  <2>2. r \in Kernel /\ SameThreads(r, s) /\ r.current = s.current /\ r.cache = t
    BY ZenonT(40), <1>2, <1>4, <1>5, <2>1 DEF Kernel, SameThreads
  <2> QED BY <1>1, <2>2, Zenon DEF r
<1>7. CASE ~should_preempt(n, t, preempt_ok)
  <2>1. r = [n EXCEPT !.cache = s.current]
    BY <1>7, Zenon DEF update_cache
  <2>2. /\ ~preempt_ok /\ ~z_is_thread_prevented_from_running(s, s.current)
        /\ ~is_preempt(s, s.current)
    BY <1>3, <1>7, Zenon DEF should_preempt, z_is_thread_prevented_from_running, is_preempt,
       SameThreads
  <2> HIDE DEF r0, n, t, r
  <2>3. r \in Kernel /\ SameThreads(r, s) /\ r.current = s.current /\ r.cache = s.current
    BY ZenonT(40), <1>2, <1>3, <2>1 DEF Kernel, SameThreads
  <2> QED BY <2>2, <2>3, Zenon DEF r
<1> QED BY <1>6, <1>7, Zenon

\* what changes on the ready queue, and nothing else
OnlyQueue(r, s) ==
    /\ r.prio = s.prio /\ r.locks = s.locks /\ r.waitq = s.waitq
    /\ r.pended_on = s.pended_on /\ r.timeout = s.timeout
    /\ r.in_isr = s.in_isr /\ r.ending = s.ending
    /\ r.current = s.current /\ r.cache = s.cache

\* The types of a thread's flags and of the ready queue.
LEMMA StateTypes ==
    ASSUME NEW s \in Kernel, NEW t \in Threads
    PROVE  /\ s.state \in [Runnables -> SUBSET Flags] /\ t \in Runnables
           /\ s.state[t] \in SUBSET Flags /\ Idle # t
           /\ s.runq \in Seq(Threads)
BY QueuesTypes, Zenon DEF Kernel

\* queue_thread() of a thread that is not queued links it in.
LEMMA QueueThread ==
    ASSUME NEW s, Base(s), NEW t \in Threads, ~z_is_thread_queued(s, t)
    PROVE  LET r == queue_thread(s, t)
           IN  /\ Base(r) /\ OnlyQueue(r, s)
               /\ r.state = [s.state EXCEPT ![t] = @ \cup {"QUEUED"}]
<1> DEFINE r == queue_thread(s, t)
           q == z_priq_dumb_add(s.runq, s.prio, t)
           st == [s.state EXCEPT ![t] = @ \cup {"QUEUED"}]
<1>1. s \in Kernel /\ Linked(s)
  BY Zenon DEF Base
<1>2. \A u \in Threads : s.prio[u] \in Int
  BY <1>1, PrioTypes, QueuesTypes, Zenon
<1>3. ~OnQueue(s.runq, t) /\ NoDuplicates(s.runq) /\ s.runq \in Seq(Threads)
  BY <1>1, StateTypes, Zenon DEF Linked
<1>4. /\ q \in Seq(Threads) /\ NoDuplicates(q)
      /\ \A u : OnQueue(q, u) <=> OnQueue(s.runq, u) \/ u = t
      /\ InPriorityOrder(q, s.prio)
  BY <1>1, <1>2, <1>3, AddProperties DEF Linked
<1>5. /\ st \in [Runnables -> SUBSET Flags] /\ st[Idle] = s.state[Idle]
      /\ \A u \in Threads : st[u] = IF u = t THEN s.state[t] \cup {"QUEUED"} ELSE s.state[u]
  BY <1>1, StateTypes, QueuesTypes, Zenon DEF Flags
<1>6. r = [s EXCEPT !.state = st, !.runq = q]
  BY <1>1, Zenon DEF queue_thread, Kernel
<1> HIDE DEF r, q, st
<1>7. /\ r \in Kernel /\ OnlyQueue(r, s) /\ r.state = st /\ r.runq = q
      /\ r.metairq_preempted = s.metairq_preempted
  BY ZenonT(40), <1>1, <1>4, <1>5, <1>6 DEF Kernel, OnlyQueue
<1>8. Linked(r)
  BY <1>1, <1>4, <1>5, <1>7 DEF Linked, z_is_thread_queued, OnlyQueue
<1>9. Waits(r)
  BY <1>5, <1>7 DEF Base, Waits, OnlyQueue
<1>10. r.state[Idle] = {}
  BY <1>5, <1>7, Zenon DEF Base
<1> QED BY <1>7, <1>8, <1>9, <1>10, Zenon DEF Base, r, st

\* dequeue_thread() of a queued thread unlinks it.
LEMMA DequeueThread ==
    ASSUME NEW s, Base(s), NEW t \in Threads, z_is_thread_queued(s, t)
    PROVE  LET r == dequeue_thread(s, t)
           IN  /\ Base(r) /\ OnlyQueue(r, s)
               /\ r.state = [s.state EXCEPT ![t] = @ \ {"QUEUED"}]
<1> DEFINE r == dequeue_thread(s, t)
           q == z_priq_dumb_remove(s.runq, t)
           st == [s.state EXCEPT ![t] = @ \ {"QUEUED"}]
<1>1. s \in Kernel /\ Linked(s)
  BY Zenon DEF Base
<1>3. OnQueue(s.runq, t) /\ NoDuplicates(s.runq) /\ s.runq \in Seq(Threads)
  BY <1>1, StateTypes, Zenon DEF Linked
<1>4. /\ q \in Seq(Threads) /\ NoDuplicates(q)
      /\ \A u : OnQueue(q, u) <=> OnQueue(s.runq, u) /\ u # t
      /\ InPriorityOrder(q, s.prio)
  BY <1>1, <1>3, RemoveProperties, Zenon DEF Linked
<1>5. /\ st \in [Runnables -> SUBSET Flags] /\ st[Idle] = s.state[Idle]
      /\ \A u \in Threads : st[u] = IF u = t THEN s.state[t] \ {"QUEUED"} ELSE s.state[u]
  BY <1>1, StateTypes, QueuesTypes, Zenon
<1>6. r = [s EXCEPT !.state = st, !.runq = q]
  BY <1>1, Zenon DEF dequeue_thread, Kernel
<1> HIDE DEF r, q, st
<1>7. /\ r \in Kernel /\ OnlyQueue(r, s) /\ r.state = st /\ r.runq = q
      /\ r.metairq_preempted = s.metairq_preempted
  BY ZenonT(40), <1>1, <1>4, <1>5, <1>6 DEF Kernel, OnlyQueue
<1>8. Linked(r)
  BY <1>1, <1>4, <1>5, <1>7, Zenon DEF Linked, z_is_thread_queued, OnlyQueue
<1>9. Waits(r)
  BY <1>5, <1>7 DEF Base, Waits, OnlyQueue
<1>10. r.state[Idle] = {}
  BY <1>5, <1>7, Zenon DEF Base
<1> QED BY <1>7, <1>8, <1>9, <1>10, Zenon DEF Base, r, st

\* Taking a thread off the ready queue if it is on it changes only that.
LEMMA DequeueQueued ==
    ASSUME NEW s, Base(s), NEW t \in Threads
    PROVE  LET r == DequeueIfQueued(s, t)
           IN  /\ Base(r) /\ OnlyQueue(r, s)
               /\ r.state = [s.state EXCEPT ![t] = @ \ {"QUEUED"}]
<1>1. CASE z_is_thread_queued(s, t)
  BY <1>1, DequeueThread, Zenon DEF DequeueIfQueued
<1>2. CASE ~z_is_thread_queued(s, t)
  <2>1. DequeueIfQueued(s, t) = s
    BY <1>2, Zenon DEF DequeueIfQueued
  <2>2. s.state \in [Runnables -> SUBSET Flags] /\ s.state[t] \ {"QUEUED"} = s.state[t]
    BY <1>2, StateTypes, Zenon DEF Base, z_is_thread_queued
  <2>3. s.state = [s.state EXCEPT ![t] = @ \ {"QUEUED"}]
    BY <2>2, Zenon
  <2> QED BY <2>1, <2>3, Zenon DEF OnlyQueue
<1> QED BY <1>1, <1>2, Zenon

\* Flags other than the two the queues depend on change freely.
LEMMA SetFlags ==
    ASSUME NEW s, Base(s), NEW t \in Threads, NEW x \in SUBSET Flags,
           \A f \in {"QUEUED", "PENDING"} : f \in x <=> f \in s.state[t]
    PROVE  LET r == [s EXCEPT !.state[t] = x]
           IN  /\ Base(r) /\ OnlyQueue(r, s)
               /\ r.state = [s.state EXCEPT ![t] = x] /\ r.runq = s.runq
<1> DEFINE r == [s EXCEPT !.state[t] = x]
           st == [s.state EXCEPT ![t] = x]
<1>1. s \in Kernel /\ Linked(s)
  BY Zenon DEF Base
<1>5. /\ st \in [Runnables -> SUBSET Flags] /\ st[Idle] = s.state[Idle]
      /\ \A u \in Threads : st[u] = IF u = t THEN x ELSE s.state[u]
  BY <1>1, StateTypes, QueuesTypes, Zenon
<1>6. r = [s EXCEPT !.state = st]
  BY <1>1, Zenon DEF Kernel
<1> HIDE DEF r, st
<1>7. /\ r \in Kernel /\ OnlyQueue(r, s) /\ r.state = st /\ r.runq = s.runq
      /\ r.metairq_preempted = s.metairq_preempted
  BY ZenonT(40), <1>1, <1>5, <1>6 DEF Kernel, OnlyQueue
<1>8. Linked(r)
  BY <1>1, <1>5, <1>7, Zenon DEF Linked, z_is_thread_queued, OnlyQueue
<1>9. Waits(r)
  BY <1>5, <1>7 DEF Base, Waits, OnlyQueue
<1>10. r.state[Idle] = {}
  BY <1>5, <1>7, Zenon DEF Base
<1> QED BY <1>7, <1>8, <1>9, <1>10, Zenon DEF Base, r, st

\* The cached thread is the one to run next: the best of the queued ones, or
\* the current thread while it may not be preempted.
CachedBest(s) ==
    \/ IsBest(s, s.cache)
    \/ s.cache = s.current /\ ~is_preempt(s, s.current)

\* Whether it is depends on these fields.
LEMMA SameCachedBest ==
    ASSUME NEW s, NEW r, CachedBest(s), r.prio = s.prio, r.locks = s.locks,
           r.cache = s.cache, r.current = s.current,
           \A u \in Threads : z_is_thread_queued(r, u) => z_is_thread_queued(s, u)
    PROVE  CachedBest(r)
BY Zenon DEF CachedBest, IsBest, is_preempt

\* no thread changes but in its QUEUED flag
Keeps(r, s) ==
    /\ r.waitq = s.waitq /\ r.pended_on = s.pended_on /\ r.timeout = s.timeout
    /\ r.in_isr = s.in_isr /\ r.ending = s.ending /\ r.current = s.current
    /\ \A u \in Runnables, f \in Prevents : f \in r.state[u] <=> f \in s.state[u]

\* ready_thread() leaves every thread queued exactly when it is ready, and a
\* cached thread that may run.
LEMMA ReadyThread ==
    ASSUME NumMetairq = 0, NEW s, Base(s), NEW t \in Threads,
           \A u \in Threads \ {t} : QueuedReady(s, u),
           z_is_thread_queued(s, t) => z_is_thread_ready(s, t),
           s.current \notin s.timeout
    PROVE  LET r == ready_thread(s, t)
           IN  /\ Base(r) /\ \A u \in Threads : QueuedReady(r, u)
               /\ Keeps(r, s)
               /\ \A u \in Runnables : z_is_thread_ready(r, u) <=> z_is_thread_ready(s, u)
               /\ z_is_thread_ready(s, s.cache) => z_is_thread_ready(r, r.cache)
               /\ CachedBest(s) => CachedBest(r)
<1>1. CASE ~(~z_is_thread_queued(s, t) /\ z_is_thread_ready(s, t))
  BY ZenonT(40), <1>1 DEF ready_thread, QueuedReady, Keeps
<1>2. CASE ~z_is_thread_queued(s, t) /\ z_is_thread_ready(s, t)
  <2> DEFINE n == queue_thread(s, t)
             r == update_cache(n, FALSE)
  <2>1. /\ Base(n) /\ OnlyQueue(n, s)
        /\ n.state = [s.state EXCEPT ![t] = @ \cup {"QUEUED"}]
    BY <1>2, QueueThread, Zenon
  <2>2. ready_thread(s, t) = r
    BY <1>2, Zenon DEF ready_thread
  <2> HIDE DEF n
  <2>3. /\ r \in Kernel /\ SameThreads(r, n) /\ r.current = n.current
        /\ \/ r.cache = Idle
           \/ r.cache \in Threads /\ z_is_thread_queued(n, r.cache)
           \/ /\ r.cache = n.current
              /\ ~z_is_thread_prevented_from_running(n, n.current)
        /\ IsBest(n, r.cache) \/ (r.cache = n.current /\ ~is_preempt(n, n.current))
    BY ZenonT(40), <2>1, UpdateCache
  <2> HIDE DEF r
  <2>4. Base(r)
    BY <2>1, <2>3, SameThreadsBase, Zenon
  <2>5. s.state \in [Runnables -> SUBSET Flags] /\ t \in Runnables
    BY StateTypes, Zenon DEF Base
  <2>6. \A u \in Runnables : z_is_thread_ready(n, u) <=> z_is_thread_ready(s, u)
    BY <2>1, <2>5, Zenon DEF z_is_thread_ready, z_is_thread_prevented_from_running, OnlyQueue
  <2>7. \A u \in Runnables : z_is_thread_ready(r, u) <=> z_is_thread_ready(n, u)
    BY <2>3, Zenon DEF z_is_thread_ready, z_is_thread_prevented_from_running, SameThreads
  <2>8. \A u \in Threads : QueuedReady(n, u)
    <3> SUFFICES ASSUME NEW u \in Threads PROVE QueuedReady(n, u)
      BY Zenon
    <3>1. u \in Runnables
      BY QueuesTypes, Zenon
    <3>2. CASE u = t
      BY <1>2, <2>1, <2>5, <2>6, <3>1, <3>2, Zenon DEF QueuedReady, z_is_thread_queued
    <3>3. CASE u # t
      BY <2>1, <2>5, <2>6, <3>1, <3>3, Zenon DEF QueuedReady, z_is_thread_queued
    <3> QED BY <3>2, <3>3, Zenon
  <2>9. \A u \in Threads : QueuedReady(r, u)
    BY <2>3, <2>7, <2>8, QueuesTypes, Zenon DEF QueuedReady, z_is_thread_queued, SameThreads
  <2>10. z_is_thread_ready(n, r.cache)
    <3>1. CASE r.cache = Idle
      BY ZenonT(40), <2>1, <3>1, QueuesTypes DEF Base, Kernel, z_is_thread_ready,
         z_is_thread_prevented_from_running
    <3>2. CASE r.cache \in Threads /\ z_is_thread_queued(n, r.cache)
      BY <2>8, <3>2, Zenon DEF QueuedReady
    <3>3. CASE r.cache = n.current /\ ~z_is_thread_prevented_from_running(n, n.current)
      BY <2>1, <3>3, Zenon DEF z_is_thread_ready, OnlyQueue
    <3> QED BY <2>3, <3>1, <3>2, <3>3, Zenon
  <2>11. r.cache \in Runnables
    BY <2>3, Zenon DEF Kernel
  <2>12. Keeps(r, s)
    <3>1. \A u \in Runnables, f \in Prevents : f \in n.state[u] <=> f \in s.state[u]
      BY <2>1, <2>5, Zenon DEF Prevents
    <3> QED BY <2>1, <2>3, <3>1, Zenon DEF SameThreads, OnlyQueue, Keeps
  <2>13. CachedBest(r)
    BY <2>3, Zenon DEF CachedBest, IsBest, is_preempt, z_is_thread_queued, SameThreads
  <2> QED BY <2>2, <2>4, <2>6, <2>7, <2>9, <2>10, <2>11, <2>12, <2>13, Zenon
<1> QED BY <1>1, <1>2, Zenon

-----------------------------------------------------------------------------
Forgotten(s) ==
    \A t \in Threads : "DEAD" \in s.state[t] =>
        /\ s.pended_on[t] = NULL
        /\ t \notin s.timeout
        /\ s.ending # t => s.waitq[t] = <<>>

EndingDead(s) == s.ending # NULL => "DEAD" \in s.state[s.ending]

\* between two calls, but for the current thread
Settled(s) ==
    /\ Base(s) /\ Forgotten(s) /\ EndingDead(s)
    /\ \A t \in Threads : QueuedReady(s, t)
    /\ s.ending = NULL => z_is_thread_ready(s, s.cache) /\ CachedBest(s)

\* the inductive invariant
IInv(s) ==
    /\ Settled(s)
    /\ s.current \notin s.timeout
    /\ ~s.in_isr /\ s.ending # s.current => z_is_thread_ready(s, s.current)

\* A step that keeps flags, queues and timeouts keeps what holds of dead threads.
LEMMA KeepsForgotten ==
    ASSUME NEW r \in Kernel, NEW s, Keeps(r, s), Forgotten(s), EndingDead(s)
    PROVE  Forgotten(r) /\ EndingDead(r)
<1>1. \A t \in Threads : "DEAD" \in r.state[t] <=> "DEAD" \in s.state[t]
  BY QueuesTypes, Zenon DEF Keeps, Prevents
<1> QED BY <1>1, Zenon DEF Keeps, Forgotten, EndingDead, Kernel

\* A context switch to the cached thread leaves a current thread that may run.
LEMMA Swap ==
    ASSUME NEW s, Settled(s), s.ending = NULL
    PROVE  IInv(z_swap(s))
<1> DEFINE n == z_reset_time_slice(s, s.cache)
           r == [n EXCEPT !.current = s.cache]
<1>0. s \in Kernel /\ s.cache \in Runnables
  BY Zenon DEF Settled, Base, Kernel
<1>1. CASE s.cache = s.current
  BY <1>1, Zenon DEF z_swap, IInv, Settled, z_is_thread_ready
<1>2. CASE s.cache # s.current
  <2>1. n \in Kernel /\ SameThreads(n, s) /\ n.cache = s.cache
    BY <1>0, ResetTimeSlice, Zenon
  <2> HIDE DEF n
  <2>2. r \in Kernel /\ SameThreads(r, s) /\ r.cache = s.cache /\ r.current = s.cache
    BY ZenonT(40), <1>0, <2>1 DEF Kernel, SameThreads
  <2>3. z_swap(s) = r
    BY <1>2, Zenon DEF z_swap, n
  <2> HIDE DEF r
  <2>4. Base(r)
    BY <2>2, SameThreadsBase, Zenon DEF Settled
  <2>7. CachedBest(r)
    BY <1>2, <2>2, Zenon DEF Settled, CachedBest, IsBest, z_is_thread_queued, SameThreads
  <2>5. Settled(r) /\ z_is_thread_ready(r, r.current)
    BY <2>2, <2>4, <2>7 DEF Settled, Forgotten, EndingDead, QueuedReady, SameThreads,
       z_is_thread_queued, z_is_thread_ready, z_is_thread_prevented_from_running
  <2>6. r.current \notin r.timeout
    BY <2>5, Zenon DEF z_is_thread_ready
  <2> QED BY <2>3, <2>5, <2>6, Zenon DEF IInv
<1> QED BY <1>1, <1>2, Zenon

\* z_reschedule() from a settled state, whether it swaps or leaves it to the
\* exit of the interrupt.
LEMMA Reschedule ==
    ASSUME NEW s, Settled(s), s.ending = NULL, s.current \notin s.timeout
    PROVE  IInv(z_reschedule(s))
BY Swap, Zenon DEF z_reschedule, IInv

\* Recomputing the cache settles a state whose queue is exact.
LEMMA Recache ==
    ASSUME NumMetairq = 0, NEW s, Base(s), Forgotten(s), EndingDead(s),
           NEW preempt_ok \in BOOLEAN,
           \A t \in Threads : QueuedReady(s, t), s.current \notin s.timeout
    PROVE  LET r == update_cache(s, preempt_ok)
           IN  Settled(r) /\ SameThreads(r, s) /\ r.current = s.current
<1> DEFINE r == update_cache(s, preempt_ok)
<1>1. /\ r \in Kernel /\ SameThreads(r, s) /\ r.current = s.current
      /\ \/ r.cache = Idle
         \/ r.cache \in Threads /\ z_is_thread_queued(s, r.cache)
         \/ /\ r.cache = s.current
            /\ ~z_is_thread_prevented_from_running(s, s.current)
      /\ IsBest(s, r.cache) \/ (r.cache = s.current /\ ~is_preempt(s, s.current))
  BY UpdateCache, Zenon
<1> HIDE DEF r
<1>2. Base(r)
  BY <1>1, SameThreadsBase, Zenon
<1>3. z_is_thread_ready(s, r.cache)
  BY SMTT(40), <1>1, QueuesTypes DEF Base, Kernel, QueuedReady, z_is_thread_ready,
     z_is_thread_prevented_from_running
<1>5. CachedBest(r)
  BY <1>1, Zenon DEF CachedBest, IsBest, is_preempt, z_is_thread_queued, SameThreads
<1>4. Settled(r)
  BY <1>1, <1>2, <1>3, <1>5 DEF Settled, Forgotten, EndingDead, QueuedReady, SameThreads,
       z_is_thread_queued, z_is_thread_ready, z_is_thread_prevented_from_running
<1> QED BY <1>1, <1>4, Zenon DEF r

-----------------------------------------------------------------------------
(* Waking a thread up.                                                     *)

\* s is c with thread t closer to being ready
Waking(s, c, t) ==
    /\ Base(s) /\ Forgotten(s) /\ EndingDead(s)
    /\ s.current = c.current /\ s.cache = c.cache /\ s.in_isr = c.in_isr
    /\ s.ending = c.ending /\ s.prio = c.prio /\ s.locks = c.locks
    /\ s.timeout \subseteq c.timeout
    /\ s.state[t] \subseteq c.state[t]
    /\ z_is_thread_queued(s, t) <=> z_is_thread_queued(c, t)
    /\ \A u \in Runnables \ {t} : /\ s.state[u] = c.state[u]
                                  /\ u \in s.timeout <=> u \in c.timeout

\* A settled state is the start of waking any thread.
LEMMA WakingStart ==
    ASSUME NEW c, Settled(c), NEW t \in Threads
    PROVE  Waking(c, c, t)
BY Zenon DEF Waking, Settled

\* Clearing _THREAD_PRESTART and _THREAD_SUSPENDED is a step of waking.
LEMMA WakingClearFlags ==
    ASSUME NEW c, NEW s, NEW t \in Threads, Waking(s, c, t),
           NEW F \in SUBSET {"PRESTART", "SUSPENDED"}
    PROVE  Waking([s EXCEPT !.state[t] = @ \ F], c, t)
<1> DEFINE x == s.state[t] \ F
           r == [s EXCEPT !.state[t] = x]
<1>1. Base(s) /\ s \in Kernel /\ s.state \in [Runnables -> SUBSET Flags] /\ t \in Runnables
  BY StateTypes, Zenon DEF Waking, Base
<1>2. /\ x \in SUBSET Flags /\ x \subseteq s.state[t]
      /\ \A f \in {"QUEUED", "PENDING", "DEAD"} : f \in x <=> f \in s.state[t]
  BY <1>1, Zenon
<1>3. [s EXCEPT !.state[t] = @ \ F] = r
  BY Zenon
<1> HIDE DEF x
<1>4. Base(r) /\ OnlyQueue(r, s) /\ r.state = [s.state EXCEPT ![t] = x]
  BY <1>1, <1>2, SetFlags
<1> HIDE DEF r
<1>5. r.state[t] = x /\ \A u \in Runnables \ {t} : r.state[u] = s.state[u]
  BY <1>1, <1>4, Zenon
<1>6. Forgotten(r) /\ EndingDead(r)
  <2>1. \A u \in Threads : "DEAD" \in r.state[u] <=> "DEAD" \in s.state[u]
    BY <1>2, <1>5, QueuesTypes
  <2>2. s.ending \in Threads \cup {NULL}
    BY <1>1, Zenon DEF Kernel
  <2> QED BY <1>4, <2>1, <2>2 DEF Waking, Forgotten, EndingDead, OnlyQueue
<1>7. z_is_thread_queued(r, t) <=> z_is_thread_queued(s, t)
  BY <1>2, <1>5, Zenon DEF z_is_thread_queued
<1> QED BY ZenonT(40), <1>2, <1>3, <1>4, <1>5, <1>6, <1>7 DEF Waking, OnlyQueue

\* z_abort_thread_timeout() is a step of waking.
LEMMA WakingAbortTimeout ==
    ASSUME NEW c, NEW s, NEW t \in Threads, Waking(s, c, t)
    PROVE  Waking(z_abort_thread_timeout(s, t), c, t)
<1> DEFINE r == z_abort_thread_timeout(s, t)
<1>1. s \in Kernel /\ Base(s)
  BY Zenon DEF Waking, Base
<1>2. /\ r \in Kernel /\ r.timeout = s.timeout \ {t}
      /\ r.state = s.state /\ r.prio = s.prio /\ r.runq = s.runq
      /\ r.waitq = s.waitq /\ r.pended_on = s.pended_on /\ r.ending = s.ending
      /\ r.in_isr = s.in_isr /\ r.current = s.current /\ r.cache = s.cache
      /\ r.metairq_preempted = s.metairq_preempted
      /\ r.locks = s.locks
  BY ZenonT(40), <1>1 DEF z_abort_thread_timeout, Kernel
<1> HIDE DEF r
<1>3. Base(r)
  BY <1>1, <1>2 DEF Base, Linked, Waits, z_is_thread_queued
<1>4. Forgotten(r) /\ EndingDead(r)
  BY <1>2 DEF Waking, Forgotten, EndingDead
<1>5. z_is_thread_queued(r, t) <=> z_is_thread_queued(s, t)
  BY <1>2, Zenon DEF z_is_thread_queued
<1>6. /\ r.timeout \subseteq c.timeout
      /\ \A u \in Runnables \ {t} : /\ r.state[u] = c.state[u]
                                    /\ u \in r.timeout <=> u \in c.timeout
  BY <1>2, Zenon DEF Waking
<1> QED BY <1>2, <1>3, <1>4, <1>5, <1>6, Zenon DEF Waking, r

\* unpend_thread_no_timeout() takes the thread off its wait queue.
LEMMA Unpend ==
    ASSUME NEW s, Base(s), NEW t \in Threads, s.pended_on[t] # NULL
    PROVE  LET r == unpend_thread_no_timeout(s, t)
           IN  /\ Base(r)
               /\ r.state = [s.state EXCEPT ![t] = @ \ {"PENDING"}]
               /\ r.pended_on = [s.pended_on EXCEPT ![t] = NULL]
               /\ \A w \in Queues : w # s.pended_on[t] => r.waitq[w] = s.waitq[w]
               /\ OnQueue(s.waitq[s.pended_on[t]], t)
               /\ r.runq = s.runq /\ r.prio = s.prio /\ r.timeout = s.timeout
               /\ r.in_isr = s.in_isr /\ r.ending = s.ending
               /\ r.current = s.current /\ r.cache = s.cache
<1> DEFINE r == unpend_thread_no_timeout(s, t)
           w == s.pended_on[t]
           q == z_priq_dumb_remove(s.waitq[w], t)
           st == [s.state EXCEPT ![t] = @ \ {"PENDING"}]
           po == [s.pended_on EXCEPT ![t] = NULL]
           wq == [s.waitq EXCEPT ![w] = q]
<1>1. s \in Kernel /\ Linked(s) /\ Waits(s)
  BY Zenon DEF Base
<1>2. w \in Queues /\ s.waitq[w] \in Seq(Threads) /\ s.waitq \in [Queues -> Seq(Threads)]
  BY <1>1, Zenon DEF Kernel
<1>3. OnQueue(s.waitq[w], t) /\ NoDuplicates(s.waitq[w])
  BY <1>1, <1>2, Zenon DEF Waits
<1>4. /\ q \in Seq(Threads) /\ NoDuplicates(q)
      /\ \A u : OnQueue(q, u) <=> OnQueue(s.waitq[w], u) /\ u # t
  BY <1>2, <1>3, RemoveProperties
<1>5. /\ st \in [Runnables -> SUBSET Flags] /\ st[Idle] = s.state[Idle]
      /\ \A u \in Threads : st[u] = IF u = t THEN s.state[t] \ {"PENDING"} ELSE s.state[u]
  BY <1>1, StateTypes, QueuesTypes, Zenon
<1>6. /\ po \in [Threads -> Queues \cup {NULL}]
      /\ \A u \in Threads : po[u] = IF u = t THEN NULL ELSE s.pended_on[u]
  BY <1>1, Zenon DEF Kernel
<1>7. /\ wq \in [Queues -> Seq(Threads)]
      /\ \A v \in Queues : wq[v] = IF v = w THEN q ELSE s.waitq[v]
  BY <1>2, <1>4, Zenon
<1>8. r = [s EXCEPT !.waitq = wq, !.state = st, !.pended_on = po]
  BY <1>1, Zenon DEF unpend_thread_no_timeout, Kernel
<1> HIDE DEF r, q, st, po, wq
<1>9. /\ r \in Kernel /\ r.state = st /\ r.pended_on = po /\ r.waitq = wq
      /\ r.runq = s.runq /\ r.prio = s.prio /\ r.timeout = s.timeout
      /\ r.in_isr = s.in_isr /\ r.ending = s.ending
      /\ r.current = s.current /\ r.cache = s.cache
      /\ r.metairq_preempted = s.metairq_preempted
  BY ZenonT(40), <1>1, <1>5, <1>6, <1>7, <1>8 DEF Kernel
<1>10. Linked(r)
  BY <1>1, <1>5, <1>9, Zenon DEF Linked, z_is_thread_queued
<1>11. Waits(r)
  <2>1. \A v \in Queues : NoDuplicates(r.waitq[v])
    BY <1>1, <1>4, <1>7, <1>9, Zenon DEF Waits
  <2>2. \A u \in Threads : "PENDING" \in r.state[u] <=> r.pended_on[u] # NULL
    BY <1>1, <1>5, <1>6, <1>9 DEF Waits
  <2>3. ASSUME NEW u \in Threads, NEW v \in Queues
        PROVE  OnQueue(r.waitq[v], u) <=> r.pended_on[u] = v
    <3>0. v # NULL
      BY QueuesTypes, Zenon
    <3>1. OnQueue(s.waitq[v], u) <=> s.pended_on[u] = v
      BY <1>1, Zenon DEF Waits
    <3>2. CASE v = w
      BY SMTT(40), <1>4, <1>6, <1>7, <1>9, <3>0, <3>1, <3>2
    <3>3. CASE v # w
      BY <1>6, <1>7, <1>9, <3>0, <3>1, <3>3, Zenon
    <3> QED BY <3>2, <3>3, Zenon
  <2> QED BY <2>1, <2>2, <2>3, Zenon DEF Waits
<1>12. Base(r)
  BY <1>5, <1>9, <1>10, <1>11, Zenon DEF Base
<1> QED BY <1>3, <1>7, <1>9, <1>12, Zenon DEF r, st, po

\* unpend_thread_no_timeout() of a pended thread is a step of waking.
LEMMA WakingUnpend ==
    ASSUME NEW c, NEW s, NEW t \in Threads, Waking(s, c, t), s.pended_on[t] # NULL
    PROVE  Waking(unpend_thread_no_timeout(s, t), c, t)
<1> DEFINE r == unpend_thread_no_timeout(s, t)
           w == s.pended_on[t]
<1>1. Base(s) /\ s \in Kernel /\ s.state \in [Runnables -> SUBSET Flags] /\ t \in Runnables
      /\ s.pended_on \in [Threads -> Queues \cup {NULL}]
  BY ZenonT(40), StateTypes DEF Waking, Base, Kernel
<1>2. /\ Base(r)
      /\ r.state = [s.state EXCEPT ![t] = @ \ {"PENDING"}]
      /\ r.pended_on = [s.pended_on EXCEPT ![t] = NULL]
      /\ \A v \in Queues : v # w => r.waitq[v] = s.waitq[v]
      /\ OnQueue(s.waitq[w], t)
      /\ r.runq = s.runq /\ r.prio = s.prio /\ r.timeout = s.timeout
      /\ r.in_isr = s.in_isr /\ r.ending = s.ending
      /\ r.current = s.current /\ r.cache = s.cache
  BY <1>1, Unpend, Zenon
<1>8. r.locks = s.locks
  BY ZenonT(40), <1>1 DEF unpend_thread_no_timeout, Kernel
<1> HIDE DEF r
<1>3. /\ r.state[t] = s.state[t] \ {"PENDING"}
      /\ \A u \in Runnables \ {t} : r.state[u] = s.state[u]
      /\ \A u \in Threads \ {t} : r.pended_on[u] = s.pended_on[u]
      /\ r.pended_on[t] = NULL
  BY <1>1, <1>2, Zenon
<1>4. s.waitq[w] # <<>>
  BY <1>2 DEF OnQueue
<1>5. EndingDead(r)
  BY SMTT(40), <1>1, <1>2, <1>3, QueuesTypes DEF Waking, EndingDead, Kernel
<1>6. Forgotten(r)
  <2> SUFFICES ASSUME NEW u \in Threads, "DEAD" \in r.state[u]
               PROVE  /\ r.pended_on[u] = NULL
                      /\ u \notin r.timeout
                      /\ r.ending # u => r.waitq[u] = <<>>
    BY Zenon DEF Forgotten
  <2>1. "DEAD" \in s.state[u] /\ u \in Queues
    BY <1>3, QueuesTypes, Zenon
  <2>2. /\ s.pended_on[u] = NULL
        /\ u \notin s.timeout
        /\ s.ending # u => s.waitq[u] = <<>>
    BY <2>1, Zenon DEF Waking, Forgotten
  <2> QED BY SMTT(40), <1>2, <1>3, <1>4, <2>1, <2>2
<1>7. z_is_thread_queued(r, t) <=> z_is_thread_queued(s, t)
  BY <1>3, Zenon DEF z_is_thread_queued
<1> QED BY SMTT(40), <1>2, <1>3, <1>5, <1>6, <1>7, <1>8 DEF Waking, r

\* The same, as z_sched_wake_thread() does it, only if the thread is pended.
LEMMA WakingUnpendIfPended ==
    ASSUME NEW c, NEW s, NEW t \in Threads, Waking(s, c, t)
    PROVE  Waking(UnpendIfPended(s, t), c, t)
BY WakingUnpend, Zenon DEF UnpendIfPended

\* Readying the thread that was woken settles the scheduler again.
LEMMA WakeUp ==
    ASSUME NumMetairq = 0, NEW c, Settled(c), c.current \notin c.timeout,
           NEW s, NEW t \in Threads, Waking(s, c, t)
    PROVE  LET r == ready_thread(s, t)
           IN  /\ Settled(r) /\ r.current = c.current /\ r.in_isr = c.in_isr
               /\ r.ending = c.ending /\ r.current \notin r.timeout
               /\ \A u \in Runnables : z_is_thread_ready(c, u) => z_is_thread_ready(r, u)
<1> DEFINE r == ready_thread(s, t)
<1>1. \A u \in Runnables \ {t} : z_is_thread_ready(s, u) <=> z_is_thread_ready(c, u)
  BY Zenon DEF Waking, z_is_thread_ready, z_is_thread_prevented_from_running
<1>2. z_is_thread_ready(c, t) => z_is_thread_ready(s, t)
  BY Zenon DEF Waking, z_is_thread_ready, z_is_thread_prevented_from_running
<1>3. \A u \in Threads \ {t} : QueuedReady(s, u)
  BY <1>1, QueuesTypes, Zenon DEF Waking, Settled, QueuedReady, z_is_thread_queued
<1>4. z_is_thread_queued(s, t) => z_is_thread_ready(s, t)
  BY <1>2, Zenon DEF Waking, Settled, QueuedReady
<1>5. s.current \notin s.timeout /\ Base(s) /\ Forgotten(s) /\ EndingDead(s)
  BY Zenon DEF Waking
<1>6. /\ Base(r) /\ \A u \in Threads : QueuedReady(r, u)
      /\ Keeps(r, s)
      /\ \A u \in Runnables : z_is_thread_ready(r, u) <=> z_is_thread_ready(s, u)
      /\ z_is_thread_ready(s, s.cache) => z_is_thread_ready(r, r.cache)
      /\ CachedBest(s) => CachedBest(r)
  BY <1>3, <1>4, <1>5, ReadyThread, Zenon
<1> HIDE DEF r
<1>7. Forgotten(r) /\ EndingDead(r)
  BY <1>5, <1>6, KeepsForgotten, Zenon DEF Base
<1>8. \A u \in Runnables : z_is_thread_ready(c, u) => z_is_thread_ready(s, u)
  BY <1>1, <1>2, Zenon
<1>9. s.ending = NULL => z_is_thread_ready(s, s.cache)
  BY <1>8, Zenon DEF Settled, Waking, Base, Kernel
<1>12. s.ending = NULL => CachedBest(s)
  <2>1. \A u \in Threads : z_is_thread_queued(s, u) => z_is_thread_queued(c, u)
    BY QueuesTypes, Zenon DEF Waking, z_is_thread_queued
  <2> QED BY <2>1, SameCachedBest, Zenon DEF Settled, Waking
<1>10. Settled(r)
  BY <1>6, <1>7, <1>9, <1>12, Zenon DEF Settled, Keeps
<1>11. r.current = c.current /\ r.in_isr = c.in_isr /\ r.ending = c.ending
       /\ r.current \notin r.timeout
  BY <1>5, <1>6, Zenon DEF Keeps, Waking
<1> QED BY <1>6, <1>8, <1>10, <1>11, Zenon DEF r

\* ready_thread() at the end of waking, then z_reschedule().
LEMMA WakeUpReschedule ==
    ASSUME NumMetairq = 0, NEW c, Settled(c), c.current \notin c.timeout,
           c.ending = NULL, NEW s, NEW t \in Threads, Waking(s, c, t)
    PROVE  IInv(z_reschedule(ready_thread(s, t)))
BY WakeUp, Reschedule

-----------------------------------------------------------------------------
(* The actions that wake a thread up.                                      *)

\* z_sched_start() preserves the invariant.
LEMMA StartInv ==
    ASSUME NumMetairq = 0, IInv(k), NEW t \in Threads, z_sched_start(t)
    PROVE  IInv(k')
<1>1. k.ending = NULL /\ Settled(k) /\ k.current \notin k.timeout
  BY Zenon DEF z_sched_start, InThreadOrIsr, IInv
<1>2. Waking([k EXCEPT !.state[t] = @ \ {"PRESTART"}], k, t)
  BY ZenonT(40), <1>1, WakingStart, WakingClearFlags
<1> QED BY <1>1, <1>2, WakeUpReschedule, Zenon DEF z_sched_start

\* k_thread_resume() preserves the invariant.
LEMMA ResumeInv ==
    ASSUME NumMetairq = 0, IInv(k), NEW t \in Threads, k_thread_resume(t)
    PROVE  IInv(k')
<1>1. k.ending = NULL /\ Settled(k) /\ k.current \notin k.timeout
  BY Zenon DEF k_thread_resume, InThreadOrIsr, IInv
<1>2. Waking([k EXCEPT !.state[t] = @ \ {"SUSPENDED"}], k, t)
  BY ZenonT(40), <1>1, WakingStart, WakingClearFlags
<1> QED BY <1>1, <1>2, WakeUpReschedule, Zenon DEF k_thread_resume

\* k_wakeup() preserves the invariant.
LEMMA WakeupInv ==
    ASSUME NumMetairq = 0, IInv(k), NEW t \in Threads, k_wakeup(t)
    PROVE  IInv(k')
<1> DEFINE s == z_abort_thread_timeout(k, t)
<1>1. k.ending = NULL /\ Settled(k) /\ k.current \notin k.timeout
  BY Zenon DEF k_wakeup, InThreadOrIsr, IInv
<1>2. Waking(s, k, t)
  BY <1>1, WakingStart, WakingAbortTimeout, Zenon
<1>3. k' = z_reschedule(ready_thread([s EXCEPT !.state[t] = @ \ {"SUSPENDED"}], t))
  BY Zenon DEF k_wakeup
<1> HIDE DEF s
<1>4. Waking([s EXCEPT !.state[t] = @ \ {"SUSPENDED"}], k, t)
  BY ZenonT(40), <1>2, WakingClearFlags
<1> QED BY <1>1, <1>3, <1>4, WakeUpReschedule, Zenon

\* the head of a wait queue is pended on it
LEMMA WaitqHead ==
    ASSUME NEW s, Base(s), NEW w \in Queues, s.waitq[w] # <<>>
    PROVE  LET t == z_priq_dumb_best(s.waitq[w])
           IN  t \in Threads /\ s.pended_on[t] # NULL
<1>1. s.waitq[w] \in Seq(Threads)
  BY Zenon DEF Base, Kernel
<1>2. 1 \in 1 .. Len(s.waitq[w]) /\ s.waitq[w][1] \in Threads
  BY <1>1
<1>3. s.pended_on[s.waitq[w][1]] = w
  BY <1>2 DEF Base, Waits, OnQueue
<1> QED BY <1>2, <1>3, QueuesTypes, Zenon DEF z_priq_dumb_best

\* z_sched_wake() preserves the invariant.
LEMMA WakeInv ==
    ASSUME NumMetairq = 0, IInv(k), NEW w \in Objects, z_sched_wake(w)
    PROVE  IInv(k')
<1> DEFINE t == z_priq_dumb_best(k.waitq[w])
           s == z_abort_thread_timeout(unpend_thread_no_timeout(k, t), t)
<1>1. k.ending = NULL /\ Settled(k) /\ k.current \notin k.timeout
      /\ k.waitq[w] # <<>> /\ w \in Queues
  BY Zenon DEF z_sched_wake, InThreadOrIsr, IInv, Queues
<1>2. t \in Threads /\ k.pended_on[t] # NULL
  BY <1>1, WaitqHead, Zenon DEF Settled
<1>3. k' = z_reschedule(ready_thread(s, t))
  BY Zenon DEF z_sched_wake
<1> HIDE DEF t
<1>4. Waking(s, k, t)
  BY <1>1, <1>2, WakingStart, WakingUnpend, WakingAbortTimeout, Zenon
<1> QED BY <1>1, <1>2, <1>3, <1>4, WakeUpReschedule, Zenon

\* unpend_all() releases one joining thread and preserves the invariant.
LEMMA UnpendAllInv ==
    ASSUME NumMetairq = 0, IInv(k), unpend_all
    PROVE  IInv(k')
<1> DEFINE t == z_priq_dumb_best(k.waitq[k.ending])
           s == z_abort_thread_timeout(unpend_thread_no_timeout(k, t), t)
<1>1. k.ending # NULL /\ Settled(k) /\ k.current \notin k.timeout
      /\ k.waitq[k.ending] # <<>> /\ k.ending \in Queues
  BY QueuesTypes, Zenon DEF unpend_all, IInv, Settled, Base, Kernel
<1>2. t \in Threads /\ k.pended_on[t] # NULL
  BY <1>1, WaitqHead, Zenon DEF Settled
<1>3. k' = ready_thread(s, t)
  BY Zenon DEF unpend_all
<1> HIDE DEF t
<1>4. Waking(s, k, t)
  BY <1>1, <1>2, WakingStart, WakingUnpend, WakingAbortTimeout, Zenon
<1>5. k.current \in Runnables
  BY <1>1, Zenon DEF Settled, Base, Kernel
<1> QED BY SMTT(40), <1>1, <1>2, <1>3, <1>4, <1>5, WakeUp DEF IInv

-----------------------------------------------------------------------------
(* Interrupts, the scheduler lock and actions that requeue a thread.       *)

\* A settled state stays settled while the threads' fields and the cache do not
\* change.
LEMMA SettledSame ==
    ASSUME NEW s, Settled(s), NEW r \in Kernel, SameThreads(r, s), r.cache = s.cache,
           r.current = s.current
    PROVE  Settled(r)
<1>1. Base(r)
  BY SameThreadsBase, Zenon DEF Settled
<1>2. s.ending = NULL => CachedBest(r)
  BY SameCachedBest, Zenon DEF Settled, SameThreads, z_is_thread_queued
<1> QED BY <1>1, <1>2 DEF Settled, Forgotten, EndingDead, QueuedReady, SameThreads,
       z_is_thread_queued, z_is_thread_ready, z_is_thread_prevented_from_running

\* fields no part of the invariant but the types depends on
LEMMA SettledIsr ==
    ASSUME NEW s, Settled(s), NEW r \in Kernel, r.cache = s.cache,
           r.state = s.state, r.prio = s.prio, r.runq = s.runq, r.waitq = s.waitq,
           r.pended_on = s.pended_on, r.timeout = s.timeout, r.ending = s.ending,
           r.metairq_preempted = s.metairq_preempted,
           r.ending = NULL => CachedBest(r)
    PROVE  Settled(r)
BY DEF Settled, Base, Linked, Waits, Forgotten, EndingDead, QueuedReady,
       z_is_thread_queued, z_is_thread_ready, z_is_thread_prevented_from_running

\* Entering and leaving an interrupt preserve the invariant.
LEMMA IsrInv ==
    ASSUME IInv(k), IsrEnter \/ z_get_next_switch_handle
    PROVE  IInv(k')
<1>0. k \in Kernel /\ Settled(k)
  BY Zenon DEF IInv, Settled, Base
<1>1. CASE IsrEnter
  <2>1. /\ k' \in Kernel /\ k'.cache = k.cache /\ k'.state = k.state /\ k'.prio = k.prio
        /\ k'.runq = k.runq /\ k'.waitq = k.waitq /\ k'.pended_on = k.pended_on
        /\ k'.timeout = k.timeout /\ k'.ending = k.ending
        /\ k'.metairq_preempted = k.metairq_preempted
        /\ k'.current = k.current /\ k'.in_isr /\ k'.locks = k.locks
    BY ZenonT(40), <1>0, <1>1 DEF IsrEnter, Kernel
  <2>3. k'.ending = NULL => CachedBest(k')
    BY <1>0, <2>1, SameCachedBest, Zenon DEF Settled, z_is_thread_queued
  <2>2. Settled(k')
    BY <1>0, <2>1, <2>3, SettledIsr, Zenon
  <2> QED BY <2>1, <2>2, Zenon DEF IInv
<1>2. CASE z_get_next_switch_handle
  <2>1. /\ k' \in Kernel /\ k'.cache = k.cache /\ k'.state = k.state /\ k'.prio = k.prio
        /\ k'.runq = k.runq /\ k'.waitq = k.waitq /\ k'.pended_on = k.pended_on
        /\ k'.timeout = k.timeout /\ k'.ending = k.ending /\ k.ending = NULL
        /\ k'.metairq_preempted = k.metairq_preempted
        /\ k'.current = k.cache /\ k'.locks = k.locks
    BY ZenonT(40), <1>0, <1>2 DEF z_get_next_switch_handle, InIsr, Kernel
  <2>4. CachedBest(k')
    BY <1>0, <2>1, Zenon DEF Settled, CachedBest, IsBest, is_preempt, z_is_thread_queued
  <2>2. Settled(k')
    BY <1>0, <2>1, <2>4, SettledIsr, Zenon
  <2>3. z_is_thread_ready(k', k'.current)
    BY <2>1, <2>2, Zenon DEF Settled
  <2> QED BY <2>2, <2>3, Zenon DEF IInv, z_is_thread_ready
<1> QED BY <1>1, <1>2, Zenon

\* Changing a thread's count of scheduler locks changes nothing else.
LEMMA LocksTypes ==
    ASSUME NEW s, Base(s), NEW n \in Nat, NEW t \in Runnables
    PROVE  LET r == [s EXCEPT !.locks[t] = n]
           IN  /\ r \in Kernel /\ r.cache = s.cache /\ r.state = s.state /\ r.prio = s.prio
               /\ r.runq = s.runq /\ r.waitq = s.waitq /\ r.pended_on = s.pended_on
               /\ r.timeout = s.timeout /\ r.ending = s.ending
               /\ r.metairq_preempted = s.metairq_preempted
               /\ r.current = s.current /\ r.in_isr = s.in_isr
BY ZenonT(40) DEF Base, Kernel

\* k_sched_lock() and k_sched_unlock() preserve the invariant.
LEMMA SchedLockInv ==
    ASSUME NumMetairq = 0, IInv(k), k_sched_lock \/ k_sched_unlock
    PROVE  IInv(k')
<1>0. /\ k \in Kernel /\ Settled(k) /\ Base(k) /\ k.current \in Runnables
      /\ k.locks[k.current] \in Nat /\ k.current \notin k.timeout
  BY Zenon DEF IInv, Settled, Base, Kernel
<1>1. CASE k_sched_lock
  <2> DEFINE n == k.locks[k.current] + 1
  <2>0. n \in Nat
    BY <1>0
  <2>1. k' = [k EXCEPT !.locks[k.current] = n]
    BY <1>1, Zenon DEF k_sched_lock
  <2> HIDE DEF n
  <2>2. /\ k' \in Kernel /\ k'.cache = k.cache /\ k'.state = k.state /\ k'.prio = k.prio
        /\ k'.runq = k.runq /\ k'.waitq = k.waitq /\ k'.pended_on = k.pended_on
        /\ k'.timeout = k.timeout /\ k'.ending = k.ending
        /\ k'.metairq_preempted = k.metairq_preempted
        /\ k'.current = k.current /\ k'.in_isr = k.in_isr
    BY <1>0, <2>0, <2>1, LocksTypes, ZenonT(40)
  <2>4. k'.ending = NULL => CachedBest(k')
    <3>1. k'.locks[k.current] # 0
      BY <1>0, <2>1 DEF n, Kernel
    <3> QED BY <1>0, <2>2, <3>1, Zenon DEF Settled, CachedBest, IsBest, is_preempt,
            z_is_thread_queued
  <2>3. Settled(k')
    BY <1>0, <2>2, <2>4, SettledIsr, Zenon
  <2> QED BY <2>2, <2>3, Zenon DEF IInv, z_is_thread_ready, z_is_thread_prevented_from_running
<1>2. CASE k_sched_unlock
  <2> DEFINE s == [k EXCEPT !.locks[k.current] = k.locks[k.current] - 1]
             u == update_cache(s, FALSE)
  <2>1. k' = z_reschedule(u) /\ k.ending = NULL /\ k.locks[k.current] - 1 \in Nat
    BY <1>0, <1>2 DEF k_sched_unlock, InThread
  <2>2. /\ s \in Kernel /\ s.cache = k.cache /\ s.state = k.state /\ s.prio = k.prio
        /\ s.runq = k.runq /\ s.waitq = k.waitq /\ s.pended_on = k.pended_on
        /\ s.timeout = k.timeout /\ s.ending = k.ending
        /\ s.metairq_preempted = k.metairq_preempted
        /\ s.current = k.current /\ s.in_isr = k.in_isr
    BY ZenonT(40), <1>0, <2>1, LocksTypes
  <2> HIDE DEF s
  <2>3. /\ Base(s) /\ Forgotten(s) /\ EndingDead(s) /\ s.current \notin s.timeout
        /\ \A t \in Threads : QueuedReady(s, t)
    BY SMTT(40), <1>0, <2>2 DEF Settled, Base, Linked, Waits, Forgotten, EndingDead,
       QueuedReady, z_is_thread_queued, z_is_thread_ready,
       z_is_thread_prevented_from_running
  <2>4. Settled(u) /\ SameThreads(u, s) /\ u.current = s.current
    BY ZenonT(40), <2>3, Recache
  <2> HIDE DEF u
  <2> QED BY <1>0, <2>1, <2>2, <2>4, Reschedule, Zenon DEF SameThreads
<1> QED BY <1>1, <1>2, Zenon

(* Moving a thread on the ready queue.                                     *)

\* Unlinking a queued thread, changing its priority and linking it in again.
LEMMA Requeue ==
    ASSUME NEW s, Base(s), NEW t \in Threads, z_is_thread_queued(s, t),
           NEW p \in Prios
    PROVE  LET r == queue_thread([dequeue_thread(s, t) EXCEPT !.prio[t] = p], t)
           IN  /\ Base(r) /\ r.state = s.state /\ r.waitq = s.waitq
               /\ r.pended_on = s.pended_on /\ r.timeout = s.timeout
               /\ r.in_isr = s.in_isr /\ r.ending = s.ending
               /\ r.current = s.current /\ r.cache = s.cache
<1> DEFINE d == dequeue_thread(s, t)
           m == [d EXCEPT !.prio[t] = p]
           r == queue_thread(m, t)
<1>1. /\ Base(d) /\ OnlyQueue(d, s)
      /\ d.state = [s.state EXCEPT ![t] = @ \ {"QUEUED"}]
  BY DequeueThread, Zenon
<1>2. s.state \in [Runnables -> SUBSET Flags] /\ t \in Runnables
  BY StateTypes, Zenon DEF Base
<1> HIDE DEF d
<1>3. ~OnQueue(d.runq, t)
  BY <1>1, <1>2, Zenon DEF Base, Linked, z_is_thread_queued
<1>4. /\ m \in Kernel /\ m.prio = [d.prio EXCEPT ![t] = p] /\ m.state = d.state
      /\ m.runq = d.runq /\ m.waitq = d.waitq /\ m.pended_on = d.pended_on
      /\ m.timeout = d.timeout /\ m.in_isr = d.in_isr /\ m.ending = d.ending
      /\ m.current = d.current /\ m.cache = d.cache
      /\ m.metairq_preempted = d.metairq_preempted
  BY ZenonT(40), <1>1, <1>2 DEF Base, Kernel
<1> HIDE DEF m
<1>5. InPriorityOrder(m.runq, m.prio)
  <2>1. \A i \in 1 .. Len(d.runq) : d.runq[i] # t /\ d.runq[i] \in Runnables
    <3>1. d.runq \in Seq(Threads)
      BY <1>1, Zenon DEF Base, Kernel
    <3> QED BY <1>3, <3>1, QueuesTypes DEF OnQueue
  <2>2. \A i \in 1 .. Len(d.runq) : m.prio[d.runq[i]] = d.prio[d.runq[i]]
    BY <1>1, <1>4, <2>1, Zenon DEF Base, Kernel
  <2> QED BY <1>1, <1>4, <2>2 DEF Base, Linked, InPriorityOrder
<1>6. Base(m)
  BY <1>1, <1>4, <1>5 DEF Base, Linked, Waits, z_is_thread_queued
<1>7. ~z_is_thread_queued(m, t)
  BY <1>1, <1>2, <1>4, Zenon DEF z_is_thread_queued
<1>8. /\ Base(r) /\ OnlyQueue(r, m)
      /\ r.state = [m.state EXCEPT ![t] = @ \cup {"QUEUED"}]
  BY <1>6, <1>7, QueueThread, Zenon
<1> HIDE DEF r
<1>9. r.state = s.state
  <2>1. (s.state[t] \ {"QUEUED"}) \cup {"QUEUED"} = s.state[t]
    BY Zenon DEF z_is_thread_queued
  <2> QED BY <1>1, <1>2, <1>4, <1>8, <2>1
<1> QED BY <1>1, <1>4, <1>8, <1>9, Zenon DEF OnlyQueue, r, m, d

\* dequeue_thread() then queue_thread() of a queued thread, its priority kept.
LEMMA RequeueSamePrio ==
    ASSUME NEW s, Base(s), NEW t \in Threads, z_is_thread_queued(s, t)
    PROVE  LET r == queue_thread(dequeue_thread(s, t), t)
           IN  Base(r) /\ OnlyQueue(r, s) /\ r.state = s.state
<1> DEFINE d == dequeue_thread(s, t)
           r == queue_thread(d, t)
<1>1. /\ Base(d) /\ OnlyQueue(d, s)
      /\ d.state = [s.state EXCEPT ![t] = @ \ {"QUEUED"}]
  BY DequeueThread, Zenon
<1>2. s.state \in [Runnables -> SUBSET Flags] /\ t \in Runnables
  BY StateTypes, Zenon DEF Base
<1> HIDE DEF d
<1>7. ~z_is_thread_queued(d, t)
  BY <1>1, <1>2, Zenon DEF z_is_thread_queued
<1>8. /\ Base(r) /\ OnlyQueue(r, d)
      /\ r.state = [d.state EXCEPT ![t] = @ \cup {"QUEUED"}]
  BY <1>1, <1>7, QueueThread, Zenon
<1> HIDE DEF r
<1>9. r.state = s.state
  <2>1. (s.state[t] \ {"QUEUED"}) \cup {"QUEUED"} = s.state[t]
    BY Zenon DEF z_is_thread_queued
  <2> QED BY <1>1, <1>2, <1>8, <2>1, Zenon
<1> QED BY <1>1, <1>8, <1>9, Zenon DEF OnlyQueue, r, d

\* A change of the ready queue's order alone leaves an exact queue.
LEMMA RequeueSettles ==
    ASSUME NumMetairq = 0, NEW c, Settled(c), c.current \notin c.timeout,
           NEW s, Base(s), s.state = c.state, s.waitq = c.waitq,
           s.pended_on = c.pended_on, s.timeout = c.timeout,
           s.in_isr = c.in_isr, s.ending = c.ending, s.current = c.current,
           NEW preempt_ok \in BOOLEAN
    PROVE  LET r == update_cache(s, preempt_ok)
           IN  /\ Settled(r) /\ r.current = c.current /\ r.in_isr = c.in_isr
               /\ r.ending = c.ending /\ r.timeout = c.timeout /\ r.state = c.state
<1>1. Forgotten(s) /\ EndingDead(s)
  BY Zenon DEF Settled, Forgotten, EndingDead
<1>2. \A t \in Threads : QueuedReady(s, t)
  BY Zenon DEF Settled, QueuedReady, z_is_thread_queued, z_is_thread_ready,
         z_is_thread_prevented_from_running
<1> QED BY <1>1, <1>2, Recache DEF SameThreads

\* a call made by a thread is made by one that is ready
LEMMA CallerReady ==
    ASSUME IInv(k), InThread
    PROVE  /\ k.ending = NULL /\ Settled(k) /\ Base(k) /\ k.current \notin k.timeout
           /\ k.current \in Threads /\ k.current \in Runnables
           /\ z_is_thread_ready(k, k.current)
<1>1. k \in Kernel
  BY Zenon DEF IInv, Settled, Base
<1>2. k.current \in Runnables /\ k.current \in Threads /\ k.current # NULL
  BY <1>1, QueuesTypes, Zenon DEF InThread, Kernel, Runnables
<1> QED BY <1>2, Zenon DEF InThread, IInv, Settled

\* k_yield() preserves the invariant.
LEMMA YieldInv ==
    ASSUME NumMetairq = 0, IInv(k), k_yield
    PROVE  IInv(k')
<1> DEFINE t == k.current
           s == queue_thread(dequeue_thread(k, t), t)
           u == update_cache(s, TRUE)
<1>1. /\ k.ending = NULL /\ Settled(k) /\ t \notin k.timeout /\ t \in Threads
      /\ z_is_thread_ready(k, t) /\ Base(k)
  BY CallerReady, Zenon DEF k_yield
<1>2. z_is_thread_queued(k, t)
  BY <1>1, Zenon DEF Settled, QueuedReady
<1>3. Base(s) /\ OnlyQueue(s, k) /\ s.state = k.state
  BY <1>1, <1>2, RequeueSamePrio, Zenon
<1>4. k' = z_swap(u)
  BY Zenon DEF k_yield
<1> HIDE DEF s
<1>5. Settled(u) /\ u.ending = NULL
  BY ZenonT(40), <1>1, <1>3, RequeueSettles DEF OnlyQueue
<1> QED BY ZenonT(40), <1>4, <1>5, Swap

\* z_time_slice() at the end of a tick, whatever the tick's handlers did
LEMMA TimeSlice ==
    ASSUME NumMetairq = 0, NEW q, IInv(q), q.in_isr, q.ending = NULL
    PROVE  IInv(z_time_slice(q))
<1> DEFINE t == q.current
           s == queue_thread(dequeue_thread(q, t), t)
           u == update_cache(s, TRUE)
           r == z_reset_time_slice(u, t)
<1>0. CASE ~(q.slice_expired /\ sliceable(q, t))
  BY ZenonT(40), <1>0 DEF z_time_slice
<1>a. CASE q.slice_expired /\ sliceable(q, t)
  <2>1. /\ Settled(q) /\ t \notin q.timeout
        /\ ~z_is_thread_prevented_from_running(q, t) /\ t # Idle /\ t \in Runnables
    BY <1>a, Zenon DEF IInv, Settled, Base, Kernel, sliceable
  <2>2. t \in Threads /\ z_is_thread_queued(q, t) /\ Base(q)
    BY <2>1, Zenon DEF Runnables, Settled, QueuedReady, z_is_thread_ready
  <2>3. Base(s) /\ OnlyQueue(s, q) /\ s.state = q.state
    BY <2>2, RequeueSamePrio, Zenon
  <2>4. z_time_slice(q) = r
    BY <1>a, <2>2, Zenon DEF z_time_slice, DequeueIfQueued
  <2> HIDE DEF s
  <2>5. Settled(u) /\ u.current = t /\ u.in_isr /\ u.timeout = q.timeout
    BY ZenonT(40), <2>1, <2>3, RequeueSettles DEF OnlyQueue
  <2>6. u \in Kernel
    BY ZenonT(40), <2>5 DEF Settled, Base
  <2> HIDE DEF u
  <2>7. r \in Kernel /\ SameThreads(r, u) /\ r.current = u.current /\ r.cache = u.cache
    BY <2>1, <2>6, ResetTimeSlice, Zenon
  <2> HIDE DEF r
  <2>8. Settled(r)
    BY <2>5, <2>7, SettledSame, Zenon
  <2> QED BY <2>1, <2>4, <2>5, <2>7, <2>8, Zenon DEF IInv, SameThreads
<1> QED BY <1>0, <1>a, Zenon

\* z_thread_timeout() and the z_time_slice() that ends the tick preserve the
\* invariant.
LEMMA TimeoutInv ==
    ASSUME NumMetairq = 0, IInv(k), NEW t \in Threads, z_thread_timeout(t)
    PROVE  IInv(k')
<1> DEFINE s == z_abort_thread_timeout(k, t)
           u == UnpendIfPended(s, t)
           n == [u EXCEPT !.state[t] = @ \ {"PRESTART", "SUSPENDED"}]
<1>1. /\ k.ending = NULL /\ Settled(k) /\ k.current \notin k.timeout
      /\ k.in_isr /\ t \in k.timeout
  BY Zenon DEF z_thread_timeout, InIsr, IInv
<1>2. "DEAD" \notin k.state[t]
  BY <1>1, Zenon DEF Settled, Forgotten
<1>3. s.state = k.state
  BY <1>1, Zenon DEF z_abort_thread_timeout, Settled, Base, Kernel
<1>4. k' = z_time_slice(ready_thread(n, t))
  BY <1>2, <1>3, Zenon DEF z_thread_timeout, z_sched_wake_thread
<1>5. Waking(s, k, t)
  BY <1>1, WakingStart, WakingAbortTimeout, Zenon
<1> HIDE DEF s
<1>6. Waking(u, k, t)
  BY <1>5, WakingUnpendIfPended, Zenon
<1> HIDE DEF u
<1>7. Waking(n, k, t)
  BY ZenonT(40), <1>6, WakingClearFlags
<1> HIDE DEF n
<1> DEFINE r == ready_thread(n, t)
<1>8. IInv(r) /\ r.in_isr /\ r.ending = NULL
  BY <1>1, <1>7, WakeUp, Zenon DEF IInv
<1>9. k' = z_time_slice(r)
  BY <1>4, Zenon
<1> HIDE DEF r
<1> QED BY <1>8, <1>9, TimeSlice, Zenon

\* slice_timeout(), and a tick on which nothing expires, preserve the invariant.
LEMMA SliceTimeoutInv ==
    ASSUME NumMetairq = 0, IInv(k), slice_timeout \/ sys_clock_announce
    PROVE  IInv(k')
<1> DEFINE s == [k EXCEPT !.slice_timeout = FALSE, !.slice_expired = TRUE]
<1>1. k \in Kernel /\ Settled(k) /\ k.in_isr /\ k.ending = NULL
  BY Zenon DEF IInv, Settled, Base, slice_timeout, sys_clock_announce, InIsr
<1>2. /\ s \in Kernel /\ SameThreads(s, k) /\ s.cache = k.cache
      /\ s.current = k.current /\ s.in_isr /\ s.timeout = k.timeout /\ s.ending = NULL
  BY ZenonT(40), <1>1 DEF Kernel, SameThreads
<1>3. k' = z_time_slice(s) \/ k' = z_time_slice(k)
  BY Zenon DEF slice_timeout, sys_clock_announce
<1> HIDE DEF s
<1>4. IInv(s)
  BY <1>1, <1>2, SettledSame, Zenon DEF IInv
<1> QED BY <1>1, <1>2, <1>3, <1>4, TimeSlice, Zenon

\* k_thread_priority_set() preserves the invariant.
LEMMA PrioritySetInv ==
    ASSUME NumMetairq = 0, IInv(k), NEW t \in Threads, NEW p \in NewPrios,
           k_thread_priority_set(t, p)
    PROVE  IInv(k')
<1> DEFINE s == z_set_prio(k, t, p)
<1>1. /\ k.ending = NULL /\ Settled(k) /\ k.current \notin k.timeout /\ Base(k)
      /\ p \in Prios /\ z_is_thread_ready(k, k.current) /\ t \in Runnables
  BY PrioAssumption, QueuesTypes, CallerReady, Zenon DEF k_thread_priority_set
<1>2. CASE z_is_thread_ready(k, t)
  <2> DEFINE m == queue_thread([dequeue_thread(k, t) EXCEPT !.prio[t] = p], t)
             u == update_cache(m, TRUE)
  <2>1. z_is_thread_queued(k, t)
    BY <1>1, <1>2, Zenon DEF Settled, QueuedReady
  <2>2. /\ Base(m) /\ m.state = k.state /\ m.waitq = k.waitq
        /\ m.pended_on = k.pended_on /\ m.timeout = k.timeout
        /\ m.in_isr = k.in_isr /\ m.ending = k.ending
        /\ m.current = k.current /\ m.cache = k.cache
    BY <1>1, <2>1, Requeue, Zenon
  <2>3. k' = IF k.locks[k.current] = 0 THEN z_reschedule(u) ELSE u
    BY <1>2, Zenon DEF k_thread_priority_set, z_set_prio
  <2> HIDE DEF m
  <2>4. /\ Settled(u) /\ u.current = k.current /\ u.ending = NULL
        /\ u.timeout = k.timeout /\ u.state = k.state
    BY ZenonT(40), <1>1, <2>2, RequeueSettles
  <2> HIDE DEF u
  <2>5. IInv(u)
    BY <1>1, <2>4, Zenon DEF IInv, z_is_thread_ready, z_is_thread_prevented_from_running
  <2>6. IInv(z_reschedule(u))
    BY <1>1, <2>4, Reschedule, Zenon
  <2> QED BY <2>3, <2>5, <2>6, Zenon
<1>3. CASE ~z_is_thread_ready(k, t)
  <2>1. k' = [k EXCEPT !.prio[t] = p]
    BY <1>3, Zenon DEF k_thread_priority_set, z_set_prio
  <2>2. /\ k' \in Kernel /\ k'.prio = [k.prio EXCEPT ![t] = p] /\ k'.state = k.state
        /\ k'.runq = k.runq /\ k'.waitq = k.waitq /\ k'.pended_on = k.pended_on
        /\ k'.timeout = k.timeout /\ k'.in_isr = k.in_isr /\ k'.ending = k.ending
        /\ k'.current = k.current /\ k'.cache = k.cache /\ k'.locks = k.locks
        /\ k'.metairq_preempted = k.metairq_preempted
    BY ZenonT(40), <1>1, <2>1 DEF Base, Kernel
  <2>3. ~OnQueue(k.runq, t)
    BY <1>1, <1>3, Zenon DEF Settled, QueuedReady, Base, Linked
  <2>4. k.runq \in Seq(Threads) /\ k.prio \in [Runnables -> Prios \cup {NumPreempt}]
    BY <1>1, Zenon DEF Base, Kernel
  <2>5. \A i \in 1 .. Len(k.runq) : k.runq[i] # t /\ k.runq[i] \in Runnables
    BY <2>3, <2>4, QueuesTypes DEF OnQueue
  <2>6. \A i \in 1 .. Len(k.runq) : k'.prio[k.runq[i]] = k.prio[k.runq[i]]
    BY <2>2, <2>4, <2>5, Zenon
  <2>7. InPriorityOrder(k'.runq, k'.prio)
    BY SMTT(40), <1>1, <2>2, <2>6 DEF Base, Linked, InPriorityOrder
  <2>8. Base(k')
    BY SMTT(40), <1>1, <2>2, <2>7 DEF Base, Linked, Waits, z_is_thread_queued
  <2>10. CachedBest(k')
    <3>1. k.cache \in Runnables /\ k.cache # t /\ CachedBest(k)
      BY <1>1, <1>3, Zenon DEF Settled, Base, Kernel
    <3>2. \A v \in Runnables : v # t => k'.prio[v] = k.prio[v]
      BY <2>2, <2>4, Zenon
    <3>3. \A v \in Threads : z_is_thread_queued(k', v) =>
              z_is_thread_queued(k, v) /\ v # t /\ v \in Runnables
      BY <1>1, <1>3, <2>2, QueuesTypes, Zenon DEF Settled, QueuedReady, z_is_thread_queued
    <3> QED BY <2>2, <3>1, <3>2, <3>3 DEF CachedBest, IsBest, is_preempt
  <2>9. Settled(k')
    BY <1>1, <2>2, <2>8, <2>10 DEF Settled, Forgotten, EndingDead, QueuedReady,
       z_is_thread_queued, z_is_thread_ready, z_is_thread_prevented_from_running
  <2> QED BY <1>1, <2>2, <2>9, Zenon DEF IInv, z_is_thread_ready, z_is_thread_prevented_from_running
<1> QED BY <1>2, <1>3, Zenon

-----------------------------------------------------------------------------
(* The actions that take the CPU from a thread.                            *)

\* Setting _THREAD_SUSPENDED keeps the base invariant.
LEMMA MarkSuspended ==
    ASSUME NEW s, Base(s), NEW t \in Threads
    PROVE  LET r == [s EXCEPT !.state[t] = @ \cup {"SUSPENDED"}]
           IN  /\ Base(r) /\ OnlyQueue(r, s)
               /\ r.state = [s.state EXCEPT ![t] = @ \cup {"SUSPENDED"}]
<1> DEFINE x == s.state[t] \cup {"SUSPENDED"}
<1>1. s \in Kernel /\ s.state[t] \in SUBSET Flags
  BY StateTypes, Zenon DEF Base
<1>2. /\ x \in SUBSET Flags
      /\ \A f \in {"QUEUED", "PENDING", "DEAD"} : f \in x <=> f \in s.state[t]
  BY <1>1, Zenon DEF Flags
<1> HIDE DEF x
<1>3. LET r == [s EXCEPT !.state[t] = x]
      IN  Base(r) /\ OnlyQueue(r, s) /\ r.state = [s.state EXCEPT ![t] = x]
  BY <1>2, SetFlags
<1> QED BY <1>3, Zenon DEF x

\* k_thread_suspend() preserves the invariant.
LEMMA SuspendInv ==
    ASSUME NumMetairq = 0, IInv(k), NEW t \in Threads, k_thread_suspend(t)
    PROVE  IInv(k')
<1> DEFINE a == z_abort_thread_timeout(k, t)
           d == DequeueIfQueued(a, t)
           x == d.state[t] \cup {"SUSPENDED"}
           s == [d EXCEPT !.state[t] = @ \cup {"SUSPENDED"}]
           u == update_cache(s, t = k.current)
<1>1. /\ k.ending = NULL /\ Settled(k) /\ k.current \notin k.timeout
      /\ t \in Runnables
  BY QueuesTypes, Zenon DEF k_thread_suspend, InThreadOrIsr, IInv
<1>2. k' = IF t = k.current THEN z_reschedule(u) ELSE u
  BY Zenon DEF k_thread_suspend
<1>3. Waking(a, k, t)
  BY <1>1, WakingStart, WakingAbortTimeout, Zenon
<1> HIDE DEF a
<1>4. Base(a) /\ a.ending = NULL /\ a.current = k.current /\ a.in_isr = k.in_isr
  BY <1>1, <1>3, Zenon DEF Waking
<1>5. /\ Base(d) /\ OnlyQueue(d, a)
      /\ d.state = [a.state EXCEPT ![t] = @ \ {"QUEUED"}]
  BY <1>4, DequeueQueued, Zenon
<1>6. a.state \in [Runnables -> SUBSET Flags] /\ d.state[t] \in SUBSET Flags
  BY <1>4, <1>5, StateTypes, Zenon DEF Base
<1>7. /\ x \in SUBSET Flags
      /\ \A f \in {"QUEUED", "PENDING", "DEAD"} : f \in x <=> f \in d.state[t]
  BY <1>6, Zenon DEF Flags
<1> HIDE DEF d
<1>8. Base(s) /\ OnlyQueue(s, d) /\ s.state = [d.state EXCEPT ![t] = x]
  BY <1>5, MarkSuspended, Zenon
<1> HIDE DEF s, x
<1>9. /\ s.state[t] = x /\ \A v \in Runnables \ {t} : s.state[v] = a.state[v]
      /\ d.state[t] = a.state[t] \ {"QUEUED"}
  BY <1>1, <1>5, <1>6, <1>8, Zenon
<1>10. /\ s.timeout = a.timeout /\ s.waitq = a.waitq /\ s.pended_on = a.pended_on
       /\ s.ending = NULL /\ s.in_isr = k.in_isr /\ s.current = k.current
       /\ s.current \notin s.timeout
  BY SMTT(40), <1>1, <1>3, <1>4, <1>5, <1>8 DEF OnlyQueue, Waking
<1>11. Forgotten(s) /\ EndingDead(s)
  <2>1. \A v \in Threads : "DEAD" \in s.state[v] <=> "DEAD" \in a.state[v]
    BY <1>7, <1>9, QueuesTypes, Zenon
  <2> QED BY SMTT(40), <1>3, <1>4, <1>10, <2>1 DEF Waking, Forgotten, EndingDead
<1>12. \A v \in Runnables \ {t} : z_is_thread_ready(s, v) <=> z_is_thread_ready(k, v)
  BY <1>3, <1>9, <1>10, Zenon DEF Waking, z_is_thread_ready,
     z_is_thread_prevented_from_running
<1>13. \A v \in Threads : QueuedReady(s, v)
  <2>1. QueuedReady(s, t)
    BY <1>7, <1>9, Zenon DEF x, QueuedReady, z_is_thread_queued, z_is_thread_ready,
       z_is_thread_prevented_from_running
  <2>2. \A v \in Threads \ {t} : z_is_thread_queued(s, v) <=> z_is_thread_queued(k, v)
    BY <1>3, <1>9, QueuesTypes, Zenon DEF Waking, z_is_thread_queued
  <2>3. \A v \in Threads \ {t} : QueuedReady(s, v)
    BY <1>1, <1>12, <2>2, QueuesTypes, Zenon DEF Settled, QueuedReady
  <2> QED BY <2>1, <2>3, Zenon
<1>14. (t = k.current) \in BOOLEAN
  BY Zenon
<1>15. Settled(u) /\ SameThreads(u, s) /\ u.current = s.current
  BY ZenonT(40), <1>8, <1>10, <1>11, <1>13, <1>14, Recache
<1> HIDE DEF u
<1>16. CASE t = k.current
  BY <1>2, <1>10, <1>15, <1>16, Reschedule, Zenon DEF SameThreads
<1>17. CASE t # k.current
  <2>1. z_is_thread_ready(k, k.current) => z_is_thread_ready(s, k.current)
    BY <1>1, <1>12, <1>17, Zenon DEF Settled, Base, Kernel
  <2>2. z_is_thread_ready(s, k.current) => z_is_thread_ready(u, k.current)
    BY <1>15, Zenon DEF SameThreads, z_is_thread_ready,
       z_is_thread_prevented_from_running
  <2> QED BY <1>1, <1>2, <1>10, <1>15, <1>17, <2>1, <2>2, Zenon DEF IInv, SameThreads
<1> QED BY <1>16, <1>17, Zenon

\* unready_thread() of the current thread caches another one.
LEMMA UnreadyCurrent ==
    ASSUME NumMetairq = 0, IInv(k), InThread
    PROVE  LET t == k.current
               u == unready_thread(k, t)
           IN  /\ t \in Threads /\ t \in Runnables /\ Base(u) /\ Settled(k)
               /\ z_is_thread_ready(k, t)
               /\ u.state = [k.state EXCEPT ![t] = @ \ {"QUEUED"}]
               /\ u.waitq = k.waitq /\ u.pended_on = k.pended_on
               /\ u.timeout = k.timeout /\ u.in_isr = k.in_isr
               /\ u.ending = NULL /\ u.current = t /\ u.prio = k.prio
               /\ u.cache # t /\ u.cache \in Runnables /\ z_is_thread_ready(k, u.cache)
               /\ IsBest(u, u.cache)
<1> DEFINE t == k.current
           d == DequeueIfQueued(k, t)
           u == update_cache(d, TRUE)
<1>1. /\ k.ending = NULL /\ Settled(k) /\ Base(k) /\ t \in Threads /\ t \in Runnables
      /\ z_is_thread_ready(k, t)
  BY CallerReady, Zenon
<1>2. /\ Base(d) /\ OnlyQueue(d, k)
      /\ d.state = [k.state EXCEPT ![t] = @ \ {"QUEUED"}]
  BY <1>1, DequeueQueued, Zenon
<1>3. unready_thread(k, t) = u
  BY ZenonT(40) DEF unready_thread
<1> HIDE DEF d
<1>4. /\ u \in Kernel /\ SameThreads(u, d) /\ u.current = d.current
      /\ \/ u.cache = Idle
         \/ u.cache \in Threads /\ z_is_thread_queued(d, u.cache)
      /\ IsBest(d, u.cache)
  BY ZenonT(40), <1>2, UpdateCache
<1> HIDE DEF u
<1>5. Base(u)
  BY <1>2, <1>4, SameThreadsBase, Zenon
<1>6. k.state \in [Runnables -> SUBSET Flags]
  BY <1>1, StateTypes, Zenon DEF Base
<1>7. u.cache # t /\ u.cache \in Runnables /\ z_is_thread_ready(k, u.cache)
  <2>1. CASE u.cache = Idle
    BY <1>1, <2>1, QueuesTypes, Zenon DEF Base, Kernel, z_is_thread_ready,
       z_is_thread_prevented_from_running
  <2>2. CASE u.cache \in Threads /\ z_is_thread_queued(d, u.cache)
    <3>1. u.cache # t /\ u.cache \in Runnables
      BY SMTT(40), <1>1, <1>2, <1>6, <2>2, QueuesTypes DEF z_is_thread_queued
    <3>2. z_is_thread_queued(k, u.cache)
      BY <1>1, <1>2, <1>6, <2>2, <3>1, Zenon DEF z_is_thread_queued
    <3> QED BY <1>1, <2>2, <3>1, <3>2, Zenon DEF Settled, QueuedReady
  <2> QED BY <1>4, <2>1, <2>2, Zenon
<1>8. IsBest(u, u.cache)
  BY <1>4, Zenon DEF IsBest, z_is_thread_queued, SameThreads
<1> QED BY <1>1, <1>2, <1>3, <1>4, <1>5, <1>7, <1>8, Zenon DEF SameThreads, OnlyQueue

\* Blocking the current thread after unready_thread() settles the scheduler.
LEMMA Blocks ==
    ASSUME IInv(k), InThread, NEW f, Base(f), k.current \in Threads,
           f.ending = NULL, f.current = k.current,
           f.cache # k.current, f.cache \in Runnables, z_is_thread_ready(k, f.cache),
           IsBest(f, f.cache),
           \A v \in Runnables \ {k.current} : /\ f.state[v] = k.state[v]
                                              /\ v \in f.timeout <=> v \in k.timeout,
           \A v \in Threads \ {k.current} : f.pended_on[v] = k.pended_on[v],
           \A v \in Threads : "DEAD" \in k.state[v] => f.waitq[v] = k.waitq[v],
           "QUEUED" \notin f.state[k.current], "DEAD" \notin f.state[k.current],
           z_is_thread_prevented_from_running(f, k.current)
    PROVE  IInv(z_swap(f))
<1>1. Settled(k) /\ k.ending = NULL
  BY Zenon DEF IInv, InThread
<1>2. \A v \in Runnables \ {k.current} : z_is_thread_ready(f, v) <=> z_is_thread_ready(k, v)
  BY Zenon DEF z_is_thread_ready, z_is_thread_prevented_from_running
<1>3. \A v \in Threads : QueuedReady(f, v)
  <2>1. QueuedReady(f, k.current)
    BY Zenon DEF QueuedReady, z_is_thread_queued, z_is_thread_ready
  <2>2. \A v \in Threads \ {k.current} : z_is_thread_queued(f, v) <=> z_is_thread_queued(k, v)
    BY QueuesTypes, Zenon DEF z_is_thread_queued
  <2>3. \A v \in Threads \ {k.current} : QueuedReady(f, v)
    BY <1>1, <1>2, <2>2, QueuesTypes, Zenon DEF Settled, QueuedReady
  <2> QED BY <2>1, <2>3
<1>4. Forgotten(f)
  <2> SUFFICES ASSUME NEW v \in Threads, "DEAD" \in f.state[v]
               PROVE  /\ f.pended_on[v] = NULL
                      /\ v \notin f.timeout
                      /\ f.waitq[v] = <<>>
    BY Zenon DEF Forgotten
  <2>1. v # k.current /\ v \in Runnables
    BY QueuesTypes, Zenon
  <2>2. "DEAD" \in k.state[v]
    BY <2>1, Zenon
  <2>3. k.pended_on[v] = NULL /\ v \notin k.timeout /\ k.waitq[v] = <<>>
    BY SMTT(40), <1>1, <2>2, QueuesTypes DEF Settled, Forgotten
  <2> QED BY <2>1, <2>2, <2>3, Zenon
<1>5. z_is_thread_ready(f, f.cache)
  BY <1>2, Zenon
<1>6. Settled(f)
  BY <1>3, <1>4, <1>5, Zenon DEF Settled, EndingDead, CachedBest
<1> QED BY <1>6, Swap, Zenon

\* adding or not adding a timeout
LEMMA AddTimeout ==
    ASSUME NEW s, Base(s), NEW t \in Threads, NEW forever \in BOOLEAN
    PROVE  LET r == add_thread_timeout(s, t, forever)
           IN  /\ Base(r)
               /\ \A v : v # t => (v \in r.timeout <=> v \in s.timeout)
               /\ r.state = s.state /\ r.prio = s.prio /\ r.runq = s.runq
               /\ r.waitq = s.waitq /\ r.pended_on = s.pended_on
               /\ r.ending = s.ending /\ r.in_isr = s.in_isr
               /\ r.current = s.current /\ r.cache = s.cache
<1> DEFINE r == add_thread_timeout(s, t, forever)
<1>1. s \in Kernel
  BY Zenon DEF Base
<1>2. /\ r \in Kernel /\ \A v : v # t => (v \in r.timeout <=> v \in s.timeout)
      /\ r.state = s.state /\ r.prio = s.prio /\ r.runq = s.runq
      /\ r.waitq = s.waitq /\ r.pended_on = s.pended_on
      /\ r.ending = s.ending /\ r.in_isr = s.in_isr
      /\ r.current = s.current /\ r.cache = s.cache
      /\ r.metairq_preempted = s.metairq_preempted
  BY ZenonT(40), <1>1 DEF add_thread_timeout, Kernel
<1> HIDE DEF r
<1>3. Base(r)
  BY <1>2 DEF Base, Linked, Waits, z_is_thread_queued
<1> QED BY <1>2, <1>3, Zenon DEF r

\* z_tick_sleep() preserves the invariant.
LEMMA SleepInv ==
    ASSUME NumMetairq = 0, IInv(k), z_tick_sleep
    PROVE  IInv(k')
<1> DEFINE t == k.current
           u == unready_thread(k, t)
           a == add_thread_timeout(u, t, FALSE)
           f == [a EXCEPT !.state[t] = @ \cup {"SUSPENDED"}]
<1>1. InThread /\ k' = z_swap(f)
  BY Zenon DEF z_tick_sleep
<1>2. /\ t \in Threads /\ t \in Runnables /\ Base(u) /\ Settled(k)
      /\ z_is_thread_ready(k, t)
      /\ u.state = [k.state EXCEPT ![t] = @ \ {"QUEUED"}]
      /\ u.waitq = k.waitq /\ u.pended_on = k.pended_on
      /\ u.timeout = k.timeout /\ u.in_isr = k.in_isr
      /\ u.ending = NULL /\ u.current = t /\ u.prio = k.prio
      /\ u.cache # t /\ u.cache \in Runnables /\ z_is_thread_ready(k, u.cache)
      /\ IsBest(u, u.cache)
  BY <1>1, UnreadyCurrent, Zenon
<1> HIDE DEF u
<1>3. /\ Base(a) /\ \A v : v # t => (v \in a.timeout <=> v \in u.timeout)
      /\ a.state = u.state /\ a.waitq = u.waitq /\ a.pended_on = u.pended_on
      /\ a.ending = u.ending /\ a.current = u.current /\ a.cache = u.cache
      /\ a.prio = u.prio
  BY ZenonT(40), <1>2, AddTimeout
<1> HIDE DEF a
<1>4. /\ Base(f) /\ OnlyQueue(f, a)
      /\ f.state = [a.state EXCEPT ![t] = @ \cup {"SUSPENDED"}]
  BY <1>2, <1>3, MarkSuspended
<1> HIDE DEF f
<1>5. k.state \in [Runnables -> SUBSET Flags]
  BY <1>2, StateTypes, Zenon DEF Settled, Base
<1>6. /\ f.state[t] = (k.state[t] \ {"QUEUED"}) \cup {"SUSPENDED"}
      /\ \A v \in Runnables \ {t} : f.state[v] = k.state[v]
  BY <1>2, <1>3, <1>4, <1>5
<1>7. "DEAD" \notin k.state[t]
  BY <1>2, Zenon DEF z_is_thread_ready, z_is_thread_prevented_from_running
<1>8. /\ "QUEUED" \notin f.state[t] /\ "DEAD" \notin f.state[t]
      /\ z_is_thread_prevented_from_running(f, t)
  BY <1>6, <1>7, Zenon DEF z_is_thread_prevented_from_running
<1>9. /\ f.ending = NULL /\ f.current = t /\ f.cache # t /\ f.cache \in Runnables
      /\ z_is_thread_ready(k, f.cache) /\ f.waitq = k.waitq /\ f.pended_on = k.pended_on
      /\ \A v : v # t => (v \in f.timeout <=> v \in k.timeout)
  BY <1>2, <1>3, <1>4, Zenon DEF OnlyQueue
<1>10. IsBest(f, f.cache)
  <2>1. \A v \in Threads : z_is_thread_queued(f, v) => z_is_thread_queued(u, v)
    BY <1>2, <1>3, <1>4, <1>5, QueuesTypes DEF z_is_thread_queued
  <2> QED BY <1>2, <1>3, <1>4, <2>1 DEF IsBest, OnlyQueue
<1> QED BY ZenonT(40), <1>1, <1>2, <1>4, <1>6, <1>8, <1>9, <1>10, Blocks

-----------------------------------------------------------------------------
(* Pending, abort and the end of a thread.                                 *)

\* add_to_waitq_locked() after its unready_thread(): t goes on the wait queue.
PutOnWaitq(s, t, w) ==
    [s EXCEPT !.state[t] = @ \cup {"PENDING"},
              !.pended_on[t] = w,
              !.waitq[w] = z_priq_dumb_add(@, s.prio, t)]

\* Linking a thread that is not pending into a wait queue keeps the base
\* invariant.
LEMMA AddToWaitq ==
    ASSUME NEW s, Base(s), NEW t \in Threads, NEW w \in Queues,
           "PENDING" \notin s.state[t]
    PROVE  LET r == PutOnWaitq(s, t, w)
           IN  /\ Base(r)
               /\ r.state = [s.state EXCEPT ![t] = @ \cup {"PENDING"}]
               /\ r.pended_on = [s.pended_on EXCEPT ![t] = w]
               /\ \A v \in Queues : v # w => r.waitq[v] = s.waitq[v]
               /\ r.timeout = s.timeout /\ r.ending = s.ending
               /\ r.in_isr = s.in_isr /\ r.current = s.current /\ r.cache = s.cache
               /\ r.prio = s.prio
<1> DEFINE r == PutOnWaitq(s, t, w)
           q == z_priq_dumb_add(s.waitq[w], s.prio, t)
           st == [s.state EXCEPT ![t] = @ \cup {"PENDING"}]
           po == [s.pended_on EXCEPT ![t] = w]
           wq == [s.waitq EXCEPT ![w] = q]
<1>1. s \in Kernel /\ Linked(s) /\ Waits(s)
  BY Zenon DEF Base
<1>2. s.waitq[w] \in Seq(Threads) /\ s.waitq \in [Queues -> Seq(Threads)]
  BY <1>1, Zenon DEF Kernel
<1>3. s.pended_on[t] = NULL /\ ~OnQueue(s.waitq[w], t) /\ NoDuplicates(s.waitq[w])
  BY <1>1, QueuesTypes DEF Waits
<1>4. \A v \in Threads : s.prio[v] \in Int
  BY <1>1, PrioTypes, QueuesTypes, Zenon
<1>5. /\ q \in Seq(Threads) /\ NoDuplicates(q)
      /\ \A v : OnQueue(q, v) <=> OnQueue(s.waitq[w], v) \/ v = t
  BY <1>2, <1>3, <1>4, AddProperties
<1>6. /\ st \in [Runnables -> SUBSET Flags] /\ st[Idle] = s.state[Idle]
      /\ \A v \in Threads : st[v] = IF v = t THEN s.state[t] \cup {"PENDING"} ELSE s.state[v]
  BY <1>1, StateTypes, QueuesTypes, Zenon DEF Flags
<1>7. /\ po \in [Threads -> Queues \cup {NULL}]
      /\ \A v \in Threads : po[v] = IF v = t THEN w ELSE s.pended_on[v]
  BY <1>1, Zenon DEF Kernel
<1>8. /\ wq \in [Queues -> Seq(Threads)]
      /\ \A v \in Queues : wq[v] = IF v = w THEN q ELSE s.waitq[v]
  BY <1>2, <1>5, Zenon
<1>9. r = [s EXCEPT !.state = st, !.pended_on = po, !.waitq = wq]
  BY <1>1, Zenon DEF PutOnWaitq, Kernel
<1> HIDE DEF r, q, st, po, wq
<1>10. /\ r \in Kernel /\ r.state = st /\ r.pended_on = po /\ r.waitq = wq
       /\ r.runq = s.runq /\ r.prio = s.prio /\ r.timeout = s.timeout
       /\ r.in_isr = s.in_isr /\ r.ending = s.ending
       /\ r.current = s.current /\ r.cache = s.cache
       /\ r.metairq_preempted = s.metairq_preempted
  BY ZenonT(40), <1>1, <1>6, <1>7, <1>8, <1>9 DEF Kernel
<1>11. Linked(r)
  BY <1>1, <1>6, <1>10 DEF Linked, z_is_thread_queued
<1>12. Waits(r)
  <2>1. \A v \in Queues : NoDuplicates(r.waitq[v])
    BY <1>1, <1>5, <1>8, <1>10, Zenon DEF Waits
  <2>2. \A u \in Threads : "PENDING" \in r.state[u] <=> r.pended_on[u] # NULL
    BY SMTT(40), <1>1, <1>6, <1>7, <1>10, QueuesTypes DEF Waits
  <2>3. ASSUME NEW u \in Threads, NEW v \in Queues
        PROVE  OnQueue(r.waitq[v], u) <=> r.pended_on[u] = v
    <3>0. v # NULL
      BY QueuesTypes, Zenon
    <3>1. OnQueue(s.waitq[v], u) <=> s.pended_on[u] = v
      BY <1>1, Zenon DEF Waits
    <3>2. CASE v = w
      BY SMTT(40), <1>3, <1>5, <1>7, <1>8, <1>10, <3>0, <3>1, <3>2
    <3>3. CASE v # w
      BY <1>3, <1>7, <1>8, <1>10, <3>0, <3>1, <3>3, Zenon
    <3> QED BY <3>2, <3>3, Zenon
  <2> QED BY <2>1, <2>2, <2>3, Zenon DEF Waits
<1>13. Base(r)
  BY <1>6, <1>10, <1>11, <1>12, Zenon DEF Base
<1> QED BY <1>8, <1>10, <1>13, Zenon DEF r, st, po

\* z_pend_curr() and k_thread_join() preserve the invariant.
LEMMA PendInv ==
    ASSUME NumMetairq = 0, IInv(k), InThread, NEW w \in Queues, NEW forever \in BOOLEAN,
           w \in Threads => "DEAD" \notin k.state[w],
           k' = z_swap(add_thread_timeout(add_to_waitq_locked(k, k.current, w),
                                          k.current, forever))
    PROVE  IInv(k')
<1> DEFINE t == k.current
           u == unready_thread(k, t)
           b == PutOnWaitq(u, t, w)
           f == add_thread_timeout(b, t, forever)
<1>2. /\ t \in Threads /\ t \in Runnables /\ Base(u) /\ Settled(k)
      /\ z_is_thread_ready(k, t)
      /\ u.state = [k.state EXCEPT ![t] = @ \ {"QUEUED"}]
      /\ u.waitq = k.waitq /\ u.pended_on = k.pended_on
      /\ u.timeout = k.timeout /\ u.in_isr = k.in_isr
      /\ u.ending = NULL /\ u.current = t /\ u.prio = k.prio
      /\ u.cache # t /\ u.cache \in Runnables /\ z_is_thread_ready(k, u.cache)
      /\ IsBest(u, u.cache)
  BY UnreadyCurrent, Zenon
<1>1. k' = z_swap(f)
  BY <1>2, Zenon DEF add_to_waitq_locked, PutOnWaitq
<1> HIDE DEF u
<1>3. k.state \in [Runnables -> SUBSET Flags] /\ k.pended_on \in [Threads -> Queues \cup {NULL}]
  BY <1>2, StateTypes, Zenon DEF Settled, Base, Kernel
<1>4. "DEAD" \notin k.state[t] /\ "PENDING" \notin k.state[t]
  BY <1>2, Zenon DEF z_is_thread_ready, z_is_thread_prevented_from_running
<1>5. "PENDING" \notin u.state[t]
  BY <1>2, <1>3, <1>4, Zenon
<1>12. t \in Threads /\ Base(u)
  BY <1>2, Zenon
<1> HIDE DEF t
<1>6. /\ Base(b)
      /\ b.state = [u.state EXCEPT ![t] = @ \cup {"PENDING"}]
      /\ b.pended_on = [u.pended_on EXCEPT ![t] = w]
      /\ \A v \in Queues : v # w => b.waitq[v] = u.waitq[v]
      /\ b.timeout = u.timeout /\ b.ending = u.ending
      /\ b.in_isr = u.in_isr /\ b.current = u.current /\ b.cache = u.cache
      /\ b.prio = u.prio
  BY SMTT(40), <1>5, <1>12, AddToWaitq
<1> HIDE DEF b
<1> USE DEF t
<1>7. /\ Base(f) /\ \A v : v # t => (v \in f.timeout <=> v \in b.timeout)
      /\ f.state = b.state /\ f.waitq = b.waitq /\ f.pended_on = b.pended_on
      /\ f.ending = b.ending /\ f.current = b.current /\ f.cache = b.cache
      /\ f.prio = b.prio
  BY SMTT(40), <1>2, <1>6, AddTimeout
<1> HIDE DEF f
<1>8. /\ f.state[t] = (k.state[t] \ {"QUEUED"}) \cup {"PENDING"}
      /\ \A v \in Runnables \ {t} : f.state[v] = k.state[v]
      /\ \A v \in Threads \ {t} : f.pended_on[v] = k.pended_on[v]
  BY SMTT(40), <1>2, <1>3, <1>6, <1>7
<1>9. /\ "QUEUED" \notin f.state[t] /\ "DEAD" \notin f.state[t]
      /\ z_is_thread_prevented_from_running(f, t)
  BY <1>4, <1>8, Zenon DEF z_is_thread_prevented_from_running
<1>10. \A v \in Threads : "DEAD" \in k.state[v] => f.waitq[v] = k.waitq[v]
  BY SMTT(40), <1>2, <1>6, <1>7, QueuesTypes
<1>11. /\ f.ending = NULL /\ f.current = t /\ f.cache # t /\ f.cache \in Runnables
       /\ z_is_thread_ready(k, f.cache)
       /\ \A v : v # t => (v \in f.timeout <=> v \in k.timeout)
  BY <1>2, <1>6, <1>7, Zenon
<1>13. IsBest(f, f.cache)
  <2>1. \A v \in Threads : z_is_thread_queued(f, v) => z_is_thread_queued(u, v)
    BY SMTT(40), <1>2, <1>3, <1>6, <1>7, QueuesTypes DEF z_is_thread_queued
  <2> QED BY <1>2, <1>6, <1>7, <2>1, Zenon DEF IsBest
<1> QED BY SMTT(40), <1>1, <1>2, <1>7, <1>8, <1>9, <1>10, <1>11, <1>13, Blocks

\* Marking a thread as dead, taking it off its queues and out of the timeouts.
LEMMA AbortInv ==
    ASSUME IInv(k), NEW t \in Threads, z_thread_abort(t)
    PROVE  IInv(k')
<1> DEFINE x == k.state[t] \cup {"DEAD"}
           m == [k EXCEPT !.state[t] = x]
           d == DequeueIfQueued(m, t)
           p == UnpendIfPended(d, t)
           a == z_abort_thread_timeout(p, t)
<1>1. /\ k.ending = NULL /\ Settled(k) /\ Base(k) /\ k.current \notin k.timeout
      /\ k' = [a EXCEPT !.ending = t] /\ t \in Runnables /\ t \in Queues
  BY QueuesTypes, Zenon DEF z_thread_abort, InThreadOrIsr, IInv, Settled
<1>2. /\ k.state \in [Runnables -> SUBSET Flags] /\ x \in SUBSET Flags
      /\ k.pended_on \in [Threads -> Queues \cup {NULL}]
      /\ \A f \in {"QUEUED", "PENDING"} : f \in x <=> f \in k.state[t]
  BY <1>1, StateTypes, Zenon DEF Flags, Base, Kernel
<1> HIDE DEF x
<1>3. Base(m) /\ OnlyQueue(m, k) /\ m.state = [k.state EXCEPT ![t] = x]
  BY SMTT(40), <1>1, <1>2, SetFlags
<1> HIDE DEF m
<1>4. Base(d) /\ OnlyQueue(d, m) /\ d.state = [m.state EXCEPT ![t] = @ \ {"QUEUED"}]
  BY <1>3, DequeueQueued, Zenon
<1> HIDE DEF d
<1>5. /\ d.state[t] = x \ {"QUEUED"} /\ \A v \in Runnables \ {t} : d.state[v] = k.state[v]
      /\ d.pended_on = k.pended_on /\ d.waitq = k.waitq /\ d.timeout = k.timeout
      /\ d.current = k.current /\ d.in_isr = k.in_isr
      /\ d.state \in [Runnables -> SUBSET Flags]
  BY SMTT(40), <1>1, <1>2, <1>3, <1>4 DEF OnlyQueue
<1>6. /\ Base(p) /\ p.pended_on[t] = NULL /\ p.timeout = k.timeout
      /\ p.current = k.current /\ p.in_isr = k.in_isr
      /\ "DEAD" \in p.state[t] /\ "QUEUED" \notin p.state[t]
      /\ \A v \in Runnables \ {t} : p.state[v] = k.state[v]
      /\ \A v \in Threads \ {t} : p.pended_on[v] = k.pended_on[v]
      /\ \A v \in Queues : k.waitq[v] = <<>> => p.waitq[v] = <<>>
  <2>1. CASE d.pended_on[t] = NULL
    BY <1>2, <1>4, <1>5, <2>1, Zenon DEF UnpendIfPended, x
  <2>2. CASE d.pended_on[t] # NULL
    <3>1. p = unpend_thread_no_timeout(d, t)
      BY <2>2, Zenon DEF UnpendIfPended
    <3> HIDE DEF p
    <3>0. Base(d)
      BY <1>4, Zenon
    <3>2. /\ Base(p)
          /\ p.state = [d.state EXCEPT ![t] = @ \ {"PENDING"}]
          /\ p.pended_on = [d.pended_on EXCEPT ![t] = NULL]
          /\ \A w \in Queues : w # d.pended_on[t] => p.waitq[w] = d.waitq[w]
          /\ OnQueue(d.waitq[d.pended_on[t]], t)
          /\ p.timeout = d.timeout /\ p.in_isr = d.in_isr /\ p.current = d.current
      BY SMTT(40), <2>2, <3>0, <3>1, Unpend
    <3>3. d.waitq[d.pended_on[t]] # <<>>
      BY <3>2 DEF OnQueue
    <3>4. "DEAD" \in d.state[t] /\ "QUEUED" \notin d.state[t]
      BY <1>5, Zenon DEF x
    <3>5. /\ p.state[t] = d.state[t] \ {"PENDING"} /\ p.pended_on[t] = NULL
          /\ \A v \in Runnables \ {t} : p.state[v] = d.state[v]
          /\ \A v \in Threads \ {t} : p.pended_on[v] = d.pended_on[v]
      BY <1>1, <1>2, <1>5, <3>2, Zenon
    <3> QED BY SMTT(40), <1>5, <3>2, <3>3, <3>4, <3>5
  <2> QED BY <2>1, <2>2, Zenon
<1> HIDE DEF p
<1>7. /\ k' \in Kernel /\ k'.timeout = p.timeout \ {t} /\ k'.ending = t
      /\ k'.state = p.state /\ k'.prio = p.prio /\ k'.runq = p.runq
      /\ k'.waitq = p.waitq /\ k'.pended_on = p.pended_on
      /\ k'.in_isr = p.in_isr /\ k'.current = p.current
      /\ k'.metairq_preempted = p.metairq_preempted
  <2>1. p \in Kernel
    BY <1>6, Zenon DEF Base
  <2> QED BY ZenonT(40), <1>1, <2>1 DEF z_abort_thread_timeout, Kernel
<1>8. Base(k')
  BY <1>6, <1>7 DEF Base, Linked, Waits, z_is_thread_queued
<1>9. Forgotten(k') /\ EndingDead(k')
  <2>1. \A v \in Threads \ {t} : "DEAD" \in k'.state[v] =>
            k'.pended_on[v] = NULL /\ v \notin k'.timeout /\ k'.waitq[v] = <<>>
    BY SMTT(40), <1>1, <1>6, <1>7, QueuesTypes DEF Settled, Forgotten
  <2> QED BY <1>6, <1>7, <2>1, Zenon DEF Forgotten, EndingDead
<1>10. \A v \in Runnables \ {t} : z_is_thread_ready(k', v) <=> z_is_thread_ready(k, v)
  BY <1>6, <1>7 DEF z_is_thread_ready, z_is_thread_prevented_from_running
<1>11. \A v \in Threads : QueuedReady(k', v)
  <2>1. QueuedReady(k', t)
    BY <1>6, <1>7, Zenon DEF QueuedReady, z_is_thread_queued, z_is_thread_ready,
       z_is_thread_prevented_from_running
  <2>2. \A v \in Threads \ {t} : z_is_thread_queued(k', v) <=> z_is_thread_queued(k, v)
    BY SMTT(40), <1>6, <1>7, QueuesTypes DEF z_is_thread_queued
  <2>3. \A v \in Threads \ {t} : QueuedReady(k', v)
    BY <1>1, <1>10, <2>2, QueuesTypes, Zenon DEF Settled, QueuedReady
  <2> QED BY <2>1, <2>3, Zenon
<1>12. k'.ending # NULL
  BY <1>7, QueuesTypes, Zenon
<1>13. ~k'.in_isr /\ k'.ending # k'.current => z_is_thread_ready(k', k'.current)
  <2>1. k.current \in Runnables /\ k.ending # k.current
    BY <1>1, QueuesTypes, Zenon DEF Base, Kernel
  <2> QED BY <1>6, <1>7, <1>10, <2>1, Zenon DEF IInv
<1> QED BY SMTT(40), <1>1, <1>6, <1>7, <1>8, <1>9, <1>11, <1>12, <1>13 DEF IInv, Settled

\* end_thread() past its join queue preserves the invariant.
LEMMA EndThreadInv ==
    ASSUME NumMetairq = 0, IInv(k), end_thread
    PROVE  IInv(k')
<1> DEFINE m == [k EXCEPT !.ending = NULL]
           s == update_cache(m, TRUE)
<1>1. /\ k.ending # NULL /\ k.waitq[k.ending] = <<>> /\ Settled(k) /\ Base(k)
      /\ k.current \notin k.timeout
      /\ k' = IF k.ending = k.current THEN z_reschedule(s) ELSE s
  BY Zenon DEF end_thread, IInv, Settled
<1>2. /\ m \in Kernel /\ m.timeout = k.timeout /\ m.ending = NULL
      /\ m.state = k.state /\ m.prio = k.prio /\ m.runq = k.runq
      /\ m.waitq = k.waitq /\ m.pended_on = k.pended_on
      /\ m.in_isr = k.in_isr /\ m.current = k.current
      /\ m.metairq_preempted = k.metairq_preempted
  BY ZenonT(40), <1>1 DEF Base, Kernel
<1> HIDE DEF m
<1>3. Base(m)
  BY <1>1, <1>2 DEF Base, Linked, Waits, z_is_thread_queued
<1>4. Forgotten(m) /\ EndingDead(m)
  BY <1>1, <1>2, Zenon DEF Settled, Forgotten, EndingDead
<1>5. \A v \in Threads : QueuedReady(m, v)
  BY <1>1, <1>2, Zenon DEF Settled, QueuedReady, z_is_thread_queued, z_is_thread_ready,
     z_is_thread_prevented_from_running
<1>6. Settled(s) /\ SameThreads(s, m) /\ s.current = m.current
  BY ZenonT(40), <1>1, <1>2, <1>3, <1>4, <1>5, Recache
<1> HIDE DEF s
<1>7. CASE k.ending = k.current
  BY <1>1, <1>2, <1>6, <1>7, Reschedule, Zenon DEF SameThreads
<1>8. CASE k.ending # k.current
  <2>1. ~s.in_isr => z_is_thread_ready(s, s.current)
    BY <1>2, <1>6, <1>8, Zenon DEF IInv, SameThreads, z_is_thread_ready,
       z_is_thread_prevented_from_running
  <2> QED BY <1>1, <1>2, <1>6, <1>8, <2>1, Zenon DEF IInv, SameThreads
<1> QED BY <1>7, <1>8, Zenon

-----------------------------------------------------------------------------
\* The initial states satisfy the invariant.
LEMMA InitInv == Init => IInv(k)
<1> SUFFICES ASSUME Init PROVE IInv(k)
  BY Zenon
<1>1. PICK main \in Threads, prio \in [Threads -> NewPrios] :
      \E delayed \in SUBSET (Threads \ {main}) :
        k = [state |-> [t \in Runnables |->
                            IF t = main THEN {"QUEUED"}
                            ELSE IF t = Idle THEN {} ELSE {"PRESTART"}],
             prio |-> [t \in Runnables |->
                            IF t = Idle THEN NumPreempt ELSE prio[t]],
             locks |-> [t \in Runnables |-> 0],
             runq |-> <<main>>,
             waitq |-> [w \in Queues |-> <<>>],
             pended_on |-> [t \in Threads |-> NULL],
             timeout |-> delayed,
             current |-> main,
             cache |-> main,
             metairq_preempted |-> NULL,
             slice_expired |-> FALSE,
             slice_timeout |-> FALSE,
             in_isr |-> FALSE,
             ending |-> NULL]
  BY ZenonT(40) DEF Init
<1>2. /\ k.state = [t \in Runnables |-> IF t = main THEN {"QUEUED"}
                                        ELSE IF t = Idle THEN {} ELSE {"PRESTART"}]
      /\ k.prio = [t \in Runnables |-> IF t = Idle THEN NumPreempt ELSE prio[t]]
      /\ k.locks = [t \in Runnables |-> 0]
      /\ k.runq = <<main>>
      /\ k.waitq = [w \in Queues |-> <<>>]
      /\ k.pended_on = [t \in Threads |-> NULL]
      /\ k.timeout \in SUBSET (Threads \ {main})
      /\ k.current = main /\ k.cache = main /\ k.metairq_preempted = NULL
      /\ k.slice_expired = FALSE /\ k.slice_timeout = FALSE
      /\ k.in_isr = FALSE /\ k.ending = NULL
  BY <1>1
<1>3. k \in Kernel
  <2>1. k.prio \in [Runnables -> Prios \cup {NumPreempt}]
    BY <1>2, PrioAssumption, Zenon DEF Runnables
  <2>2. k.state \in [Runnables -> SUBSET Flags]
    BY <1>2 DEF Flags
  <2>3. k.runq \in Seq(Threads) /\ k.waitq \in [Queues -> Seq(Threads)]
    BY <1>2
  <2> QED BY <1>1, <1>2, <2>1, <2>2, <2>3, QueuesTypes DEF Kernel
<1>4. main \in Runnables /\ main # Idle
  BY QueuesTypes, Zenon
<1>5. /\ k.state[main] = {"QUEUED"} /\ k.state[Idle] = {}
      /\ \A t \in Threads \ {main} : k.state[t] = {"PRESTART"}
  BY <1>2, <1>4, QueuesTypes
<1>6. Linked(k)
  <2>1. Len(k.runq) = 1 /\ k.runq[1] = main
    BY <1>2
  <2>2. NoDuplicates(k.runq) /\ InPriorityOrder(k.runq, k.prio)
    BY <2>1 DEF NoDuplicates, InPriorityOrder
  <2>3. \A t \in Threads : OnQueue(k.runq, t) <=> t = main
    BY <2>1 DEF OnQueue
  <2> QED BY <1>5, <2>2, <2>3, Zenon DEF Linked, z_is_thread_queued
<1>7. Waits(k)
  <2>1. \A w \in Queues : Len(k.waitq[w]) = 0
    BY <1>2
  <2>2. \A w \in Queues : /\ NoDuplicates(k.waitq[w])
                          /\ \A t \in Threads : ~OnQueue(k.waitq[w], t)
    BY <2>1 DEF NoDuplicates, OnQueue
  <2> QED BY SMTT(40), <1>2, <1>5, <2>2, QueuesTypes DEF Waits
<1>8. Base(k)
  BY ZenonT(40), <1>2, <1>3, <1>5, <1>6, <1>7 DEF Base
<1>9. z_is_thread_ready(k, main)
  BY <1>2, <1>5, Zenon DEF z_is_thread_ready, z_is_thread_prevented_from_running
<1>10. \A t \in Threads : QueuedReady(k, t)
  BY <1>5, <1>9 DEF QueuedReady, z_is_thread_queued, z_is_thread_ready,
     z_is_thread_prevented_from_running
<1>11. Forgotten(k) /\ EndingDead(k)
  BY <1>2, <1>5 DEF Forgotten, EndingDead
<1>12. CachedBest(k)
  <2>1. \A t \in Threads : z_is_thread_queued(k, t) => t = main
    BY <1>5 DEF z_is_thread_queued
  <2>2. k.prio[main] \in Int
    BY <1>3, <1>4, PrioTypes, Zenon
  <2> QED BY <1>2, <2>1, <2>2 DEF CachedBest, IsBest
<1> QED BY <1>2, <1>8, <1>9, <1>10, <1>11, <1>12, Zenon DEF IInv, Settled

\* Every step preserves the invariant.
LEMMA NextInv ==
    ASSUME NumMetairq = 0, IInv(k), [Next]_k
    PROVE  IInv(k')
<1>1. CASE UNCHANGED k
  BY <1>1, Zenon
<1>2. ASSUME NEW t \in Threads,
             \/ z_sched_start(t) \/ k_thread_suspend(t) \/ k_thread_resume(t)
             \/ k_wakeup(t) \/ z_thread_abort(t) \/ z_thread_timeout(t)
      PROVE  IInv(k')
  BY <1>2, StartInv, SuspendInv, ResumeInv, WakeupInv, AbortInv, TimeoutInv, Zenon
<1>3. ASSUME NEW t \in Threads, NEW p \in NewPrios, k_thread_priority_set(t, p)
      PROVE  IInv(k')
  BY <1>3, PrioritySetInv, Zenon
<1>4. ASSUME NEW t \in Threads, NEW forever \in BOOLEAN, k_thread_join(t, forever)
      PROVE  IInv(k')
  BY <1>4, PendInv, QueuesTypes, Zenon DEF k_thread_join, Alive
<1>5. ASSUME NEW w \in Objects, NEW forever \in BOOLEAN, z_pend_curr(w, forever)
      PROVE  IInv(k')
  <2>1. w \in Queues /\ w \notin Threads
    BY ThreadAssumption, Zenon DEF Queues
  <2> QED BY <1>5, <2>1, PendInv, Zenon DEF z_pend_curr
<1>6. ASSUME NEW w \in Objects, z_sched_wake(w)
      PROVE  IInv(k')
  BY <1>6, WakeInv, Zenon
<1>7. CASE \/ z_tick_sleep \/ k_yield \/ k_sched_lock \/ k_sched_unlock
           \/ unpend_all \/ end_thread
  BY SMTT(40), <1>7, SleepInv, YieldInv, SchedLockInv, UnpendAllInv, EndThreadInv
<1>8. CASE \/ IsrEnter \/ z_get_next_switch_handle
           \/ slice_timeout \/ sys_clock_announce
  BY <1>8, IsrInv, SliceTimeoutInv, Zenon
<1> QED BY <1>1, <1>2, <1>3, <1>4, <1>5, <1>6, <1>7, <1>8, Zenon DEF Next

\* Without meta-IRQ priorities the scheduler's inductive invariant holds in
\* every state kernel/sched.c can reach, for any threads and objects.
THEOREM SchedulerInvariant ==
    ASSUME NumMetairq = 0
    PROVE  Spec => []IInv(k)
<1>1. Init => IInv(k)
  BY InitInv, Zenon
<1>2. IInv(k) /\ [Next]_k => IInv(k)'
  BY NextInv, Zenon
<1> QED BY <1>1, <1>2, PTL DEF Spec

\* Every field of a thread and of _kernel keeps its type: in particular the
\* cached and the current thread always exist.
THEOREM TypeCorrect ==
    ASSUME NumMetairq = 0
    PROVE  Spec => []TypeOK
<1>1. IInv(k) => TypeOK
  BY Zenon DEF IInv, Settled, Base, TypeOK
<1> QED BY <1>1, SchedulerInvariant, PTL

\* queue_thread() and dequeue_thread() are called so that the ready queue holds
\* exactly the ready threads, once each, in priority order.
THEOREM ReadyQueueCorrect ==
    ASSUME NumMetairq = 0
    PROVE  Spec => []ReadyQueueExact
<1>1. IInv(k) => ReadyQueueExact
  BY Zenon DEF IInv, Settled, Base, Linked, QueuedReady, ReadyQueueExact
<1> QED BY <1>1, SchedulerInvariant, PTL

\* add_to_waitq_locked() and unpend_thread_no_timeout() keep every pending
\* thread on exactly the wait queue its pended_on names.
THEOREM WaitQueuesCorrect ==
    ASSUME NumMetairq = 0
    PROVE  Spec => []WaitQueuesExact
<1>1. IInv(k) => WaitQueuesExact
  BY Zenon DEF IInv, Settled, Base, Waits, WaitQueuesExact
<1> QED BY <1>1, SchedulerInvariant, PTL

\* Outside interrupts the current thread is never pending, suspended, dead or
\* not yet started, as z_tick_sleep() and z_thread_abort() assert.
THEOREM CurrentMayRunCorrect ==
    ASSUME NumMetairq = 0
    PROVE  Spec => []CurrentMayRun
<1>1. IInv(k) => CurrentMayRun
  <2>1. IInv(k) => k.current # NULL
    BY QueuesTypes, Zenon DEF IInv, Settled, Base, Kernel
  <2> QED BY <2>1, Zenon DEF IInv, CurrentMayRun, z_is_thread_ready
<1> QED BY <1>1, SchedulerInvariant, PTL

\* update_cache() runs after every change of the ready queue, the priorities and
\* the scheduler lock that it depends on: whenever the current thread may be
\* preempted, the thread the next context switch goes to is a best ready one.
THEOREM CacheIsBestCorrect ==
    ASSUME NumMetairq = 0
    PROVE  Spec => []CacheIsBest
<1>1. IInv(k) => CacheIsBest
  BY Zenon DEF IInv, Settled, CachedBest, IsBest, QueuedReady, CacheIsBest
<1> QED BY <1>1, SchedulerInvariant, PTL

\* Once end_thread() is done nobody waits for the thread any more, and it waits
\* for nothing and has no timeout.
THEOREM DeadIsForgottenCorrect ==
    ASSUME NumMetairq = 0
    PROVE  Spec => []DeadIsForgotten
<1>1. IInv(k) => DeadIsForgotten
  BY Zenon DEF IInv, Settled, Forgotten, DeadIsForgotten
<1> QED BY <1>1, SchedulerInvariant, PTL
=============================================================================
