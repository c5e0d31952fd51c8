----------------------------- MODULE PendProofs -----------------------------
(***************************************************************************)
(* What the primitives of Pend make of threads and wait queues that agree, *)
(* for any number of threads and objects: one lemma per primitive says     *)
(* that they still agree, and what has changed.                            *)
(***************************************************************************)
EXTENDS Pend, PriqProofs

\* Threads, their timeouts and the wait queues agree: a thread is ready, or is
\* on the wait queue it is pended on and on no other, or is the one that is being
\* woken; one that is not ready will return -EAGAIN unless it is told otherwise,
\* only a pended one has a timeout, and the timeout whose handler has not been
\* called is not linked again.
Sound(s) ==
    /\ s \in Pending
    /\ \A w \in Objects : NoDuplicates(s.waitq[w])
    /\ \A t \in Threads :
          /\ \A w \in Objects : OnQueue(s.waitq[w], t) <=> s.pended_on[t] = w
          /\ t \in s.timeout => s.pended_on[t] # NULL
          /\ t \in s.ready <=> s.pended_on[t] = NULL /\ s.waking # t
          /\ t \notin s.ready => s.swap_retval[t] = "EAGAIN"
          /\ s.waking = t => s.pended_on[t] = NULL
          /\ s.expired = t => t \notin s.timeout

\* a primitive changes nobody's priority, and no wait queue but that of w; it
\* keeps that one in order of priority
OnlyQueue(r, s, w) ==
    /\ r.prio = s.prio
    /\ \A v \in Objects : v # w => r.waitq[v] = s.waitq[v]
    /\ InPriorityOrder(s.waitq[w], s.prio) => InPriorityOrder(r.waitq[w], s.prio)

\* The types of a thread's and an object's fields.
LEMMA PendTypes ==
    ASSUME NEW s \in Pending
    PROVE  /\ NULL \notin Threads /\ NULL \notin Objects
           /\ \A w \in Objects : s.waitq[w] \in Seq(Threads)
           /\ \A t \in Threads : /\ s.pended_on[t] \in Objects \cup {NULL}
                                 /\ s.prio[t] \in Prios /\ s.prio[t] \in Int
           /\ s.waking \in Threads \cup {NULL} /\ s.expired \in Threads \cup {NULL}
           /\ s.ready \subseteq Threads
BY PendAssumption, ZenonT(40) DEF Pending

\* Nobody is on an empty wait queue, and somebody on any other.
LEMMA WaitqEmpty ==
    ASSUME NEW s, Sound(s), NEW w \in Objects
    PROVE  s.waitq[w] = <<>> <=> \A t \in Threads : s.pended_on[t] # w
<1>1. s.waitq[w] \in Seq(Threads)
  BY PendTypes DEF Sound
<1>2. s.waitq[w] = <<>> <=> \A t \in Threads : ~OnQueue(s.waitq[w], t)
  <2>1. CASE s.waitq[w] = <<>>
    BY <2>1 DEF OnQueue
  <2>2. CASE s.waitq[w] # <<>>
    <3>1. 1 \in 1 .. Len(s.waitq[w]) /\ s.waitq[w][1] \in Threads
      BY <1>1, <2>2
    <3> QED BY <2>2, <3>1 DEF OnQueue
  <2> QED BY <2>1, <2>2
<1> QED BY <1>2 DEF Sound

\* The first of a wait queue in order of priority has the highest one.
LEMMA WaitqHead ==
    ASSUME NEW s, Sound(s), NEW w \in Objects, s.waitq[w] # <<>>
    PROVE  LET t == z_priq_dumb_best(s.waitq[w])
           IN  /\ t \in Threads /\ s.pended_on[t] = w
               /\ InPriorityOrder(s.waitq[w], s.prio) =>
                     \A u \in Threads : s.pended_on[u] = w => s.prio[t] <= s.prio[u]
<1> DEFINE q == s.waitq[w]
<1>1. q \in Seq(Threads) /\ s \in Pending
  BY PendTypes DEF Sound
<1>2. 1 \in 1 .. Len(q) /\ q[1] \in Threads
  BY <1>1
<1>3. s.pended_on[q[1]] = w
  BY <1>2 DEF Sound, OnQueue
<1>4. ASSUME InPriorityOrder(q, s.prio), NEW u \in Threads, s.pended_on[u] = w
      PROVE  s.prio[q[1]] <= s.prio[u]
  <2>1. PICK j \in 1 .. Len(q) : q[j] = u
    BY <1>4 DEF Sound, OnQueue
  <2>2. CASE j = 1
    BY <1>1, <2>1, <2>2, PendTypes
  <2>3. CASE 1 < j
    BY <1>2, <1>4, <2>1, <2>3 DEF InPriorityOrder
  <2> QED BY <1>2, <2>1, <2>2, <2>3
<1> QED BY <1>2, <1>3, <1>4 DEF z_priq_dumb_best

\* At first every thread is ready.
LEMMA InitSound ==
    ASSUME NEW prio \in [Threads -> Prios]
    PROVE  LET s == PendInit(prio)
           IN  /\ Sound(s) /\ s.ready = Threads /\ s.prio = prio
               /\ s.waking = NULL /\ s.expired = NULL
               /\ \A w \in Objects : s.waitq[w] = <<>>
<1> DEFINE s == PendInit(prio)
<1>1. s \in Pending
  BY DEF PendInit, Pending, Retvals
<1>2. /\ s.ready = Threads /\ s.prio = prio /\ s.waking = NULL /\ s.expired = NULL
      /\ s.timeout = {} /\ \A t \in Threads : s.pended_on[t] = NULL
      /\ \A w \in Objects : s.waitq[w] = <<>>
  BY DEF PendInit
<1>3. NoDuplicates(<<>>) /\ \A t : ~OnQueue(<<>>, t)
  BY DEF NoDuplicates, OnQueue
<1> HIDE DEF s
<1>4. Sound(s)
  BY <1>1, <1>2, <1>3, PendTypes DEF Sound
<1> QED BY <1>2, <1>4 DEF s

\* z_pend_curr() puts the caller on the wait queue.
LEMMA PendSound ==
    ASSUME NEW s, Sound(s), NEW t \in Threads, t \in s.ready, s.expired = NULL,
           NEW w \in Objects, NEW wait
    PROVE  LET r == z_pend_curr(s, t, w, wait)
           IN  /\ Sound(r) /\ OnlyQueue(r, s, w)
               /\ r.ready = s.ready \ {t} /\ r.waking = s.waking /\ r.expired = NULL
               /\ \A u \in Threads :
                     /\ r.pended_on[u] = IF u = t THEN w ELSE s.pended_on[u]
                     /\ r.swap_retval[u] = IF u = t THEN "EAGAIN" ELSE s.swap_retval[u]
<1> DEFINE r == z_pend_curr(s, t, w, wait)
           q == z_priq_dumb_add(s.waitq[w], s.prio, t)
<1>1. s \in Pending
  BY DEF Sound
<1>2. ~OnQueue(s.waitq[w], t) /\ s.pended_on[t] = NULL /\ t \notin s.timeout
  BY <1>1, PendTypes DEF Sound
<1>3. /\ q \in Seq(Threads) /\ NoDuplicates(q)
      /\ \A u : OnQueue(q, u) <=> OnQueue(s.waitq[w], u) \/ u = t
      /\ InPriorityOrder(s.waitq[w], s.prio) => InPriorityOrder(q, s.prio)
  BY <1>1, <1>2, PendTypes, AddProperties DEF Sound
<1> HIDE DEF q
<1>4. /\ r.ready = s.ready \ {t} /\ r.waking = s.waking /\ r.expired = s.expired
      /\ r.pended_on = [s.pended_on EXCEPT ![t] = w] /\ r.prio = s.prio
      /\ r.waitq = [s.waitq EXCEPT ![w] = q]
      /\ r.timeout = IF wait = "FOREVER" THEN s.timeout ELSE s.timeout \cup {t}
      /\ r.swap_retval = [s.swap_retval EXCEPT ![t] = "EAGAIN"]
  BY <1>1 DEF z_pend_curr, Pending, q
<1>5. r \in Pending
  BY <1>1, <1>3, ZenonT(40) DEF z_pend_curr, Pending, Retvals, q
<1>6. \A v \in Objects : r.waitq[v] = IF v = w THEN q ELSE s.waitq[v]
  BY <1>1, <1>4 DEF Pending
<1>7. \A u \in Threads :
         /\ r.pended_on[u] = IF u = t THEN w ELSE s.pended_on[u]
         /\ r.swap_retval[u] = IF u = t THEN "EAGAIN" ELSE s.swap_retval[u]
  BY <1>1, <1>4 DEF Pending
<1> HIDE DEF r
<1>8. Sound(r)
  BY <1>1, <1>2, <1>3, <1>4, <1>5, <1>6, <1>7, PendTypes DEF Sound
<1> QED BY <1>3, <1>4, <1>6, <1>7, <1>8 DEF OnlyQueue, r

\* unpend_thread_no_timeout() takes the thread off its wait queue.
LEMMA UnpendFields ==
    ASSUME NEW s, Sound(s), NEW t \in Threads, s.pended_on[t] # NULL
    PROVE  LET r == unpend_thread_no_timeout(s, t)
               w == s.pended_on[t]
           IN  /\ r \in Pending /\ w \in Objects /\ OnlyQueue(r, s, w)
               /\ \A v \in Objects : NoDuplicates(r.waitq[v])
               /\ \A u \in Threads :
                     /\ \A v \in Objects : OnQueue(r.waitq[v], u) <=> r.pended_on[u] = v
                     /\ r.pended_on[u] = IF u = t THEN NULL ELSE s.pended_on[u]
               /\ r.ready = s.ready /\ r.timeout = s.timeout /\ r.expired = s.expired
               /\ r.waking = s.waking /\ r.swap_retval = s.swap_retval
<1> DEFINE r == unpend_thread_no_timeout(s, t)
           w == s.pended_on[t]
           q == z_priq_dumb_remove(s.waitq[w], t)
<1>1. s \in Pending /\ w \in Objects /\ OnQueue(s.waitq[w], t)
  BY PendTypes DEF Sound
<1>2. /\ q \in Seq(Threads) /\ NoDuplicates(q)
      /\ \A u : OnQueue(q, u) <=> OnQueue(s.waitq[w], u) /\ u # t
      /\ InPriorityOrder(s.waitq[w], s.prio) => InPriorityOrder(q, s.prio)
  BY <1>1, PendTypes, RemoveProperties DEF Sound
<1>3. r = [s EXCEPT !.waitq[w] = q, !.pended_on[t] = NULL]
  BY DEF unpend_thread_no_timeout
<1>4. s.pended_on[t] = w
  OBVIOUS
<1> HIDE DEF q, w, r
<1>5. /\ r.waitq = [s.waitq EXCEPT ![w] = q]
      /\ r.pended_on = [s.pended_on EXCEPT ![t] = NULL]
      /\ r.ready = s.ready /\ r.timeout = s.timeout /\ r.expired = s.expired
      /\ r.waking = s.waking /\ r.swap_retval = s.swap_retval /\ r.prio = s.prio
  BY <1>1, <1>3 DEF Pending
<1>6. r \in Pending
  BY <1>1, <1>2, <1>3, ZenonT(40) DEF Pending
<1>7. \A v \in Objects : r.waitq[v] = IF v = w THEN q ELSE s.waitq[v]
  BY <1>1, <1>5 DEF Pending
<1>8. \A u \in Threads : r.pended_on[u] = IF u = t THEN NULL ELSE s.pended_on[u]
  BY <1>1, <1>5 DEF Pending
<1>9. \A v \in Objects : NoDuplicates(r.waitq[v])
  BY <1>2, <1>7 DEF Sound
<1>10. ASSUME NEW u \in Threads, NEW v \in Objects
       PROVE  OnQueue(r.waitq[v], u) <=> r.pended_on[u] = v
  <2>1. OnQueue(s.waitq[v], u) <=> s.pended_on[u] = v
    BY DEF Sound
  <2>2. v # NULL
    BY <1>1, PendTypes
  <2> QED BY <1>2, <1>4, <1>7, <1>8, <2>1, <2>2
<1> QED BY <1>1, <1>2, <1>5, <1>6, <1>7, <1>8, <1>9, <1>10 DEF OnlyQueue, r, w

\* z_unpend_thread() makes a waiter the one that is being woken.
LEMMA UnpendSound ==
    ASSUME NEW s, Sound(s), s.waking = NULL, NEW t \in Threads, s.pended_on[t] # NULL
    PROVE  LET r == z_unpend_thread(s, t)
           IN  /\ Sound(r) /\ OnlyQueue(r, s, s.pended_on[t])
               /\ r.ready = s.ready /\ r.waking = t /\ r.expired = s.expired
               /\ r.swap_retval = s.swap_retval
               /\ \A u \in Threads :
                     r.pended_on[u] = IF u = t THEN NULL ELSE s.pended_on[u]
<1> DEFINE u == unpend_thread_no_timeout(s, t)
           r == [u EXCEPT !.timeout = @ \ {t}, !.waking = t]
<1>1. s \in Pending
  BY DEF Sound
<1>2. z_unpend_thread(s, t) = r
  BY DEF z_unpend_thread
<1>3. /\ u \in Pending /\ OnlyQueue(u, s, s.pended_on[t])
      /\ \A v \in Objects : NoDuplicates(u.waitq[v])
      /\ \A x \in Threads :
            /\ \A v \in Objects : OnQueue(u.waitq[v], x) <=> u.pended_on[x] = v
            /\ u.pended_on[x] = IF x = t THEN NULL ELSE s.pended_on[x]
      /\ u.ready = s.ready /\ u.timeout = s.timeout /\ u.expired = s.expired
      /\ u.waking = s.waking /\ u.swap_retval = s.swap_retval
  BY UnpendFields
<1> HIDE DEF u
<1>4. /\ r \in Pending /\ r.waitq = u.waitq /\ r.pended_on = u.pended_on
      /\ r.ready = u.ready /\ r.timeout = u.timeout \ {t} /\ r.expired = u.expired
      /\ r.swap_retval = u.swap_retval /\ r.waking = t /\ r.prio = u.prio
  BY <1>3, ZenonT(40) DEF Pending
<1> HIDE DEF r
<1>5. Sound(r)
  BY <1>1, <1>3, <1>4, PendTypes DEF Sound
<1> QED BY <1>2, <1>3, <1>4, <1>5 DEF OnlyQueue

\* z_unpend_first_thread() does it to the first one.
LEMMA UnpendFirstSound ==
    ASSUME NEW s, Sound(s), s.waking = NULL, NEW w \in Objects, s.waitq[w] # <<>>
    PROVE  LET r == z_unpend_first_thread(s, w)
               t == z_priq_dumb_best(s.waitq[w])
           IN  /\ Sound(r) /\ OnlyQueue(r, s, w) /\ t \in Threads
               /\ s.pended_on[t] = w /\ t \notin s.ready
               /\ r.ready = s.ready /\ r.waking = t /\ r.expired = s.expired
               /\ r.swap_retval = s.swap_retval
               /\ \A u \in Threads :
                     r.pended_on[u] = IF u = t THEN NULL ELSE s.pended_on[u]
<1> DEFINE t == z_priq_dumb_best(s.waitq[w])
<1>1. t \in Threads /\ s.pended_on[t] = w
  BY WaitqHead
<1> HIDE DEF t
<1>2. w # NULL
  BY PendTypes DEF Sound
<1>3. t \notin s.ready
  BY <1>1, <1>2 DEF Sound
<1>4. z_unpend_first_thread(s, w) = z_unpend_thread(s, t)
  BY DEF z_unpend_first_thread, t
<1> QED BY <1>1, <1>2, <1>3, <1>4, UnpendSound DEF t

\* WakeWith() makes the thread that is being woken ready, with a return value.
LEMMA WakeSound ==
    ASSUME NEW s, Sound(s), s.waking # NULL, NEW ret \in Retvals
    PROVE  LET r == WakeWith(s, ret)
               t == s.waking
           IN  /\ Sound(r) /\ t \in Threads /\ t \notin s.ready
               /\ r.ready = s.ready \cup {t} /\ r.waking = NULL /\ r.expired = s.expired
               /\ r.prio = s.prio /\ r.waitq = s.waitq /\ r.pended_on = s.pended_on
               /\ \A u \in Threads :
                     r.swap_retval[u] = IF u = t THEN ret ELSE s.swap_retval[u]
<1> DEFINE t == s.waking
           r == [s EXCEPT !.swap_retval[t] = ret, !.waking = NULL, !.ready = @ \cup {t}]
<1>1. s \in Pending
  BY DEF Sound
<1>2. t \in Threads /\ s.pended_on[t] = NULL /\ t \notin s.timeout /\ t \notin s.ready
  <2>1. t \in Threads
    BY <1>1, PendTypes
  <2> QED BY <1>1, <2>1 DEF Sound
<1>3. WakeWith(s, ret) = r
  <2> DEFINE u == [s EXCEPT !.swap_retval[t] = ret, !.waking = NULL]
  <2>1. u.pended_on = s.pended_on /\ u.timeout = s.timeout
    BY <1>1 DEF Pending
  <2>2. r = [u EXCEPT !.ready = @ \cup {t}]
    BY <1>1 DEF Pending
  <2> QED BY <1>2, <2>1, <2>2 DEF WakeWith, ready_thread
<1>4. s.waking = t
  OBVIOUS
<1> HIDE DEF t
<1>5. /\ r.swap_retval = [s.swap_retval EXCEPT ![t] = ret] /\ r.waking = NULL
      /\ r.ready = s.ready \cup {t} /\ r.waitq = s.waitq /\ r.pended_on = s.pended_on
      /\ r.timeout = s.timeout /\ r.expired = s.expired /\ r.prio = s.prio
  BY <1>1 DEF Pending
<1>6. r \in Pending
  BY <1>1, <1>2, ZenonT(40) DEF Pending
<1>7. \A x \in Threads : r.swap_retval[x] = IF x = t THEN ret ELSE s.swap_retval[x]
  BY <1>1, <1>5 DEF Pending
<1> HIDE DEF r
<1>8. Sound(r)
  BY <1>1, <1>2, <1>4, <1>5, <1>6, <1>7, PendTypes DEF Sound
<1> QED BY <1>2, <1>3, <1>4, <1>5, <1>7, <1>8

\* The handler of a timeout makes its thread ready, pended or woken already, and
\* leaves its return value alone.
LEMMA TimeoutSound ==
    ASSUME NEW s, Sound(s), s.waking = NULL, s.expired # NULL
    PROVE  LET r == z_thread_timeout(s)
               t == s.expired
           IN  /\ Sound(r) /\ t \in Threads
               /\ r.ready = s.ready \cup {t} /\ r.waking = NULL /\ r.expired = NULL
               /\ r.prio = s.prio /\ r.swap_retval = s.swap_retval
               /\ \A u \in Threads :
                     r.pended_on[u] = IF u = t THEN NULL ELSE s.pended_on[u]
               /\ \A w \in Objects :
                     InPriorityOrder(s.waitq[w], s.prio) => InPriorityOrder(r.waitq[w], s.prio)
<1> DEFINE t == s.expired
           u == IF s.pended_on[t] # NULL THEN unpend_thread_no_timeout(s, t) ELSE s
           r == [u EXCEPT !.expired = NULL, !.ready = @ \cup {t}]
<1>1. s \in Pending
  BY DEF Sound
<1>2. t \in Threads /\ t \notin s.timeout
  <2>1. t \in Threads
    BY <1>1, PendTypes
  <2> QED BY <2>1 DEF Sound
<1>3. s.expired = t
  OBVIOUS
<1> HIDE DEF t
<1>4. /\ u \in Pending /\ \A v \in Objects : NoDuplicates(u.waitq[v])
      /\ \A x \in Threads :
            /\ \A v \in Objects : OnQueue(u.waitq[v], x) <=> u.pended_on[x] = v
            /\ u.pended_on[x] = IF x = t THEN NULL ELSE s.pended_on[x]
      /\ u.ready = s.ready /\ u.timeout = s.timeout /\ u.waking = NULL
      /\ u.swap_retval = s.swap_retval /\ u.prio = s.prio
      /\ \A v \in Objects :
            InPriorityOrder(s.waitq[v], s.prio) => InPriorityOrder(u.waitq[v], s.prio)
  <2>1. CASE s.pended_on[t] = NULL
    BY <1>1, <2>1 DEF Sound
  <2>2. CASE s.pended_on[t] # NULL
    <3>1. u = unpend_thread_no_timeout(s, t)
      BY <2>2
    <3> HIDE DEF u
    <3>2. /\ u \in Pending /\ OnlyQueue(u, s, s.pended_on[t])
          /\ \A v \in Objects : NoDuplicates(u.waitq[v])
          /\ \A x \in Threads :
                /\ \A v \in Objects : OnQueue(u.waitq[v], x) <=> u.pended_on[x] = v
                /\ u.pended_on[x] = IF x = t THEN NULL ELSE s.pended_on[x]
          /\ u.ready = s.ready /\ u.timeout = s.timeout /\ u.waking = s.waking
          /\ u.swap_retval = s.swap_retval
      BY <1>2, <2>2, <3>1, UnpendFields
    <3> QED BY <3>2 DEF OnlyQueue
  <2> QED BY <2>1, <2>2
<1>5. z_thread_timeout(s) = r
  <2> DEFINE v == [u EXCEPT !.expired = NULL]
  <2> HIDE DEF u
  <2>1. v.pended_on[t] = NULL /\ t \notin v.timeout
    BY <1>2, <1>4 DEF Pending
  <2>2. r = [v EXCEPT !.ready = @ \cup {t}]
    BY <1>4, ZenonT(40) DEF Pending
  <2>3. z_thread_timeout(s) = ready_thread(v, t)
    BY DEF z_thread_timeout, t, u
  <2> QED BY <2>1, <2>2, <2>3 DEF ready_thread
<1> HIDE DEF u
<1>6. /\ r \in Pending /\ r.waitq = u.waitq /\ r.pended_on = u.pended_on
      /\ r.ready = u.ready \cup {t} /\ r.timeout = u.timeout /\ r.expired = NULL
      /\ r.swap_retval = u.swap_retval /\ r.waking = u.waking /\ r.prio = u.prio
  BY <1>2, <1>4, ZenonT(40) DEF Pending
<1> HIDE DEF r
<1>7. Sound(r)
  BY <1>1, <1>2, <1>4, <1>6, PendTypes DEF Sound
<1> QED BY <1>2, <1>3, <1>4, <1>5, <1>6, <1>7

\* sys_clock_announce() unlinks a timeout and leaves the rest to its handler.
LEMMA ExpireSound ==
    ASSUME NEW s, Sound(s), NEW t \in Threads
    PROVE  LET r == Expire(s, t)
           IN  /\ Sound(r) /\ r.ready = s.ready /\ r.waking = s.waking
               /\ r.expired = t /\ r.prio = s.prio /\ r.waitq = s.waitq
               /\ r.pended_on = s.pended_on /\ r.swap_retval = s.swap_retval
<1> DEFINE r == Expire(s, t)
<1>1. /\ r \in Pending /\ r.waitq = s.waitq /\ r.pended_on = s.pended_on
      /\ r.ready = s.ready /\ r.timeout = s.timeout \ {t} /\ r.expired = t
      /\ r.swap_retval = s.swap_retval /\ r.waking = s.waking /\ r.prio = s.prio
  BY ZenonT(40) DEF Sound, Pending, Expire
<1> HIDE DEF r
<1> QED BY <1>1 DEF Sound, r

\* z_set_prio() leaves a waiting thread where it is.
LEMMA PrioSound ==
    ASSUME NEW s, Sound(s), NEW t \in Threads, NEW prio \in Prios
    PROVE  LET r == z_set_prio(s, t, prio)
           IN  /\ Sound(r) /\ r.ready = s.ready /\ r.waking = s.waking
               /\ r.expired = s.expired /\ r.waitq = s.waitq
               /\ r.pended_on = s.pended_on /\ r.swap_retval = s.swap_retval
               /\ \A u \in Threads : r.prio[u] = IF u = t THEN prio ELSE s.prio[u]
<1> DEFINE r == z_set_prio(s, t, prio)
<1>1. /\ r \in Pending /\ r.waitq = s.waitq /\ r.pended_on = s.pended_on
      /\ r.ready = s.ready /\ r.timeout = s.timeout /\ r.expired = s.expired
      /\ r.swap_retval = s.swap_retval /\ r.waking = s.waking
      /\ r.prio = [s.prio EXCEPT ![t] = prio]
  BY ZenonT(40) DEF Sound, Pending, z_set_prio
<1>2. \A u \in Threads : r.prio[u] = IF u = t THEN prio ELSE s.prio[u]
  BY <1>1 DEF Sound, Pending
<1> HIDE DEF r
<1> QED BY <1>1, <1>2 DEF Sound, r
=============================================================================
