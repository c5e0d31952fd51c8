----------------------------- MODULE WorkProofs -----------------------------
(***************************************************************************)
(* For any number of items, queues and threads, with one CPU and with      *)
(* several: the flags of kernel/work.c tell where an item is, a flush is   *)
(* complete when it returns, a cancellation ends, and no queue's thread    *)
(* sleeps beside work.                                                     *)
(*                                                                         *)
(* The parts of the invariant take what the lock protects (s), what the    *)
(* queues' threads run (r) and have handled (h), the calls the threads are *)
(* in (c) and the runs they wait for (o), so that the lemmas can be about  *)
(* the functions of work.c one by one.                                     *)
(***************************************************************************)
EXTENDS Work, PriqProofs

\* a is on the list in front of b
Before(q, a, b) == \E i, j \in 1 .. Len(q) : i < j /\ q[i] = a /\ q[j] = b

\* an item is where its flags say
ListsOK(s, r) ==
    /\ \A q \in Queues : NoDuplicates(s.pending[q])
    /\ \A w \in Works : "QUEUED" \in s.flags[w] \/ "RUNNING" \in s.flags[w] =>
          s.queue[w] \in Queues
    /\ \A w \in Works, q \in Queues :
          /\ r[q] = w <=> "RUNNING" \in s.flags[w] /\ s.queue[w] = q
          /\ OnQueue(s.pending[q], w) <=> "QUEUED" \in s.flags[w] /\ s.queue[w] = q

\* who is cancelled runs, and who waits for the end of a cancellation is in a
\* call and waits for a cancelled item
CancelOK(s, c) ==
    /\ \A w \in Works :
          /\ "CANCELING" \in s.flags[w] => "RUNNING" \in s.flags[w]
          /\ "DELAYED" \in s.flags[w] => w \in Delayable
    /\ \A t \in Threads :
          /\ s.pending_cancels[t] # NULL =>
                /\ c[t] = "cancel" /\ t \notin s.sem
                /\ "CANCELING" \in s.flags[s.pending_cancels[t]]
          /\ c[t] = "cancel" => t \in s.sem \/ s.pending_cancels[t] # NULL

\* a thread drains one queue, and is in the call
DrainOK(s, c) ==
    \A q \in Queues : \A t \in s.drainq[q] :
        c[t] = "drain" /\ \A y \in Queues : t \in s.drainq[y] => y = q

\* a queue that sleeps has nothing to do, and one that threads drain knows it
SleepOK(s, r) ==
    /\ \A q \in Queues : s.drainq[q] # {} =>
          "DRAIN" \in s.qflags[q] /\ "STARTED" \in s.qflags[q]
    /\ \A q \in s.notifyq :
          s.pending[q] = <<>> /\ r[q] = NULL /\ "DRAIN" \notin s.qflags[q]

\* t waits for its flusher
Flushing(s, c, t) == c[t] = "flush" /\ t \notin s.sem

Listed(s, t, q) == OnQueue(s.pending[q], t)
Taken(r, h, t, q) == r[q] = t /\ q \notin h

\* the flusher of a thread that waits is in one place, and it is in none
\* otherwise
PlaceOK(s, r, h, c) ==
    /\ \A q \in Queues : q \in h => r[q] \in Threads
    /\ \A t \in Threads :
          /\ Flushing(s, c, t) => \E q \in Queues : Listed(s, t, q) \/ Taken(r, h, t, q)
          /\ \A q \in Queues :
                /\ Listed(s, t, q) \/ Taken(r, h, t, q) => Flushing(s, c, t)
                /\ ~(Listed(s, t, q) /\ Taken(r, h, t, q))
                /\ \A x \in Queues :
                      /\ Listed(s, t, q) \/ Taken(r, h, t, q)
                      /\ Listed(s, t, x) \/ Taken(r, h, t, x)
                      => q = x

\* the flusher of a thread that waits for a queued run is behind the item, and
\* that of one that waits for a run under way is on the list of the item's queue
OwedOK(s, o) ==
    \A t \in Threads, w \in Works :
        /\ <<w, "QUEUED">> \in o[t] =>
              "QUEUED" \in s.flags[w] /\ Before(s.pending[s.queue[w]], w, t)
        /\ <<w, "RUNNING">> \in o[t] =>
              "RUNNING" \in s.flags[w] /\ OnQueue(s.pending[s.queue[w]], t)

Good(s, r, h, c, o) ==
    /\ s \in WorkState
    /\ ListsOK(s, r) /\ CancelOK(s, c) /\ DrainOK(s, c) /\ SleepOK(s, r)
    /\ PlaceOK(s, r, h, c) /\ OwedOK(s, o)

\* the inductive invariant
WorkInv == CoreTypeOK /\ Good(k, running, handled, call, owed)
-----------------------------------------------------------------------------
(* The lists.                                                              *)

\* Linking an item in keeps the order of the others, and puts it behind those
\* that are in front of its place.
LEMMA InsertOrder ==
    ASSUME NEW T, NEW q \in Seq(T), NEW t \in T, NEW i \in 1 .. Len(q) + 1
    PROVE  LET r == sys_dlist_insert(q, i, t)
           IN  /\ \A a, b : Before(q, a, b) => Before(r, a, b)
               /\ \A j \in 1 .. i - 1 : Before(r, q[j], t)
<1> DEFINE r == sys_dlist_insert(q, i, t)
<1>1. Len(r) = Len(q) + 1
  BY DEF sys_dlist_insert
<1>2. \A j \in 1 .. Len(q) : /\ j < i => r[j] = q[j]
                             /\ j >= i => r[j + 1] = q[j]
  BY DEF sys_dlist_insert
<1>3. r[i] = t
  BY DEF sys_dlist_insert
<1> HIDE DEF r
<1>4. ASSUME NEW a, NEW b, Before(q, a, b) PROVE Before(r, a, b)
  <2>1. PICK m \in 1 .. Len(q), n \in 1 .. Len(q) : m < n /\ q[m] = a /\ q[n] = b
    BY <1>4, Zenon DEF Before
  <2> DEFINE x == IF m < i THEN m ELSE m + 1
             y == IF n < i THEN n ELSE n + 1
  <2>2. x \in 1 .. Len(r) /\ y \in 1 .. Len(r) /\ x < y
    BY <1>1, <2>1
  <2>3. r[x] = a /\ r[y] = b
    BY <1>2, <2>1
  <2> QED BY <2>2, <2>3, Zenon DEF Before
<1>5. ASSUME NEW j \in 1 .. i - 1 PROVE Before(r, q[j], t)
  <2>1. j \in 1 .. Len(r) /\ i \in 1 .. Len(r) /\ j < i /\ r[j] = q[j]
    BY <1>1, <1>2
  <2> QED BY <1>3, <2>1, Zenon DEF Before
<1> QED BY <1>4, <1>5, Zenon DEF r

\* Unlinking an item keeps the order of the others.
LEMMA RemoveOrder ==
    ASSUME NEW T, NEW q \in Seq(T), NEW i \in 1 .. Len(q), NEW a, NEW b,
           a # q[i], b # q[i], Before(q, a, b)
    PROVE  Before(sys_dlist_remove(q, i), a, b)
<1> DEFINE r == sys_dlist_remove(q, i)
<1>1. Len(r) = Len(q) - 1
  BY DEF sys_dlist_remove
<1>2. \A j \in 1 .. Len(q) : /\ j < i => r[j] = q[j]
                             /\ j > i => r[j - 1] = q[j]
  BY DEF sys_dlist_remove
<1> HIDE DEF r
<1>3. PICK m \in 1 .. Len(q), n \in 1 .. Len(q) : m < n /\ q[m] = a /\ q[n] = b
  BY Zenon DEF Before
<1>4. m # i /\ n # i
  BY <1>3
<1> DEFINE x == IF m < i THEN m ELSE m - 1
           y == IF n < i THEN n ELSE n - 1
<1>5. x \in 1 .. Len(r) /\ y \in 1 .. Len(r) /\ x < y
  BY <1>1, <1>3, <1>4
<1>6. r[x] = a /\ r[y] = b
  BY <1>2, <1>3, <1>4
<1> QED BY <1>5, <1>6, Zenon DEF Before, r

\* Sequences of the same length with the same items are equal.
LEMMA SameSequence ==
    ASSUME NEW T, NEW q \in Seq(T), NEW r \in Seq(T), Len(q) = Len(r),
           \A i \in 1 .. Len(q) : q[i] = r[i]
    PROVE  q = r
OBVIOUS

\* Append() links in behind the last item, Tail() unlinks the first.
LEMMA AppendIsInsert ==
    ASSUME NEW T, NEW q \in Seq(T), NEW t \in T
    PROVE  Append(q, t) = sys_dlist_insert(q, Len(q) + 1, t)
<1> DEFINE r == sys_dlist_insert(q, Len(q) + 1, t)
<1>1. r \in Seq(T) /\ Len(r) = Len(q) + 1
  BY DEF sys_dlist_insert
<1>2. \A i \in 1 .. Len(q) + 1 : r[i] = IF i = Len(q) + 1 THEN t ELSE q[i]
  BY DEF sys_dlist_insert
<1> HIDE DEF r
<1>3. /\ Append(q, t) \in Seq(T) /\ Len(Append(q, t)) = Len(q) + 1
      /\ \A i \in 1 .. Len(q) + 1 : Append(q, t)[i] = r[i]
  BY <1>2
<1> QED BY <1>1, <1>3, SameSequence, Zenon DEF r

\* sys_slist_get() takes the first node off.
LEMMA TailIsRemove ==
    ASSUME NEW T, NEW q \in Seq(T), q # <<>>
    PROVE  /\ Tail(q) = sys_dlist_remove(q, 1) /\ 1 \in 1 .. Len(q)
           /\ Head(q) = q[1] /\ q[1] \in T
<1> DEFINE r == sys_dlist_remove(q, 1)
<1>1. 1 \in 1 .. Len(q) /\ Head(q) = q[1] /\ q[1] \in T
  OBVIOUS
<1>2. r \in Seq(T) /\ Len(r) = Len(q) - 1 /\ \A i \in 1 .. Len(q) - 1 : r[i] = q[i + 1]
  BY <1>1 DEF sys_dlist_remove
<1> HIDE DEF r
<1>3. /\ Tail(q) \in Seq(T) /\ Len(Tail(q)) = Len(q) - 1
      /\ \A i \in 1 .. Len(q) - 1 : Tail(q)[i] = r[i]
  BY <1>1, <1>2
<1>4. Tail(q) = r
  BY <1>2, <1>3, SameSequence, Zenon
<1> QED BY <1>1, <1>4, Zenon DEF r

\* A list that an item is linked in at place i, or appended to.
LEMMA InsertList ==
    ASSUME NEW T, NEW q \in Seq(T), NEW t \in T, NEW i \in 1 .. Len(q) + 1,
           ~OnQueue(q, t), NoDuplicates(q)
    PROVE  LET r == sys_dlist_insert(q, i, t)
           IN  /\ r \in Seq(T) /\ NoDuplicates(r)
               /\ \A u : OnQueue(r, u) <=> OnQueue(q, u) \/ u = t
               /\ \A a, b : Before(q, a, b) => Before(r, a, b)
BY InsertProperties, InsertOrder, Zenon

\* What appending an item to a list does.
LEMMA AppendList ==
    ASSUME NEW T, NEW q \in Seq(T), NEW t \in T, ~OnQueue(q, t), NoDuplicates(q)
    PROVE  LET r == Append(q, t)
           IN  /\ r \in Seq(T) /\ NoDuplicates(r)
               /\ \A u : OnQueue(r, u) <=> OnQueue(q, u) \/ u = t
               /\ \A a, b : Before(q, a, b) => Before(r, a, b)
<1>1. Len(q) + 1 \in 1 .. Len(q) + 1
  OBVIOUS
<1>2. LET r == sys_dlist_insert(q, Len(q) + 1, t)
      IN  /\ r \in Seq(T) /\ NoDuplicates(r)
          /\ \A u : OnQueue(r, u) <=> OnQueue(q, u) \/ u = t
          /\ \A a, b : Before(q, a, b) => Before(r, a, b)
  BY <1>1, InsertList, Zenon
<1>3. Append(q, t) = sys_dlist_insert(q, Len(q) + 1, t)
  BY AppendIsInsert, Zenon
<1> QED BY <1>2, <1>3, Zenon

\* A list that an item is unlinked from: by name, or the first.
LEMMA RemoveList ==
    ASSUME NEW T, NEW q \in Seq(T), NEW t, OnQueue(q, t), NoDuplicates(q)
    PROVE  LET r == sys_dlist_remove(q, IndexOf(q, t))
           IN  /\ r \in Seq(T) /\ NoDuplicates(r)
               /\ \A u : OnQueue(r, u) <=> OnQueue(q, u) /\ u # t
               /\ \A a, b : Before(q, a, b) /\ a # t /\ b # t => Before(r, a, b)
<1>1. IndexOf(q, t) \in 1 .. Len(q) /\ q[IndexOf(q, t)] = t
  BY Zenon DEF IndexOf, OnQueue
<1>2. \A a, b : Before(q, a, b) /\ a # t /\ b # t =>
         Before(sys_dlist_remove(q, IndexOf(q, t)), a, b)
  BY <1>1, RemoveOrder, Zenon
<1> QED BY <1>2, RemoveProperties, Zenon DEF z_priq_dumb_remove

\* What taking the first item off a list does.
LEMMA TailList ==
    ASSUME NEW T, NEW q \in Seq(T), q # <<>>, NoDuplicates(q)
    PROVE  LET r == Tail(q)
           IN  /\ r \in Seq(T) /\ NoDuplicates(r) /\ Head(q) \in T /\ OnQueue(q, Head(q))
               /\ \A u : OnQueue(r, u) <=> OnQueue(q, u) /\ u # Head(q)
               /\ \A a : ~Before(q, a, Head(q))
               /\ \A a, b : Before(q, a, b) /\ a # Head(q) => Before(r, a, b)
<1> DEFINE t == Head(q)
<1>1. 1 \in 1 .. Len(q) /\ t = q[1] /\ t \in T /\ Tail(q) = sys_dlist_remove(q, 1)
  BY TailIsRemove, Zenon
<1>2. OnQueue(q, t)
  BY <1>1, Zenon DEF OnQueue
<1>3. IndexOf(q, t) \in 1 .. Len(q) /\ q[IndexOf(q, t)] = q[1]
  BY <1>1, <1>2, Zenon DEF IndexOf, OnQueue
<1>4. IndexOf(q, t) = 1
  BY <1>1, <1>3, Zenon DEF NoDuplicates
<1>5. ASSUME NEW a PROVE ~Before(q, a, t)
  <2>1. SUFFICES ASSUME Before(q, a, t) PROVE FALSE
    OBVIOUS
  <2>2. PICK m \in 1 .. Len(q), n \in 1 .. Len(q) : m < n /\ q[n] = t
    BY <2>1, Zenon DEF Before
  <2>3. n = 1
    BY <1>1, <2>2, Zenon DEF NoDuplicates
  <2> QED BY <2>2, <2>3
<1>6. LET r == sys_dlist_remove(q, IndexOf(q, t))
      IN  /\ r \in Seq(T) /\ NoDuplicates(r)
          /\ \A u : OnQueue(r, u) <=> OnQueue(q, u) /\ u # t
          /\ \A a, b : Before(q, a, b) /\ a # t /\ b # t => Before(r, a, b)
  BY <1>2, RemoveList, Zenon
<1>7. Tail(q) = sys_dlist_remove(q, IndexOf(q, t))
  BY <1>1, <1>4, Zenon
<1> HIDE DEF t
<1>8. LET r == Tail(q)
      IN  /\ r \in Seq(T) /\ NoDuplicates(r)
          /\ \A u : OnQueue(r, u) <=> OnQueue(q, u) /\ u # t
          /\ \A a, b : Before(q, a, b) /\ a # t => Before(r, a, b)
  BY <1>5, <1>6, <1>7, Zenon
<1> QED BY <1>1, <1>2, <1>5, <1>8, Zenon DEF t

-----------------------------------------------------------------------------
(* What the functions of work.c change.                                    *)

\* The fields of the state of work.c.
LEMMA WorkTypes ==
    ASSUME NEW s \in WorkState
    PROVE  /\ s.flags \in [Works -> SUBSET WorkFlags]
           /\ s.queue \in [Works -> Queues \cup {NULL}]
           /\ s.dqueue \in [Delayable -> Queues \cup {NULL}]
           /\ s.timeout \in SUBSET Delayable
           /\ s.qflags \in [Queues -> SUBSET QueueFlags]
           /\ s.pending \in [Queues -> Seq(Items)]
           /\ s.notifyq \in SUBSET Queues
           /\ s.drainq \in [Queues -> SUBSET Threads]
           /\ s.pending_cancels \in [Threads -> Works \cup {NULL}]
           /\ s.sem \in SUBSET Threads
BY Zenon DEF WorkState

\* the fields that only calls about queues or cancellations change
SameCalls(r, s) ==
    /\ r.qflags = s.qflags /\ r.drainq = s.drainq
    /\ r.pending_cancels = s.pending_cancels

SameLists(r, s) ==
    r.queue = s.queue /\ r.pending = s.pending /\ r.notifyq = s.notifyq

SameDelays(r, s) == r.dqueue = s.dqueue /\ r.timeout = s.timeout

\* flag_set() sets one flag of one item.
LEMMA FlagSet ==
    ASSUME NEW s \in WorkState, NEW w \in Works, NEW f \in WorkFlags
    PROVE  LET r == flag_set(s, w, f)
           IN  /\ r \in WorkState /\ SameCalls(r, s) /\ SameLists(r, s)
               /\ SameDelays(r, s) /\ r.sem = s.sem
               /\ \A x \in Works : r.flags[x] = s.flags[x] \cup IF x = w THEN {f} ELSE {}
<1> DEFINE F == [s.flags EXCEPT ![w] = @ \cup {f}]
<1>1. F \in [Works -> SUBSET WorkFlags]
  BY WorkTypes, Zenon
<1>2. \A x \in Works : F[x] = s.flags[x] \cup IF x = w THEN {f} ELSE {}
  BY WorkTypes
<1>3. flag_set(s, w, f) = [s EXCEPT !.flags = F]
  BY DEF flag_set
<1> HIDE DEF F
<1>4. LET r == [s EXCEPT !.flags = F]
      IN  /\ r \in WorkState /\ r.flags = F /\ SameCalls(r, s) /\ SameLists(r, s)
          /\ SameDelays(r, s) /\ r.sem = s.sem
  BY <1>1, Zenon DEF WorkState, SameCalls, SameLists, SameDelays
<1> QED BY <1>2, <1>3, <1>4, Zenon

\* flag_clear() clears one flag of one item.
LEMMA FlagClear ==
    ASSUME NEW s \in WorkState, NEW w \in Works, NEW f
    PROVE  LET r == flag_clear(s, w, f)
           IN  /\ r \in WorkState /\ SameCalls(r, s) /\ SameLists(r, s)
               /\ SameDelays(r, s) /\ r.sem = s.sem
               /\ \A x \in Works : r.flags[x] = s.flags[x] \ IF x = w THEN {f} ELSE {}
<1> DEFINE F == [s.flags EXCEPT ![w] = @ \ {f}]
<1>1. F \in [Works -> SUBSET WorkFlags]
  BY WorkTypes, Zenon
<1>2. \A x \in Works : F[x] = s.flags[x] \ IF x = w THEN {f} ELSE {}
  BY WorkTypes
<1>3. flag_clear(s, w, f) = [s EXCEPT !.flags = F]
  BY DEF flag_clear
<1> HIDE DEF F
<1>4. LET r == [s EXCEPT !.flags = F]
      IN  /\ r \in WorkState /\ r.flags = F /\ SameCalls(r, s) /\ SameLists(r, s)
          /\ SameDelays(r, s) /\ r.sem = s.sem
  BY <1>1, Zenon DEF WorkState, SameCalls, SameLists, SameDelays
<1> QED BY <1>2, <1>3, <1>4, Zenon

\* r is s with w put behind the last on the list of x
Submitted(r, s, w, x) ==
    /\ "QUEUED" \notin s.flags[w] /\ "CANCELING" \notin s.flags[w]
    /\ "RUNNING" \in s.flags[w] => x = s.queue[w]
    /\ r \in WorkState /\ SameCalls(r, s) /\ SameDelays(r, s) /\ r.sem = s.sem
    /\ \A v \in Works : /\ r.flags[v] = s.flags[v] \cup IF v = w THEN {"QUEUED"} ELSE {}
                        /\ r.queue[v] = IF v = w THEN x ELSE s.queue[v]
    /\ \A y \in Queues : r.pending[y] = IF y = x THEN Append(s.pending[y], w)
                                                 ELSE s.pending[y]
    /\ r.notifyq = s.notifyq \ {x}

\* submit_to_queue_locked() refuses, or puts the item behind the last on the
\* list of a queue that it tells: the one that runs it, if it runs.
LEMMA SubmitEffect ==
    ASSUME NEW s \in WorkState, NEW ctx, NEW w \in Works, NEW q \in Queues \cup {NULL},
           submit_to_queue_locked(s, ctx, w, q) # s
    PROVE  \E x \in Queues : Submitted(submit_to_queue_locked(s, ctx, w, q), s, w, x)
<1> DEFINE r == submit_to_queue_locked(s, ctx, w, q)
           x == SubmitTarget(s, w, q)
           P == [s.pending EXCEPT ![x] = Append(@, w)]
           Q == [s.queue EXCEPT ![w] = x]
           u == [[[s EXCEPT !.pending = P] EXCEPT !.notifyq = @ \ {x}] EXCEPT !.queue = Q]
<1>1. /\ s.flags[w] \cap {"CANCELING", "QUEUED"} = {} /\ Accepts(s, ctx, x)
      /\ r = flag_set([queue_submit_locked(s, x, w) EXCEPT !.queue[w] = x], w, "QUEUED")
  BY Zenon DEF submit_to_queue_locked
<1>2. x \in Queues /\ ("RUNNING" \in s.flags[w] => x = s.queue[w])
  BY <1>1, WorkTypes, SMT DEF Accepts, SubmitTarget
<1>3. r = flag_set(u, w, "QUEUED")
  BY <1>1, SMT DEF queue_submit_locked, notify_queue_locked
<1> HIDE DEF x, r
<1>4. /\ P \in [Queues -> Seq(Items)] /\ Q \in [Works -> Queues \cup {NULL}]
      /\ \A z \in Queues : P[z] = IF z = x THEN Append(s.pending[z], w) ELSE s.pending[z]
      /\ \A v \in Works : Q[v] = IF v = w THEN x ELSE s.queue[v]
  <2>1. s.pending[x] \in Seq(Items) /\ w \in Items
    BY <1>2, WorkTypes, Zenon DEF Items
  <2>2. Append(s.pending[x], w) \in Seq(Items)
    BY <2>1
  <2> QED BY <1>2, <2>2, WorkTypes, Zenon
<1> HIDE DEF P, Q
<1>5. /\ u \in WorkState /\ SameCalls(u, s) /\ SameDelays(u, s) /\ u.sem = s.sem
      /\ u.flags = s.flags /\ u.pending = P /\ u.queue = Q /\ u.notifyq = s.notifyq \ {x}
  BY <1>4, Zenon DEF WorkState, SameCalls, SameDelays
<1> HIDE DEF u
<1>6. "QUEUED" \in WorkFlags
  BY DEF WorkFlags
<1>7. /\ r \in WorkState /\ SameCalls(r, u) /\ SameLists(r, u) /\ SameDelays(r, u)
      /\ r.sem = u.sem
      /\ \A v \in Works : r.flags[v] = u.flags[v] \cup IF v = w THEN {"QUEUED"} ELSE {}
  BY <1>3, <1>5, <1>6, FlagSet
<1>8. /\ r \in WorkState /\ SameCalls(r, s) /\ SameDelays(r, s) /\ r.sem = s.sem
      /\ r.pending = P /\ r.queue = Q /\ r.notifyq = s.notifyq \ {x}
      /\ \A v \in Works : r.flags[v] = s.flags[v] \cup IF v = w THEN {"QUEUED"} ELSE {}
  BY <1>5, <1>7, Zenon DEF SameCalls, SameLists, SameDelays
<1>9. "QUEUED" \notin s.flags[w] /\ "CANCELING" \notin s.flags[w]
  BY <1>1, Zenon
<1>10. Submitted(r, s, w, x)
  BY <1>2, <1>4, <1>8, <1>9, Zenon DEF Submitted
<1> QED BY <1>2, <1>10, Zenon DEF r

\* queue_remove_locked() takes a queued item off the list it is on.
LEMMA RemoveEffect ==
    ASSUME NEW s \in WorkState, NEW run, ListsOK(s, run), NEW w \in Works,
           "QUEUED" \in s.flags[w]
    PROVE  LET r == queue_remove_locked(s, w)
           IN  /\ r \in WorkState /\ SameCalls(r, s) /\ SameDelays(r, s)
               /\ r.sem = s.sem /\ r.queue = s.queue /\ r.notifyq = s.notifyq
               /\ \A v \in Works :
                     r.flags[v] = s.flags[v] \ IF v = w THEN {"QUEUED"} ELSE {}
               /\ \A y \in Queues :
                     r.pending[y] = IF y = s.queue[w]
                                    THEN sys_dlist_remove(s.pending[y], IndexOf(s.pending[y], w))
                                    ELSE s.pending[y]
<1> DEFINE r == queue_remove_locked(s, w)
           x == s.queue[w]
           P == [s.pending EXCEPT ![x] = sys_dlist_remove(@, IndexOf(@, w))]
           u == [s EXCEPT !.pending = P]
<1>1. x \in Queues /\ OnQueue(s.pending[x], w) /\ NoDuplicates(s.pending[x])
  BY Zenon DEF ListsOK
<1>2. r = flag_clear(u, w, "QUEUED")
  BY SMT DEF queue_remove_locked
<1> HIDE DEF x, r
<1>3. s.pending[x] \in Seq(Items)
  BY <1>1, WorkTypes, Zenon
<1>4. sys_dlist_remove(s.pending[x], IndexOf(s.pending[x], w)) \in Seq(Items)
  BY <1>1, <1>3, RemoveList, Zenon
<1>5. /\ P \in [Queues -> Seq(Items)]
      /\ \A y \in Queues : P[y] = IF y = x
                                  THEN sys_dlist_remove(s.pending[y], IndexOf(s.pending[y], w))
                                  ELSE s.pending[y]
  BY <1>1, <1>4, WorkTypes, Zenon
<1> HIDE DEF P
<1>6. /\ u \in WorkState /\ SameCalls(u, s) /\ SameDelays(u, s) /\ u.sem = s.sem
      /\ u.flags = s.flags /\ u.pending = P /\ u.queue = s.queue /\ u.notifyq = s.notifyq
  BY <1>5, Zenon DEF WorkState, SameCalls, SameDelays
<1> HIDE DEF u
<1>7. /\ r \in WorkState /\ SameCalls(r, u) /\ SameLists(r, u) /\ SameDelays(r, u)
      /\ r.sem = u.sem
      /\ \A v \in Works : r.flags[v] = u.flags[v] \ IF v = w THEN {"QUEUED"} ELSE {}
  BY <1>2, <1>6, FlagClear
<1> QED BY <1>5, <1>6, <1>7, ZenonT(40) DEF SameCalls, SameLists, SameDelays, x, r

\* work_flush_locked() puts the caller's flusher on the list of the item's
\* queue: behind the item, or at the front.
LEMMA FlushEffect ==
    ASSUME NEW s \in WorkState, NEW w \in Works, s.queue[w] \in Queues, NEW t \in Threads
    PROVE  LET r == work_flush_locked(s, w, t)
               x == s.queue[w]
               at == IF OnQueue(s.pending[x], w) THEN IndexOf(s.pending[x], w) + 1 ELSE 1
           IN  /\ r \in WorkState /\ SameCalls(r, s) /\ SameDelays(r, s)
               /\ r.flags = s.flags /\ r.queue = s.queue
               /\ at \in 1 .. Len(s.pending[x]) + 1
               /\ r.notifyq = s.notifyq \ {x} /\ r.sem = s.sem \ {t}
               /\ \A y \in Queues :
                     r.pending[y] = IF y = x THEN sys_dlist_insert(s.pending[y], at, t)
                                             ELSE s.pending[y]
<1> DEFINE r == work_flush_locked(s, w, t)
           x == s.queue[w]
           at == IF OnQueue(s.pending[x], w) THEN IndexOf(s.pending[x], w) + 1 ELSE 1
           P == [s.pending EXCEPT ![x] = sys_dlist_insert(s.pending[x], at, t)]
<1>1. r = [s EXCEPT !.pending = P, !.sem = @ \ {t}, !.notifyq = @ \ {x}]
  BY SMT DEF work_flush_locked, queue_flusher_locked, notify_queue_locked
<1>2. s.pending[x] \in Seq(Items) /\ t \in Items
  BY WorkTypes, Zenon DEF Items
<1>3. OnQueue(s.pending[x], w) => IndexOf(s.pending[x], w) \in 1 .. Len(s.pending[x])
  BY Zenon DEF OnQueue, IndexOf
<1>4. at \in 1 .. Len(s.pending[x]) + 1
  BY <1>2, <1>3
<1> HIDE DEF at, x, r
<1>5. sys_dlist_insert(s.pending[x], at, t) \in Seq(Items)
  BY <1>2, <1>4 DEF sys_dlist_insert
<1>6. /\ P \in [Queues -> Seq(Items)]
      /\ \A y \in Queues : P[y] = IF y = x THEN sys_dlist_insert(s.pending[y], at, t)
                                           ELSE s.pending[y]
  BY <1>5, WorkTypes, Zenon DEF x
<1> HIDE DEF P
<1>7. /\ r \in WorkState /\ SameCalls(r, s) /\ SameDelays(r, s)
      /\ r.flags = s.flags /\ r.pending = P /\ r.queue = s.queue
      /\ r.notifyq = s.notifyq \ {x} /\ r.sem = s.sem \ {t}
  BY <1>1, <1>6, Zenon DEF WorkState, SameCalls, SameDelays
<1> QED BY <1>4, <1>6, <1>7, Zenon DEF x, r, at

\* unschedule_locked() clears the flag and unlinks the timeout.
LEMMA UnscheduleEffect ==
    ASSUME NEW s \in WorkState, NEW d \in Delayable
    PROVE  LET r == unschedule_locked(s, d)
           IN  /\ r \in WorkState /\ SameCalls(r, s) /\ SameLists(r, s) /\ r.sem = s.sem
               /\ r.dqueue = s.dqueue
               /\ r.timeout = s.timeout \ IF "DELAYED" \in s.flags[d] THEN {d} ELSE {}
               /\ \A v \in Works :
                     r.flags[v] = s.flags[v] \ IF v = d THEN {"DELAYED"} ELSE {}
<1> DEFINE u == [s EXCEPT !.timeout = @ \ {d}]
           r == flag_clear(u, d, "DELAYED")
<1>1. d \in Works
  BY WorkAssumption
<1>2. /\ u \in WorkState /\ SameCalls(u, s) /\ SameLists(u, s) /\ u.sem = s.sem
      /\ u.flags = s.flags /\ u.dqueue = s.dqueue /\ u.timeout = s.timeout \ {d}
  BY Zenon DEF WorkState, SameCalls, SameLists
<1> HIDE DEF u
<1>3. /\ r \in WorkState /\ SameCalls(r, u) /\ SameLists(r, u) /\ SameDelays(r, u)
      /\ r.sem = u.sem
      /\ \A v \in Works : r.flags[v] = u.flags[v] \ IF v = d THEN {"DELAYED"} ELSE {}
  BY <1>1, <1>2, FlagClear
<1> HIDE DEF r
<1>4. /\ r \in WorkState /\ SameCalls(r, s) /\ SameLists(r, s) /\ r.sem = s.sem
      /\ r.dqueue = s.dqueue /\ r.timeout = s.timeout \ {d}
      /\ \A v \in Works : r.flags[v] = s.flags[v] \ IF v = d THEN {"DELAYED"} ELSE {}
  BY <1>2, <1>3, Zenon DEF SameCalls, SameLists, SameDelays
<1>5. unschedule_locked(s, d) = IF "DELAYED" \in s.flags[d] THEN r ELSE s
  BY Zenon DEF unschedule_locked, r, u
<1>6. CASE "DELAYED" \in s.flags[d]
  BY <1>4, <1>5, <1>6, Zenon
<1>7. CASE "DELAYED" \notin s.flags[d]
  BY <1>5, <1>7 DEF SameCalls, SameLists
<1> QED BY <1>6, <1>7, Zenon

-----------------------------------------------------------------------------
(* What keeps the invariant.                                               *)

\* Items, threads and queues are told apart, and none is NULL.
LEMMA Constants ==
    /\ Delayable \subseteq Works
    /\ \A w \in Works : w \notin Threads /\ w # NULL
    /\ \A q \in Queues : q # NULL
    /\ \A t \in Threads : t # NULL
    /\ {"QUEUED", "RUNNING", "CANCELING", "DELAYED"} = WorkFlags
BY WorkAssumption DEF WorkFlags

\* A step that changes no list and no queue flag wakes no sleeping queue's
\* thread and leaves it no work.
LEMMA SleepFrame ==
    ASSUME NEW s \in WorkState, NEW r, SleepOK(s, r), NEW u, SameCalls(u, s), SameLists(u, s)
    PROVE  SleepOK(u, r)
<1>1. s.notifyq \in SUBSET Queues
  BY WorkTypes, Zenon
<1> QED BY <1>1, Zenon DEF SleepOK, SameCalls, SameLists

\* A step that ends no k_work_queue_drain() keeps the drainers where they are.
LEMMA DrainFrame ==
    ASSUME NEW s \in WorkState, NEW c, DrainOK(s, c), NEW u, u.drainq = s.drainq,
           NEW c2, \A t \in Threads : c[t] = "drain" => c2[t] = "drain"
    PROVE  DrainOK(u, c2)
<1>1. \A q \in Queues : s.drainq[q] \subseteq Threads
  BY WorkTypes, Zenon
<1> QED BY <1>1, Zenon DEF DrainOK

\* A step that leaves the lists alone, what waits for a flush or for the end of
\* a cancellation, and the flags that the rest of the invariant looks at.
LEMMA GoodFrame ==
    ASSUME NEW s, NEW r, NEW h, NEW c, NEW o, Good(s, r, h, c, o),
           NEW u \in WorkState, NEW c2, NEW o2, u.queue = s.queue, u.pending = s.pending,
           u.sem = s.sem, u.pending_cancels = s.pending_cancels, SleepOK(u, r), DrainOK(u, c2),
           \A t \in Threads : /\ c2[t] = "flush" <=> c[t] = "flush"
                              /\ c2[t] = "cancel" <=> c[t] = "cancel"
                              /\ o2[t] \subseteq o[t],
           \A w \in Works : /\ "QUEUED" \in u.flags[w] <=> "QUEUED" \in s.flags[w]
                            /\ "RUNNING" \in u.flags[w] <=> "RUNNING" \in s.flags[w]
                            /\ "CANCELING" \in s.flags[w] => "CANCELING" \in u.flags[w]
                            /\ "CANCELING" \in u.flags[w] => "RUNNING" \in u.flags[w]
                            /\ "DELAYED" \in u.flags[w] => w \in Delayable
    PROVE  Good(u, r, h, c2, o2)
<1>1. ListsOK(u, r)
  BY SMT DEF Good, ListsOK
<1>2. CancelOK(u, c2)
  <2>1. \A t \in Threads : s.pending_cancels[t] \in Works \cup {NULL}
    BY WorkTypes, Zenon DEF Good
  <2> QED BY <2>1, Zenon DEF Good, CancelOK
<1>3. PlaceOK(u, r, h, c2)
  <2>1. \A t \in Threads : Flushing(u, c2, t) <=> Flushing(s, c, t)
    BY Zenon DEF Flushing
  <2>2. \A t \in Threads, q \in Queues : Listed(u, t, q) <=> Listed(s, t, q)
    BY Zenon DEF Listed
  <2> QED BY <2>1, <2>2, Zenon DEF Good, PlaceOK
<1>4. OwedOK(u, o2)
  BY Zenon DEF Good, OwedOK
<1> QED BY <1>1, <1>2, <1>3, <1>4, Zenon DEF Good

\* A step that changes flags of items that the rest does not look at.
LEMMA GoodFlags ==
    ASSUME NEW s, NEW r, NEW h, NEW c, NEW o, Good(s, r, h, c, o),
           NEW u \in WorkState, SameCalls(u, s), SameLists(u, s), u.sem = s.sem,
           \A w \in Works : /\ "QUEUED" \in u.flags[w] <=> "QUEUED" \in s.flags[w]
                            /\ "RUNNING" \in u.flags[w] <=> "RUNNING" \in s.flags[w]
                            /\ "CANCELING" \in s.flags[w] => "CANCELING" \in u.flags[w]
                            /\ "CANCELING" \in u.flags[w] => "RUNNING" \in u.flags[w]
                            /\ "DELAYED" \in u.flags[w] => w \in Delayable
    PROVE  Good(u, r, h, c, o)
<1>1. SleepOK(u, r) /\ DrainOK(u, c)
  BY SleepFrame, DrainFrame, Zenon DEF Good, SameCalls
<1>2. /\ u.queue = s.queue /\ u.pending = s.pending
      /\ u.pending_cancels = s.pending_cancels
  BY Zenon DEF SameCalls, SameLists
<1>3. \A t \in Threads : o[t] \subseteq o[t]
  OBVIOUS
<1> QED BY <1>1, <1>2, <1>3, GoodFrame, Zenon

\* unschedule_locked() keeps the invariant.
LEMMA GoodUnschedule ==
    ASSUME NEW s, NEW r, NEW h, NEW c, NEW o, Good(s, r, h, c, o), NEW d \in Delayable
    PROVE  Good(unschedule_locked(s, d), r, h, c, o)
<1> DEFINE u == unschedule_locked(s, d)
<1>1. s \in WorkState /\ CancelOK(s, c)
  BY Zenon DEF Good
<1>2. /\ u \in WorkState /\ SameCalls(u, s) /\ SameLists(u, s) /\ u.sem = s.sem
      /\ \A v \in Works : u.flags[v] = s.flags[v] \ IF v = d THEN {"DELAYED"} ELSE {}
  BY <1>1, UnscheduleEffect, SMT
<1> HIDE DEF u
<1>3. \A w \in Works : /\ "QUEUED" \in u.flags[w] <=> "QUEUED" \in s.flags[w]
                       /\ "RUNNING" \in u.flags[w] <=> "RUNNING" \in s.flags[w]
                       /\ "CANCELING" \in s.flags[w] => "CANCELING" \in u.flags[w]
                       /\ "CANCELING" \in u.flags[w] => "RUNNING" \in u.flags[w]
                       /\ "DELAYED" \in u.flags[w] => w \in Delayable
  BY <1>1, <1>2 DEF CancelOK
<1>4. Good(u, r, h, c, o)
  BY <1>2, <1>3, GoodFlags, Zenon
<1> QED BY <1>4, Zenon DEF u

\* An accepted submission.
LEMMA GoodSubmit ==
    ASSUME NEW s, NEW r, NEW h, NEW c, NEW o, Good(s, r, h, c, o),
           NEW ctx, NEW w \in Works, NEW q \in Queues \cup {NULL}
    PROVE  Good(submit_to_queue_locked(s, ctx, w, q), r, h, c, o)
<1> DEFINE u == submit_to_queue_locked(s, ctx, w, q)
<1>1. s \in WorkState /\ ListsOK(s, r) /\ CancelOK(s, c) /\ SleepOK(s, r)
      /\ PlaceOK(s, r, h, c) /\ OwedOK(s, o) /\ DrainOK(s, c)
  BY Zenon DEF Good
<1>2. SUFFICES ASSUME u # s PROVE Good(u, r, h, c, o)
  BY Zenon
<1>12. PICK x \in Queues : Submitted(u, s, w, x)
  BY <1>1, <1>2, SubmitEffect, Zenon
<1> HIDE DEF u
<1>3. /\ "QUEUED" \notin s.flags[w] /\ "CANCELING" \notin s.flags[w]
      /\ "RUNNING" \in s.flags[w] => x = s.queue[w]
      /\ u \in WorkState /\ SameCalls(u, s) /\ SameDelays(u, s) /\ u.sem = s.sem
      /\ \A v \in Works : /\ u.flags[v] = s.flags[v] \cup IF v = w THEN {"QUEUED"} ELSE {}
                          /\ u.queue[v] = IF v = w THEN x ELSE s.queue[v]
      /\ \A y \in Queues : u.pending[y] = IF y = x THEN Append(s.pending[y], w)
                                                   ELSE s.pending[y]
      /\ u.notifyq = s.notifyq \ {x}
  BY <1>12, Zenon DEF Submitted
<1>4. \A v \in Works : /\ "QUEUED" \in u.flags[v] <=> "QUEUED" \in s.flags[v] \/ v = w
                       /\ "RUNNING" \in u.flags[v] <=> "RUNNING" \in s.flags[v]
                       /\ "CANCELING" \in u.flags[v] <=> "CANCELING" \in s.flags[v]
                       /\ "DELAYED" \in u.flags[v] <=> "DELAYED" \in s.flags[v]
  BY <1>3
<1>5. s.pending[x] \in Seq(Items) /\ ~OnQueue(s.pending[x], w) /\ NoDuplicates(s.pending[x])
      /\ w \in Items
  BY <1>1, <1>3, WorkTypes, SMT DEF ListsOK, Items
<1>6. /\ NoDuplicates(u.pending[x])
      /\ \A y \in Queues : \A v : OnQueue(u.pending[y], v) <=>
            OnQueue(s.pending[y], v) \/ (y = x /\ v = w)
      /\ \A y \in Queues : \A a, b : Before(s.pending[y], a, b) => Before(u.pending[y], a, b)
  <2>1. /\ NoDuplicates(Append(s.pending[x], w))
        /\ \A v : OnQueue(Append(s.pending[x], w), v) <=> OnQueue(s.pending[x], v) \/ v = w
        /\ \A a, b : Before(s.pending[x], a, b) => Before(Append(s.pending[x], w), a, b)
    BY <1>5, AppendList, Zenon
  <2> QED BY <1>3, <2>1, SMT
<1>7. ListsOK(u, r)
  <2>1. \A y \in Queues : NoDuplicates(u.pending[y])
    BY <1>1, <1>3, <1>6, Zenon DEF ListsOK
  <2>2. \A v \in Works : "QUEUED" \in u.flags[v] \/ "RUNNING" \in u.flags[v] =>
           u.queue[v] \in Queues
    BY <1>1, <1>3, <1>4, Zenon DEF ListsOK
  <2>3. ASSUME NEW v \in Works, NEW y \in Queues
        PROVE  /\ r[y] = v <=> "RUNNING" \in u.flags[v] /\ u.queue[v] = y
               /\ OnQueue(u.pending[y], v) <=> "QUEUED" \in u.flags[v] /\ u.queue[v] = y
    <3>1. CASE v = w
      BY <1>1, <1>3, <1>4, <1>6, <3>1, SMTT(40) DEF ListsOK
    <3>2. CASE v # w
      BY <1>1, <1>3, <1>4, <1>6, <3>2, SMT DEF ListsOK
    <3> QED BY <3>1, <3>2, Zenon
  <2> QED BY <2>1, <2>2, <2>3, Zenon DEF ListsOK
<1>8. CancelOK(u, c)
  <2>1. \A t \in Threads : s.pending_cancels[t] \in Works \cup {NULL}
    BY <1>1, WorkTypes, Zenon
  <2> QED BY <1>1, <1>3, <1>4, <2>1, Zenon DEF CancelOK, SameCalls
<1>9. SleepOK(u, r)
  <2>1. s.notifyq \in SUBSET Queues
    BY <1>1, WorkTypes, Zenon
  <2> QED BY <1>1, <1>3, <2>1, Zenon DEF SleepOK, SameCalls
<1>10. PlaceOK(u, r, h, c)
  <2>1. \A t \in Threads, y \in Queues : Listed(u, t, y) <=> Listed(s, t, y)
    BY <1>6, Constants, Zenon DEF Listed
  <2>2. \A t \in Threads : Flushing(u, c, t) <=> Flushing(s, c, t)
    BY <1>3, Zenon DEF Flushing
  <2> QED BY <1>1, <2>1, <2>2, Zenon DEF PlaceOK
<1>11. OwedOK(u, o)
  <2> SUFFICES ASSUME NEW t \in Threads, NEW v \in Works
               PROVE  /\ <<v, "QUEUED">> \in o[t] =>
                            /\ "QUEUED" \in u.flags[v]
                            /\ Before(u.pending[u.queue[v]], v, t)
                      /\ <<v, "RUNNING">> \in o[t] =>
                            /\ "RUNNING" \in u.flags[v]
                            /\ OnQueue(u.pending[u.queue[v]], t)
    BY Zenon DEF OwedOK
  <2>1. CASE v = w
    <3>1. <<v, "QUEUED">> \notin o[t]
      BY <1>1, <1>3, <2>1, Zenon DEF OwedOK
    <3>2. <<v, "RUNNING">> \in o[t] =>
             "RUNNING" \in s.flags[v] /\ OnQueue(s.pending[s.queue[v]], t)
      BY <1>1, Zenon DEF OwedOK
    <3> QED BY <1>3, <1>4, <1>6, <2>1, <3>1, <3>2, Zenon
  <2>2. CASE v # w
    <3>1. /\ u.queue[v] = s.queue[v]
          /\ "QUEUED" \in s.flags[v] \/ "RUNNING" \in s.flags[v] => s.queue[v] \in Queues
      BY <1>1, <1>3, <2>2, Zenon DEF ListsOK
    <3> QED BY <1>1, <1>4, <1>6, <2>2, <3>1, Zenon DEF OwedOK
  <2> QED BY <2>1, <2>2, Zenon
<1>20. DrainOK(u, c)
  BY <1>1, <1>3, DrainFrame, SMT DEF SameCalls
<1> QED BY <1>3, <1>7, <1>8, <1>9, <1>10, <1>11, <1>20, Zenon DEF Good

\* A queued run that is cancelled, and that nobody waits for any more.
LEMMA GoodRemove ==
    ASSUME NEW s, NEW r, NEW h, NEW c, NEW o, Good(s, r, h, c, o),
           NEW w \in Works, "QUEUED" \in s.flags[w], NEW o2,
           \A t \in Threads : o2[t] = o[t] \ {<<w, "QUEUED">>}
    PROVE  Good(queue_remove_locked(s, w), r, h, c, o2)
<1> DEFINE u == queue_remove_locked(s, w)
           x == s.queue[w]
<1>1. s \in WorkState /\ ListsOK(s, r) /\ CancelOK(s, c) /\ SleepOK(s, r)
      /\ PlaceOK(s, r, h, c) /\ OwedOK(s, o) /\ DrainOK(s, c)
  BY Zenon DEF Good
<1>2. /\ u \in WorkState /\ SameCalls(u, s) /\ SameDelays(u, s)
      /\ u.sem = s.sem /\ u.queue = s.queue /\ u.notifyq = s.notifyq
      /\ \A v \in Works : u.flags[v] = s.flags[v] \ IF v = w THEN {"QUEUED"} ELSE {}
      /\ \A y \in Queues :
            u.pending[y] = IF y = x
                           THEN sys_dlist_remove(s.pending[y], IndexOf(s.pending[y], w))
                           ELSE s.pending[y]
  BY <1>1, RemoveEffect, SMT
<1> HIDE DEF u
<1>3. /\ x \in Queues /\ OnQueue(s.pending[x], w) /\ NoDuplicates(s.pending[x])
      /\ s.pending[x] \in Seq(Items)
  BY <1>1, WorkTypes, SMT DEF ListsOK
<1>4. \A v \in Works : /\ "QUEUED" \in u.flags[v] <=> "QUEUED" \in s.flags[v] /\ v # w
                       /\ "RUNNING" \in u.flags[v] <=> "RUNNING" \in s.flags[v]
                       /\ "CANCELING" \in u.flags[v] <=> "CANCELING" \in s.flags[v]
                       /\ "DELAYED" \in u.flags[v] <=> "DELAYED" \in s.flags[v]
  BY <1>2, SMT
<1>5. /\ NoDuplicates(u.pending[x])
      /\ \A y \in Queues : \A v : OnQueue(u.pending[y], v) <=>
            OnQueue(s.pending[y], v) /\ ~(y = x /\ v = w)
      /\ \A y \in Queues : \A a, b :
            Before(s.pending[y], a, b) /\ a # w /\ b # w => Before(u.pending[y], a, b)
  <2> DEFINE p == sys_dlist_remove(s.pending[x], IndexOf(s.pending[x], w))
  <2>1. /\ NoDuplicates(p)
        /\ \A v : OnQueue(p, v) <=> OnQueue(s.pending[x], v) /\ v # w
        /\ \A a, b : Before(s.pending[x], a, b) /\ a # w /\ b # w => Before(p, a, b)
    BY <1>3, RemoveList, SMT
  <2>2. u.pending[x] = p /\ \A y \in Queues : y # x => u.pending[y] = s.pending[y]
    BY <1>2, <1>3, Zenon
  <2> HIDE DEF p
  <2> QED BY <2>1, <2>2, Zenon
<1>6. ListsOK(u, r)
  <2>1. \A y \in Queues : NoDuplicates(u.pending[y])
    BY <1>1, <1>2, <1>5, Zenon DEF ListsOK
  <2>2. \A v \in Works : "QUEUED" \in u.flags[v] \/ "RUNNING" \in u.flags[v] =>
           u.queue[v] \in Queues
    BY <1>1, <1>2, <1>4, Zenon DEF ListsOK
  <2>3. ASSUME NEW v \in Works, NEW y \in Queues
        PROVE  /\ r[y] = v <=> "RUNNING" \in u.flags[v] /\ u.queue[v] = y
               /\ OnQueue(u.pending[y], v) <=> "QUEUED" \in u.flags[v] /\ u.queue[v] = y
    BY <1>1, <1>2, <1>4, <1>5, SMT DEF ListsOK
  <2> QED BY <2>1, <2>2, <2>3, Zenon DEF ListsOK
<1>7. CancelOK(u, c)
  <2>1. \A t \in Threads : s.pending_cancels[t] \in Works \cup {NULL}
    BY <1>1, WorkTypes, Zenon
  <2> QED BY <1>1, <1>2, <1>4, <2>1, Zenon DEF CancelOK, SameCalls
<1>8. SleepOK(u, r)
  <2>1. s.notifyq \in SUBSET Queues
    BY <1>1, WorkTypes, Zenon
  <2>2. x \notin s.notifyq
    <3>1. s.pending[x] # <<>>
      BY <1>3 DEF OnQueue
    <3> QED BY <1>1, <3>1, Zenon DEF SleepOK
  <2> QED BY <1>1, <1>2, <2>1, <2>2, Zenon DEF SleepOK, SameCalls
<1>9. PlaceOK(u, r, h, c)
  <2>1. \A t \in Threads, y \in Queues : Listed(u, t, y) <=> Listed(s, t, y)
    BY <1>5, Constants, Zenon DEF Listed
  <2>2. \A t \in Threads : Flushing(u, c, t) <=> Flushing(s, c, t)
    BY <1>2, Zenon DEF Flushing
  <2> QED BY <1>1, <2>1, <2>2, Zenon DEF PlaceOK
<1>10. OwedOK(u, o2)
  <2> SUFFICES ASSUME NEW t \in Threads, NEW v \in Works
               PROVE  /\ <<v, "QUEUED">> \in o2[t] =>
                            /\ "QUEUED" \in u.flags[v]
                            /\ Before(u.pending[u.queue[v]], v, t)
                      /\ <<v, "RUNNING">> \in o2[t] =>
                            /\ "RUNNING" \in u.flags[v]
                            /\ OnQueue(u.pending[u.queue[v]], t)
    BY Zenon DEF OwedOK
  <2>1. <<v, "QUEUED">> \in o2[t] => v # w /\ <<v, "QUEUED">> \in o[t]
    BY Zenon
  <2>2. <<v, "RUNNING">> \in o2[t] => <<v, "RUNNING">> \in o[t]
    BY Zenon
  <2>3. t # w
    BY Constants, Zenon
  <2>4. "QUEUED" \in s.flags[v] \/ "RUNNING" \in s.flags[v] => s.queue[v] \in Queues
    BY <1>1, Zenon DEF ListsOK
  <2> QED BY <1>1, <1>2, <1>4, <1>5, <2>1, <2>2, <2>3, <2>4, Zenon DEF OwedOK
<1>20. DrainOK(u, c)
  BY <1>1, <1>2, DrainFrame, SMT DEF SameCalls
<1> QED BY <1>2, <1>6, <1>7, <1>8, <1>9, <1>10, <1>20, Zenon DEF Good, u

\* Only an item that runs is marked.
LEMMA GoodMark ==
    ASSUME NEW s, NEW r, NEW h, NEW c, NEW o, Good(s, r, h, c, o),
           NEW w \in Works, "RUNNING" \in s.flags[w]
    PROVE  /\ Good(flag_set(s, w, "CANCELING"), r, h, c, o)
           /\ "CANCELING" \in flag_set(s, w, "CANCELING").flags[w]
<1> DEFINE u == flag_set(s, w, "CANCELING")
<1>1. s \in WorkState /\ CancelOK(s, c) /\ "CANCELING" \in WorkFlags
  BY Constants, Zenon DEF Good
<1>2. /\ u \in WorkState /\ SameCalls(u, s) /\ SameLists(u, s) /\ u.sem = s.sem
      /\ \A v \in Works : u.flags[v] = s.flags[v] \cup IF v = w THEN {"CANCELING"} ELSE {}
  BY <1>1, FlagSet, SMT
<1> HIDE DEF u
<1>3. \A v \in Works : /\ "QUEUED" \in u.flags[v] <=> "QUEUED" \in s.flags[v]
                       /\ "RUNNING" \in u.flags[v] <=> "RUNNING" \in s.flags[v]
                       /\ "CANCELING" \in s.flags[v] => "CANCELING" \in u.flags[v]
                       /\ "CANCELING" \in u.flags[v] => "RUNNING" \in u.flags[v]
                       /\ "DELAYED" \in u.flags[v] => v \in Delayable
  BY <1>1, <1>2 DEF CancelOK
<1>4. Good(u, r, h, c, o)
  BY <1>2, <1>3, GoodFlags, Zenon
<1>5. "CANCELING" \in u.flags[w]
  BY <1>2, Zenon
<1> QED BY <1>4, <1>5, Zenon DEF u

\* k_work_cancel() takes the item off its list, and marks it if it runs.
LEMMA GoodCancel ==
    ASSUME NEW s, NEW r, NEW h, NEW c, NEW o, Good(s, r, h, c, o),
           NEW w \in Works, "DELAYED" \notin s.flags[w], NEW o2,
           \A t \in Threads : o2[t] = o[t] \ {<<w, "QUEUED">>}
    PROVE  Good(cancel_async_locked(s, w), r, h, c, o2)
<1> DEFINE u == IF "CANCELING" \in s.flags[w] THEN s ELSE queue_remove_locked(s, w)
<1>1. s \in WorkState /\ ListsOK(s, r) /\ CancelOK(s, c) /\ SleepOK(s, r) /\ DrainOK(s, c)
  BY Zenon DEF Good
<1>2. Good(s, r, h, c, o2)
  <2>1. \A t \in Threads : o2[t] \subseteq o[t]
    BY Zenon
  <2>2. \A v \in Works : /\ "CANCELING" \in s.flags[v] => "RUNNING" \in s.flags[v]
                         /\ "DELAYED" \in s.flags[v] => v \in Delayable
    BY <1>1, Zenon DEF CancelOK
  <2> QED BY <1>1, <2>1, <2>2, GoodFrame, Zenon
<1>3. s.flags[w] \subseteq {"QUEUED", "RUNNING", "CANCELING", "DELAYED"}
  BY <1>1, WorkTypes, Constants, SMT
<1>4. Good(u, r, h, c, o2) /\ (u.flags[w] # {} => "RUNNING" \in u.flags[w])
  <2>1. CASE "CANCELING" \in s.flags[w]
    BY <1>1, <1>2, <2>1, Zenon DEF CancelOK
  <2>2. CASE "CANCELING" \notin s.flags[w] /\ "QUEUED" \notin s.flags[w]
    <3>1. u = s
      BY <2>2, Zenon DEF queue_remove_locked
    <3> QED BY <1>2, <1>3, <2>2, <3>1, Zenon
  <2>3. CASE "CANCELING" \notin s.flags[w] /\ "QUEUED" \in s.flags[w]
    <3>1. u = queue_remove_locked(s, w)
      BY <2>3, Zenon
    <3>2. Good(u, r, h, c, o2)
      BY <2>3, <3>1, GoodRemove, Zenon
    <3>3. u.flags[w] = s.flags[w] \ {"QUEUED"}
      BY <1>1, <2>3, <3>1, RemoveEffect, SMT
    <3> QED BY <1>3, <2>3, <3>2, <3>3, Zenon
  <2> QED BY <2>1, <2>2, <2>3, Zenon
<1>5. cancel_async_locked(s, w) = IF u.flags[w] # {} THEN flag_set(u, w, "CANCELING") ELSE u
  BY Zenon DEF cancel_async_locked
<1> HIDE DEF u
<1> QED BY <1>4, <1>5, GoodMark, SMT

\* A thread that waits in no call starts to wait for the end of a cancellation.
LEMMA GoodWait ==
    ASSUME NEW s, NEW r, NEW h, NEW c, NEW o, Good(s, r, h, c, o),
           NEW w \in Works, "CANCELING" \in s.flags[w],
           NEW t \in Threads, c[t] = "none", NEW c2,
           \A y \in Threads : c2[y] = IF y = t THEN "cancel" ELSE c[y]
    PROVE  Good(init_work_cancel(s, w, t), r, h, c2, o)
<1> DEFINE u == init_work_cancel(s, w, t)
           C == [s.pending_cancels EXCEPT ![t] = w]
<1>1. s \in WorkState /\ ListsOK(s, r) /\ CancelOK(s, c) /\ SleepOK(s, r)
      /\ PlaceOK(s, r, h, c) /\ OwedOK(s, o) /\ DrainOK(s, c)
  BY Zenon DEF Good
<1>2. /\ C \in [Threads -> Works \cup {NULL}]
      /\ \A y \in Threads : C[y] = IF y = t THEN w ELSE s.pending_cancels[y]
  BY <1>1, WorkTypes, Zenon
<1>3. u = [s EXCEPT !.pending_cancels = C, !.sem = @ \ {t}]
  BY SMT DEF init_work_cancel
<1> HIDE DEF u, C
<1>4. /\ u \in WorkState /\ SameLists(u, s) /\ u.qflags = s.qflags /\ u.drainq = s.drainq
      /\ u.flags = s.flags /\ u.pending_cancels = C /\ u.sem = s.sem \ {t}
  BY <1>1, <1>2, <1>3, Zenon DEF WorkState, SameLists
<1>5. ListsOK(u, r)
  BY <1>1, <1>4, SMT DEF ListsOK, SameLists
<1>6. CancelOK(u, c2)
  <2>1. w # NULL
    BY Constants, Zenon
  <2> QED BY <1>1, <1>2, <1>4, <2>1, SMT DEF CancelOK
<1>7. SleepOK(u, r)
  <2>1. s.notifyq \in SUBSET Queues
    BY <1>1, WorkTypes, Zenon
  <2> QED BY <1>1, <1>4, <2>1, Zenon DEF SleepOK, SameLists
<1>8. PlaceOK(u, r, h, c2)
  <2>1. \A y \in Threads : Flushing(u, c2, y) <=> Flushing(s, c, y)
    BY <1>4, SMT DEF Flushing
  <2>2. \A y \in Threads, q \in Queues : Listed(u, y, q) <=> Listed(s, y, q)
    BY <1>4, Zenon DEF Listed, SameLists
  <2> QED BY <1>1, <2>1, <2>2, Zenon DEF PlaceOK
<1>9. OwedOK(u, o)
  BY <1>1, <1>4, Zenon DEF OwedOK, SameLists
<1>20. DrainOK(u, c2)
  <2>1. \A y \in Threads : c[y] = "drain" => c2[y] = "drain"
    BY SMT
  <2> QED BY <1>1, <1>4, <2>1, DrainFrame, SMT
<1> QED BY <1>4, <1>5, <1>6, <1>7, <1>8, <1>9, <1>20, Zenon DEF Good, u

\* A thread that waits in no call links its flusher in behind the item.
LEMMA GoodFlush ==
    ASSUME NEW s, NEW r, NEW h, NEW c, NEW o, Good(s, r, h, c, o),
           NEW w \in Works, NeedsFlush(s, w), NEW t \in Threads, c[t] = "none",
           NEW c2, \A y \in Threads : c2[y] = IF y = t THEN "flush" ELSE c[y],
           NEW o2, \A y \in Threads : y # t => o2[y] = o[y],
           o2[t] = {w} \X (s.flags[w] \cap {"QUEUED", "RUNNING"})
    PROVE  Good(work_flush_locked(s, w, t), r, h, c2, o2)
<1> DEFINE u == work_flush_locked(s, w, t)
           x == s.queue[w]
           at == IF OnQueue(s.pending[x], w) THEN IndexOf(s.pending[x], w) + 1 ELSE 1
           p == sys_dlist_insert(s.pending[x], at, t)
<1>1. s \in WorkState /\ ListsOK(s, r) /\ CancelOK(s, c) /\ SleepOK(s, r)
      /\ PlaceOK(s, r, h, c) /\ OwedOK(s, o) /\ DrainOK(s, c)
  BY Zenon DEF Good
<1>2. x \in Queues
  BY <1>1, SMTT(40) DEF ListsOK, NeedsFlush
<1>3. /\ u \in WorkState /\ SameCalls(u, s) /\ SameDelays(u, s)
      /\ u.flags = s.flags /\ u.queue = s.queue
      /\ at \in 1 .. Len(s.pending[x]) + 1
      /\ u.notifyq = s.notifyq \ {x} /\ u.sem = s.sem \ {t}
      /\ \A y \in Queues : u.pending[y] = IF y = x THEN sys_dlist_insert(s.pending[y], at, t)
                                                   ELSE s.pending[y]
  BY <1>1, <1>2, FlushEffect, SMTT(40)
<1> HIDE DEF u
<1>4. u.pending[x] = p /\ \A y \in Queues : y # x => u.pending[y] = s.pending[y]
  BY <1>2, <1>3, Zenon
<1>5. \A y \in Queues : ~Listed(s, t, y) /\ ~Taken(r, h, t, y)
  BY <1>1, Zenon DEF PlaceOK, Flushing
<1>6. s.pending[x] \in Seq(Items) /\ t \in Items /\ NoDuplicates(s.pending[x])
      /\ ~OnQueue(s.pending[x], t)
  BY <1>1, <1>2, <1>5, WorkTypes, SMTT(40) DEF ListsOK, Items, Listed
<1>7. /\ NoDuplicates(p)
      /\ \A v : OnQueue(p, v) <=> OnQueue(s.pending[x], v) \/ v = t
      /\ \A a, b : Before(s.pending[x], a, b) => Before(p, a, b)
  BY <1>3, <1>6, InsertList, SMTT(40)
<1>8. OnQueue(s.pending[x], w) => Before(p, w, t)
  <2>1. SUFFICES ASSUME OnQueue(s.pending[x], w) PROVE Before(p, w, t)
    OBVIOUS
  <2> DEFINE j == IndexOf(s.pending[x], w)
  <2>2. j \in 1 .. Len(s.pending[x]) /\ s.pending[x][j] = w
    BY <2>1, Zenon DEF OnQueue, IndexOf
  <2>3. j \in 1 .. at - 1
    BY <1>6, <2>1, <2>2
  <2>4. Before(p, s.pending[x][j], t)
    BY <1>3, <1>6, <2>3, InsertOrder, Zenon
  <2> QED BY <2>2, <2>4, Zenon
<1> HIDE DEF p, at
<1>9. /\ \A y \in Queues : NoDuplicates(u.pending[y])
      /\ \A y \in Queues : \A v : OnQueue(u.pending[y], v) <=>
            OnQueue(s.pending[y], v) \/ (y = x /\ v = t)
      /\ \A y \in Queues : \A a, b : Before(s.pending[y], a, b) => Before(u.pending[y], a, b)
  BY <1>1, <1>4, <1>7, Zenon DEF ListsOK
<1>10. ListsOK(u, r)
  <2>1. \A v \in Works : v # t
    BY Constants, Zenon
  <2> QED BY <1>1, <1>3, <1>9, <2>1, SMTT(40) DEF ListsOK
<1>11. CancelOK(u, c2)
  <2>1. s.pending_cancels[t] = NULL
    BY <1>1, Zenon DEF CancelOK
  <2> QED BY <1>1, <1>3, <2>1, SMTT(40) DEF CancelOK, SameCalls
<1>12. SleepOK(u, r)
  <2>1. s.notifyq \in SUBSET Queues
    BY <1>1, WorkTypes, Zenon
  <2> QED BY <1>1, <1>3, <1>4, <2>1, SMT DEF SleepOK, SameCalls
<1>13. PlaceOK(u, r, h, c2)
  <2>1. \A y \in Threads : Flushing(u, c2, y) <=> Flushing(s, c, y) \/ y = t
    BY <1>3, SMT DEF Flushing
  <2>2. \A y \in Threads, q \in Queues :
           Listed(u, y, q) <=> Listed(s, y, q) \/ (q = x /\ y = t)
    BY <1>9, Zenon DEF Listed
  <2> QED BY <1>1, <1>2, <1>5, <2>1, <2>2, SMTT(40) DEF PlaceOK
<1>14. OwedOK(u, o2)
  <2> SUFFICES ASSUME NEW y \in Threads, NEW v \in Works
               PROVE  /\ <<v, "QUEUED">> \in o2[y] =>
                            /\ "QUEUED" \in u.flags[v]
                            /\ Before(u.pending[u.queue[v]], v, y)
                      /\ <<v, "RUNNING">> \in o2[y] =>
                            /\ "RUNNING" \in u.flags[v]
                            /\ OnQueue(u.pending[u.queue[v]], y)
    BY Zenon DEF OwedOK
  <2>1. "QUEUED" \in s.flags[v] \/ "RUNNING" \in s.flags[v] => s.queue[v] \in Queues
    BY <1>1, Zenon DEF ListsOK
  <2>2. CASE y # t
    BY <1>1, <1>3, <1>9, <2>1, <2>2, Zenon DEF OwedOK
  <2>3. CASE y = t
    <3>1. /\ <<v, "QUEUED">> \in o2[y] => v = w /\ "QUEUED" \in s.flags[w]
          /\ <<v, "RUNNING">> \in o2[y] => v = w /\ "RUNNING" \in s.flags[w]
      BY <2>3
    <3>2. "QUEUED" \in s.flags[w] => OnQueue(s.pending[x], w)
      BY <1>1, <1>2, Zenon DEF ListsOK
    <3>3. OnQueue(u.pending[x], t)
      BY <1>2, <1>9, Zenon
    <3> QED BY <1>3, <1>4, <1>8, <2>3, <3>1, <3>2, <3>3, Zenon
  <2> QED BY <2>2, <2>3, Zenon
<1>20. DrainOK(u, c2)
  <2>1. \A y \in Threads : c[y] = "drain" => c2[y] = "drain"
    BY SMT
  <2> QED BY <1>1, <1>3, <2>1, DrainFrame, SMT DEF SameCalls
<1> QED BY <1>3, <1>10, <1>11, <1>12, <1>13, <1>14, <1>20, Zenon DEF Good, u

\* The delay begins, or the item is submitted.
LEMMA GoodSchedule ==
    ASSUME NEW s, NEW r, NEW h, NEW c, NEW o, Good(s, r, h, c, o),
           NEW ctx, NEW d \in Delayable, NEW q \in Queues \cup {NULL}, NEW delay
    PROVE  Good(schedule_for_queue_locked(s, ctx, d, q, delay), r, h, c, o)
<1>1. CASE delay = "NO_WAIT"
  BY <1>1, Constants, GoodSubmit, SMT DEF schedule_for_queue_locked
<1>2. CASE delay # "NO_WAIT"
  <2> DEFINE D == [s.dqueue EXCEPT ![d] = q]
             v == [s EXCEPT !.dqueue = D, !.timeout = @ \cup {d}]
             u == flag_set(v, d, "DELAYED")
  <2>1. s \in WorkState /\ CancelOK(s, c) /\ "DELAYED" \in WorkFlags /\ d \in Works
    BY Constants, Zenon DEF Good
  <2>2. D \in [Delayable -> Queues \cup {NULL}]
    BY <2>1, WorkTypes, Zenon
  <2>3. schedule_for_queue_locked(s, ctx, d, q, delay) = u
    BY <1>2, SMT DEF schedule_for_queue_locked
  <2> HIDE DEF D
  <2>4. /\ v \in WorkState /\ SameCalls(v, s) /\ SameLists(v, s) /\ v.sem = s.sem
        /\ v.flags = s.flags
    BY <2>1, <2>2, Zenon DEF WorkState, SameCalls, SameLists
  <2> HIDE DEF v
  <2>5. /\ u \in WorkState /\ SameCalls(u, v) /\ SameLists(u, v) /\ u.sem = v.sem
        /\ \A x \in Works : u.flags[x] = v.flags[x] \cup IF x = d THEN {"DELAYED"} ELSE {}
    BY <2>1, <2>4, FlagSet, SMT
  <2> HIDE DEF u
  <2>6. SameCalls(u, s) /\ SameLists(u, s) /\ u.sem = s.sem
    BY <2>4, <2>5, Zenon DEF SameCalls, SameLists
  <2>7. \A x \in Works : /\ "QUEUED" \in u.flags[x] <=> "QUEUED" \in s.flags[x]
                         /\ "RUNNING" \in u.flags[x] <=> "RUNNING" \in s.flags[x]
                         /\ "CANCELING" \in s.flags[x] => "CANCELING" \in u.flags[x]
                         /\ "CANCELING" \in u.flags[x] => "RUNNING" \in u.flags[x]
                         /\ "DELAYED" \in u.flags[x] => x \in Delayable
    BY <2>1, <2>4, <2>5 DEF CancelOK
  <2>8. Good(u, r, h, c, o)
    BY <2>5, <2>6, <2>7, GoodFlags, Zenon
  <2> QED BY <2>3, <2>8, Zenon
<1> QED BY <1>1, <1>2, Zenon

-----------------------------------------------------------------------------
(* The steps of a queue's thread.                                          *)

\* A queued item becomes a running one.
LEMMA RunEffect ==
    ASSUME NEW s \in WorkState, NEW w \in Works
    PROVE  LET r == flag_set(flag_clear(s, w, "QUEUED"), w, "RUNNING")
           IN  /\ r \in WorkState /\ SameCalls(r, s) /\ SameLists(r, s)
               /\ SameDelays(r, s) /\ r.sem = s.sem
               /\ \A x \in Works :
                     r.flags[x] = IF x = w THEN (s.flags[x] \ {"QUEUED"}) \cup {"RUNNING"}
                                           ELSE s.flags[x]
<1> DEFINE v == flag_clear(s, w, "QUEUED")
           r == flag_set(v, w, "RUNNING")
<1>1. /\ v \in WorkState /\ SameCalls(v, s) /\ SameLists(v, s) /\ SameDelays(v, s)
      /\ v.sem = s.sem
      /\ \A x \in Works : v.flags[x] = s.flags[x] \ IF x = w THEN {"QUEUED"} ELSE {}
  BY FlagClear
<1> HIDE DEF v
<1>2. "RUNNING" \in WorkFlags
  BY Constants, Zenon
<1>3. /\ r \in WorkState /\ SameCalls(r, v) /\ SameLists(r, v) /\ SameDelays(r, v)
      /\ r.sem = v.sem
      /\ \A x \in Works : r.flags[x] = v.flags[x] \cup IF x = w THEN {"RUNNING"} ELSE {}
  BY <1>1, <1>2, FlagSet
<1> HIDE DEF r
<1>4. \A x \in Works : r.flags[x] = IF x = w THEN (s.flags[x] \ {"QUEUED"}) \cup {"RUNNING"}
                                             ELSE s.flags[x]
  BY <1>1, <1>3, Zenon
<1>5. SameCalls(r, s) /\ SameLists(r, s) /\ SameDelays(r, s) /\ r.sem = s.sem
  BY <1>1, <1>3, Zenon DEF SameCalls, SameLists, SameDelays
<1> QED BY <1>3, <1>4, <1>5, Zenon DEF r, v

\* The first item is taken off the list of a busy queue.
LEMMA TakeEffect ==
    ASSUME NEW s \in WorkState, NEW q \in Queues, s.pending[q] # <<>>
    PROVE  LET u == [s EXCEPT !.pending[q] = Tail(@), !.qflags[q] = @ \cup {"BUSY"}]
           IN  /\ u \in WorkState /\ SameDelays(u, s) /\ u.sem = s.sem /\ u.flags = s.flags
               /\ u.queue = s.queue /\ u.notifyq = s.notifyq /\ u.drainq = s.drainq
               /\ u.pending_cancels = s.pending_cancels
               /\ \A y \in Queues :
                     /\ u.pending[y] = IF y = q THEN Tail(s.pending[y]) ELSE s.pending[y]
                     /\ u.qflags[y] = s.qflags[y] \cup IF y = q THEN {"BUSY"} ELSE {}
<1> DEFINE P == [s.pending EXCEPT ![q] = Tail(@)]
           F == [s.qflags EXCEPT ![q] = @ \cup {"BUSY"}]
           u == [s EXCEPT !.pending = P, !.qflags = F]
<1>1. [s EXCEPT !.pending[q] = Tail(@), !.qflags[q] = @ \cup {"BUSY"}] = u
  BY SMT
<1>2. s.pending[q] \in Seq(Items)
  BY WorkTypes, Zenon
<1>3. Tail(s.pending[q]) \in Seq(Items)
  BY <1>2
<1>4. /\ P \in [Queues -> Seq(Items)]
      /\ \A y \in Queues : P[y] = IF y = q THEN Tail(s.pending[y]) ELSE s.pending[y]
  BY <1>3, WorkTypes, Zenon
<1>5. /\ F \in [Queues -> SUBSET QueueFlags]
      /\ \A y \in Queues : F[y] = s.qflags[y] \cup IF y = q THEN {"BUSY"} ELSE {}
  BY WorkTypes DEF QueueFlags
<1> HIDE DEF P, F
<1>6. /\ u \in WorkState /\ SameDelays(u, s) /\ u.sem = s.sem /\ u.flags = s.flags
      /\ u.queue = s.queue /\ u.notifyq = s.notifyq /\ u.drainq = s.drainq
      /\ u.pending_cancels = s.pending_cancels /\ u.pending = P /\ u.qflags = F
  BY <1>4, <1>5, Zenon DEF WorkState, SameDelays
<1> HIDE DEF u
<1> QED BY <1>1, <1>4, <1>5, <1>6, Zenon

\* u is s with item taken off the list of queue q
Took(u, s, q, item) ==
    /\ u \in WorkState /\ u.queue = s.queue /\ u.notifyq = s.notifyq
    /\ u.drainq = s.drainq /\ u.pending_cancels = s.pending_cancels /\ u.sem = s.sem
    /\ \A y \in Queues :
          /\ u.pending[y] = IF y = q THEN Tail(s.pending[y]) ELSE s.pending[y]
          /\ u.qflags[y] = s.qflags[y] \cup IF y = q THEN {"BUSY"} ELSE {}
    /\ \A v \in Works :
          u.flags[v] = IF v = item THEN (s.flags[v] \ {"QUEUED"}) \cup {"RUNNING"}
                                   ELSE s.flags[v]

\* The item at the head is taken off: it now runs, or it is a flusher that is
\* about to be handled, and then all runs its thread waited for have ended.
LEMMA GoodTake ==
    ASSUME NEW s, NEW r, NEW h, NEW c, NEW o, Good(s, r, h, c, o),
           NEW q \in Queues, s.pending[q] # <<>>, q \notin s.notifyq, r[q] = NULL,
           NEW item, item = Head(s.pending[q]), NEW u, Took(u, s, q, item),
           NEW r2, \A y \in Queues : r2[y] = IF y = q THEN item ELSE r[y],
           NEW o2, \A t \in Threads :
              o2[t] = {IF x = <<item, "QUEUED">> THEN <<item, "RUNNING">> ELSE x : x \in o[t]}
    PROVE  Good(u, r2, h, c, o2)
<1> USE DEF Took
<1>1. s \in WorkState /\ ListsOK(s, r) /\ CancelOK(s, c) /\ SleepOK(s, r)
      /\ PlaceOK(s, r, h, c) /\ OwedOK(s, o) /\ DrainOK(s, c)
  BY Zenon DEF Good
<1>2. s.pending[q] \in Seq(Items) /\ NoDuplicates(s.pending[q]) /\ q # NULL
  BY <1>1, WorkTypes, Constants, SMT DEF ListsOK
<1>3. /\ NoDuplicates(Tail(s.pending[q])) /\ item \in Items /\ OnQueue(s.pending[q], item)
      /\ \A v : OnQueue(Tail(s.pending[q]), v) <=> OnQueue(s.pending[q], v) /\ v # item
      /\ \A a : ~Before(s.pending[q], a, item)
      /\ \A a, b : Before(s.pending[q], a, b) /\ a # item => Before(Tail(s.pending[q]), a, b)
  BY <1>2, TailList, Zenon
<1>4. /\ \A y \in Queues : NoDuplicates(u.pending[y])
      /\ \A y \in Queues : \A v : OnQueue(u.pending[y], v) <=>
            OnQueue(s.pending[y], v) /\ ~(y = q /\ v = item)
      /\ \A y \in Queues : \A a, b :
            Before(s.pending[y], a, b) /\ ~(y = q /\ a = item) => Before(u.pending[y], a, b)
      /\ \A y \in Queues : y # q => u.pending[y] = s.pending[y]
  BY <1>1, <1>3, SMT DEF ListsOK
<1>5. item \in Works => /\ "QUEUED" \in s.flags[item] /\ s.queue[item] = q
                        /\ "RUNNING" \notin s.flags[item]
                        /\ "CANCELING" \notin s.flags[item]
  <2>1. SUFFICES ASSUME item \in Works
                 PROVE  /\ "QUEUED" \in s.flags[item] /\ s.queue[item] = q
                        /\ "RUNNING" \notin s.flags[item]
                        /\ "CANCELING" \notin s.flags[item]
    OBVIOUS
  <2>2. "QUEUED" \in s.flags[item] /\ s.queue[item] = q
    BY <1>1, <1>3, <2>1, SMTT(40) DEF ListsOK
  <2>3. "RUNNING" \notin s.flags[item]
    BY <1>1, <2>1, <2>2, Constants, SMT DEF ListsOK
  <2> QED BY <1>1, <2>1, <2>2, <2>3, Zenon DEF CancelOK
<1>6. ASSUME NEW v \in Works
      PROVE  /\ "QUEUED" \in u.flags[v] <=> "QUEUED" \in s.flags[v] /\ v # item
             /\ "RUNNING" \in u.flags[v] <=> "RUNNING" \in s.flags[v] \/ v = item
             /\ "CANCELING" \in u.flags[v] <=> "CANCELING" \in s.flags[v]
             /\ "DELAYED" \in u.flags[v] <=> "DELAYED" \in s.flags[v]
  <2>1. CASE v = item
    <3>1. u.flags[v] = (s.flags[v] \ {"QUEUED"}) \cup {"RUNNING"}
      BY <2>1, Zenon
    <3> QED BY <2>1, <3>1
  <2>2. CASE v # item
    <3>1. u.flags[v] = s.flags[v]
      BY <2>2, Zenon
    <3> QED BY <2>2, <3>1, Zenon
  <2> QED BY <2>1, <2>2, Zenon
<1>7. ListsOK(u, r2)
  <2>1. ASSUME NEW v \in Works, NEW y \in Queues
        PROVE  /\ r2[y] = v <=> "RUNNING" \in u.flags[v] /\ u.queue[v] = y
               /\ OnQueue(u.pending[y], v) <=> "QUEUED" \in u.flags[v] /\ u.queue[v] = y
    <3>1. /\ r[y] = v <=> "RUNNING" \in s.flags[v] /\ s.queue[v] = y
          /\ OnQueue(s.pending[y], v) <=> "QUEUED" \in s.flags[v] /\ s.queue[v] = y
          /\ v # NULL
      BY <1>1, Constants, SMTT(40) DEF ListsOK
    <3>2. CASE v = item
      BY <1>4, <1>5, <1>6, <3>1, <3>2, SMTT(40)
    <3>3. CASE v # item
      BY <1>4, <1>6, <3>1, <3>3, Zenon
    <3> QED BY <3>2, <3>3, Zenon
  <2>2. \A v \in Works : "QUEUED" \in u.flags[v] \/ "RUNNING" \in u.flags[v] =>
           u.queue[v] \in Queues
    BY <1>1, <1>5, <1>6, SMTT(40) DEF ListsOK
  <2> QED BY <1>4, <2>1, <2>2, Zenon DEF ListsOK
<1>8. CancelOK(u, c)
  <2>1. \A t \in Threads : s.pending_cancels[t] \in Works \cup {NULL}
    BY <1>1, WorkTypes, Zenon
  <2> QED BY <1>1, <1>6, <2>1, SMT DEF CancelOK
<1>9. SleepOK(u, r2)
  <2>1. s.notifyq \in SUBSET Queues
    BY <1>1, WorkTypes, Zenon
  <2>2. \A y \in Queues : /\ "DRAIN" \in u.qflags[y] <=> "DRAIN" \in s.qflags[y]
                          /\ "STARTED" \in u.qflags[y] <=> "STARTED" \in s.qflags[y]
    BY SMT
  <2>3. \A y \in s.notifyq : u.pending[y] = s.pending[y] /\ r2[y] = r[y]
    BY <2>1, Zenon
  <2> QED BY <1>1, <2>1, <2>2, <2>3, SMT DEF SleepOK
<1>10. PlaceOK(u, r2, h, c)
  <2>1. q \notin h
    BY <1>1, Constants, Zenon DEF PlaceOK
  <2>2. \A t \in Threads : Flushing(u, c, t) <=> Flushing(s, c, t)
    BY Zenon DEF Flushing
  <2>3. \A t \in Threads, y \in Queues :
           /\ Listed(u, t, y) <=> Listed(s, t, y) /\ ~(y = q /\ t = item)
           /\ Taken(r2, h, t, y) <=> Taken(r, h, t, y) \/ (y = q /\ t = item)
    <3>1. ASSUME NEW t \in Threads, NEW y \in Queues
          PROVE  Taken(r2, h, t, y) <=> Taken(r, h, t, y) \/ (y = q /\ t = item)
      BY <2>1, Constants, Zenon DEF Taken
    <3> QED BY <1>4, <3>1, Zenon DEF Listed
  <2>4. item \in Threads => Listed(s, item, q)
    BY <1>3, Zenon DEF Listed
  <2>5. \A y \in Queues : y \in h => r2[y] \in Threads
    BY <1>1, <2>1, Zenon DEF PlaceOK
  <2> QED BY <1>1, <2>2, <2>3, <2>4, <2>5, SMTT(40) DEF PlaceOK
<1>11. OwedOK(u, o2)
  <2> SUFFICES ASSUME NEW t \in Threads, NEW v \in Works
               PROVE  /\ <<v, "QUEUED">> \in o2[t] =>
                            /\ "QUEUED" \in u.flags[v]
                            /\ Before(u.pending[u.queue[v]], v, t)
                      /\ <<v, "RUNNING">> \in o2[t] =>
                            /\ "RUNNING" \in u.flags[v]
                            /\ OnQueue(u.pending[u.queue[v]], t)
    BY Zenon DEF OwedOK
  <2>1. <<v, "QUEUED">> \in o2[t] => v # item /\ <<v, "QUEUED">> \in o[t]
    BY SMT
  <2>2. <<v, "RUNNING">> \in o2[t] => \/ <<v, "RUNNING">> \in o[t]
                                      \/ v = item /\ <<v, "QUEUED">> \in o[t]
    BY SMT
  <2>3. "QUEUED" \in s.flags[v] \/ "RUNNING" \in s.flags[v] => s.queue[v] \in Queues
    BY <1>1, Zenon DEF ListsOK
  <2>4. ASSUME <<v, "QUEUED">> \in o2[t]
        PROVE  "QUEUED" \in u.flags[v] /\ Before(u.pending[u.queue[v]], v, t)
    <3>1. "QUEUED" \in s.flags[v] /\ Before(s.pending[s.queue[v]], v, t)
      BY <1>1, <2>1, <2>4, Zenon DEF OwedOK
    <3> QED BY <1>4, <1>6, <2>1, <2>3, <2>4, <3>1, Zenon
  <2>5. ASSUME <<v, "RUNNING">> \in o2[t], <<v, "RUNNING">> \in o[t]
        PROVE  "RUNNING" \in u.flags[v] /\ OnQueue(u.pending[u.queue[v]], t)
    <3>1. "RUNNING" \in s.flags[v] /\ OnQueue(s.pending[s.queue[v]], t)
      BY <1>1, <2>5, Zenon DEF OwedOK
    <3>2. s.queue[v] \in Queues /\ s.queue[v] # q
      BY <1>1, <2>3, <3>1, Constants, SMT DEF ListsOK
    <3> QED BY <1>4, <1>6, <3>1, <3>2, Zenon
  <2>6. ASSUME v = item, <<v, "QUEUED">> \in o[t]
        PROVE  "RUNNING" \in u.flags[v] /\ OnQueue(u.pending[u.queue[v]], t)
    <3>1. s.queue[v] = q /\ Before(s.pending[q], item, t)
      BY <1>1, <1>5, <2>6, Zenon DEF OwedOK
    <3>2. OnQueue(s.pending[q], t)
      BY <3>1, Zenon DEF Before, OnQueue
    <3>3. t # item
      BY <1>3, <3>1, SMTT(40)
    <3> QED BY <1>4, <1>6, <2>6, <3>1, <3>2, <3>3, Zenon
  <2> QED BY <2>2, <2>4, <2>5, <2>6, Zenon
<1>20. DrainOK(u, c)
  BY <1>1, DrainFrame, SMT
<1> QED BY <1>7, <1>8, <1>9, <1>10, <1>11, <1>20, Zenon DEF Good

\* handle_flush() releases the thread whose flusher was taken.
LEMMA GoodHandle ==
    ASSUME NEW s, NEW r, NEW h, NEW c, NEW o, Good(s, r, h, c, o),
           NEW q \in Queues, NEW t \in Threads, r[q] = t, q \notin h
    PROVE  Good([s EXCEPT !.sem = @ \cup {t}], r, h \cup {q}, c, o)
<1> DEFINE u == [s EXCEPT !.sem = @ \cup {t}]
           g == h \cup {q}
<1>1. s \in WorkState /\ ListsOK(s, r) /\ CancelOK(s, c) /\ SleepOK(s, r)
      /\ PlaceOK(s, r, h, c) /\ OwedOK(s, o) /\ DrainOK(s, c)
  BY Zenon DEF Good
<1>2. /\ u \in WorkState /\ SameCalls(u, s) /\ SameLists(u, s) /\ u.flags = s.flags
      /\ u.sem = s.sem \cup {t}
  BY <1>1, Zenon DEF WorkState, SameCalls, SameLists
<1>3. Taken(r, h, t, q)
  BY Zenon DEF Taken
<1> HIDE DEF u
<1>4. c[t] = "flush" /\ t \notin s.sem
  BY <1>1, <1>3, Zenon DEF PlaceOK, Flushing
<1>5. ListsOK(u, r)
  BY <1>1, <1>2, SMTT(40) DEF ListsOK, SameLists
<1>6. CancelOK(u, c)
  BY <1>1, <1>2, <1>4, SMT DEF CancelOK, SameCalls
<1>7. SleepOK(u, r)
  BY <1>1, <1>2, SleepFrame, Zenon
<1>8. PlaceOK(u, r, g, c)
  <2>1. \A y \in Threads : Flushing(u, c, y) <=> Flushing(s, c, y) /\ y # t
    BY <1>2, SMT DEF Flushing
  <2>2. \A y \in Threads, x \in Queues : Listed(u, y, x) <=> Listed(s, y, x)
    BY <1>2, Zenon DEF Listed, SameLists
  <2>3. \A y \in Threads, x \in Queues : Taken(r, g, y, x) <=> Taken(r, h, y, x) /\ x # q
    BY Zenon DEF Taken
  <2>4. \A y \in Threads : Taken(r, h, y, q) => y = t
    BY Zenon DEF Taken
  <2>5. \A x \in Queues : Listed(s, t, x) \/ Taken(r, h, t, x) => x = q
    BY <1>1, <1>3, Zenon DEF PlaceOK
  <2>6. ~Listed(s, t, q)
    BY <1>1, <1>3, Zenon DEF PlaceOK
  <2>7. \A x \in Queues : x \in g => r[x] \in Threads
    BY <1>1, SMT DEF PlaceOK
  <2> HIDE DEF g
  <2>8. ASSUME NEW y \in Threads, y = t
        PROVE  /\ ~Flushing(u, c, y)
               /\ \A x \in Queues : ~Listed(u, y, x) /\ ~Taken(r, g, y, x)
    BY <2>1, <2>2, <2>3, <2>5, <2>6, <2>8, Zenon
  <2>9. ASSUME NEW y \in Threads, y # t
        PROVE  /\ Flushing(u, c, y) <=> Flushing(s, c, y)
               /\ \A x \in Queues : /\ Listed(u, y, x) <=> Listed(s, y, x)
                                    /\ Taken(r, g, y, x) <=> Taken(r, h, y, x)
    BY <2>1, <2>2, <2>3, <2>4, <2>9, Zenon
  <2> QED BY <1>1, <2>7, <2>8, <2>9, Zenon DEF PlaceOK
<1>9. OwedOK(u, o)
  BY <1>1, <1>2, Zenon DEF OwedOK, SameLists
<1>20. DrainOK(u, c)
  BY <1>1, <1>2, DrainFrame, Zenon DEF SameCalls
<1> QED BY <1>2, <1>5, <1>6, <1>7, <1>8, <1>9, <1>20, Zenon DEF Good, u

\* A thread that was released returns.
LEMMA GoodReturn ==
    ASSUME NEW s, NEW r, NEW h, NEW c, NEW o, Good(s, r, h, c, o),
           NEW t \in Threads, t \in s.sem, c[t] # "drain",
           NEW c2, \A y \in Threads : c2[y] = IF y = t THEN "none" ELSE c[y]
    PROVE  Good([s EXCEPT !.sem = @ \ {t}], r, h, c2, o)
<1> DEFINE u == [s EXCEPT !.sem = @ \ {t}]
<1>1. s \in WorkState /\ ListsOK(s, r) /\ CancelOK(s, c) /\ SleepOK(s, r)
      /\ PlaceOK(s, r, h, c) /\ OwedOK(s, o) /\ DrainOK(s, c)
  BY Zenon DEF Good
<1>2. /\ u \in WorkState /\ SameCalls(u, s) /\ SameLists(u, s) /\ u.flags = s.flags
      /\ u.sem = s.sem \ {t}
  BY <1>1, Zenon DEF WorkState, SameCalls, SameLists
<1> HIDE DEF u
<1>3. ListsOK(u, r)
  BY <1>1, <1>2, SMTT(40) DEF ListsOK, SameLists
<1>4. CancelOK(u, c2)
  BY <1>1, <1>2, SMT DEF CancelOK, SameCalls
<1>5. SleepOK(u, r)
  BY <1>1, <1>2, SleepFrame, Zenon
<1>6. PlaceOK(u, r, h, c2)
  <2>1. \A y \in Threads : Flushing(u, c2, y) <=> Flushing(s, c, y)
    BY <1>2, SMT DEF Flushing
  <2>2. \A y \in Threads, x \in Queues : Listed(u, y, x) <=> Listed(s, y, x)
    BY <1>2, Zenon DEF Listed, SameLists
  <2> QED BY <1>1, <2>1, <2>2, ZenonT(40) DEF PlaceOK
<1>7. OwedOK(u, o)
  BY <1>1, <1>2, Zenon DEF OwedOK, SameLists
<1>20. DrainOK(u, c2)
  <2>1. \A y \in Threads : c[y] = "drain" => c2[y] = "drain"
    BY SMT
  <2> QED BY <1>1, <1>2, <2>1, DrainFrame, SMT DEF SameCalls
<1> QED BY <1>2, <1>3, <1>4, <1>5, <1>6, <1>7, <1>20, Zenon DEF Good, u

\* A flusher that was handled is done.
LEMMA GoodFlusherDone ==
    ASSUME NEW s, NEW r, NEW h, NEW c, NEW o, Good(s, r, h, c, o),
           NEW q \in Queues, r[q] \in Threads, q \in h,
           NEW r2, \A y \in Queues : r2[y] = IF y = q THEN NULL ELSE r[y]
    PROVE  Good(s, r2, h \ {q}, c, o)
<1>1. s \in WorkState /\ ListsOK(s, r) /\ CancelOK(s, c) /\ SleepOK(s, r)
      /\ PlaceOK(s, r, h, c) /\ OwedOK(s, o) /\ DrainOK(s, c)
  BY Zenon DEF Good
<1>2. ListsOK(s, r2)
  <2>1. \A y \in Queues, w \in Works : r2[y] = w <=> r[y] = w
    BY Constants, Zenon
  <2> QED BY <1>1, <2>1, SMT DEF ListsOK
<1>3. SleepOK(s, r2)
  <2>1. s.notifyq \in SUBSET Queues
    BY <1>1, WorkTypes, Zenon
  <2> QED BY <1>1, <2>1, SMT DEF SleepOK
<1>4. PlaceOK(s, r2, h \ {q}, c)
  <2>1. \A t \in Threads, y \in Queues : Taken(r2, h \ {q}, t, y) <=> Taken(r, h, t, y)
    BY Constants, Zenon DEF Taken
  <2>2. \A y \in Queues : y \in h \ {q} => r2[y] \in Threads
    BY <1>1, SMT DEF PlaceOK
  <2> QED BY <1>1, <2>1, <2>2, SMTT(40) DEF PlaceOK
<1> QED BY <1>1, <1>2, <1>3, <1>4, Zenon DEF Good

\* u is s with the run of w ended
RunEnded(u, s, w) ==
    /\ u \in WorkState /\ SameLists(u, s) /\ u.qflags = s.qflags /\ u.drainq = s.drainq
    /\ \A x \in Works :
          u.flags[x] = s.flags[x] \ IF x = w THEN {"RUNNING", "CANCELING"} ELSE {}
    /\ \A t \in Threads :
          /\ u.pending_cancels[t] = IF s.pending_cancels[t] = w THEN NULL
                                    ELSE s.pending_cancels[t]
          /\ t \in u.sem <=> t \in s.sem \/ s.pending_cancels[t] = w

\* The end of a run clears both flags, and releases who waits for the item.
LEMMA DoneEffect ==
    ASSUME NEW s \in WorkState, NEW c, CancelOK(s, c), NEW w \in Works
    PROVE  LET u == flag_clear(s, w, "RUNNING")
               v == IF "CANCELING" \in u.flags[w] THEN finalize_cancel_locked(u, w) ELSE u
           IN  RunEnded(v, s, w) /\ SameDelays(v, s)
<1> DEFINE u == flag_clear(s, w, "RUNNING")
           v == IF "CANCELING" \in u.flags[w] THEN finalize_cancel_locked(u, w) ELSE u
<1>1. /\ u \in WorkState /\ SameCalls(u, s) /\ SameLists(u, s) /\ SameDelays(u, s)
      /\ u.sem = s.sem
      /\ \A x \in Works : u.flags[x] = s.flags[x] \ IF x = w THEN {"RUNNING"} ELSE {}
  BY FlagClear
<1> HIDE DEF u
<1>2. "CANCELING" \in u.flags[w] <=> "CANCELING" \in s.flags[w]
  BY <1>1
<1>3. CASE "CANCELING" \notin s.flags[w]
  <2>1. v = u
    BY <1>2, <1>3, Zenon
  <2>2. \A t \in Threads : s.pending_cancels[t] # w
    BY <1>3, Constants, Zenon DEF CancelOK
  <2>3. \A x \in Works :
           u.flags[x] = s.flags[x] \ IF x = w THEN {"RUNNING", "CANCELING"} ELSE {}
    BY <1>1, <1>3, SMT
  <2>4. u.qflags = s.qflags /\ u.drainq = s.drainq /\ u.pending_cancels = s.pending_cancels
    BY <1>1, Zenon DEF SameCalls
  <2> HIDE DEF v
  <2> QED BY <1>1, <2>1, <2>2, <2>3, <2>4, Zenon DEF u, v, RunEnded
<1>4. CASE "CANCELING" \in s.flags[w]
  <2> DEFINE W == {t \in Threads : u.pending_cancels[t] = w}
             C == [t \in Threads |-> IF t \in W THEN NULL ELSE u.pending_cancels[t]]
             f == flag_clear(u, w, "CANCELING")
             g == [f EXCEPT !.pending_cancels = C, !.sem = @ \cup W]
  <2>1. /\ f \in WorkState /\ SameCalls(f, u) /\ SameLists(f, u) /\ SameDelays(f, u)
        /\ f.sem = u.sem
        /\ \A x \in Works : f.flags[x] = u.flags[x] \ IF x = w THEN {"CANCELING"} ELSE {}
    BY <1>1, FlagClear
  <2>2. f.pending_cancels = u.pending_cancels
    BY <2>1, Zenon DEF SameCalls
  <2>3. finalize_cancel_locked(u, w) =
           [f EXCEPT !.pending_cancels = [t \in Threads |-> IF t \in W THEN NULL ELSE @[t]],
                     !.sem = @ \cup W]
    BY Zenon DEF finalize_cancel_locked
  <2> HIDE DEF f, W
  <2>4. finalize_cancel_locked(u, w) = g
    BY <2>2, <2>3, SMT
  <2>5. v = g
    BY <1>2, <1>4, <2>4, Zenon
  <2>6. W \subseteq Threads /\ \A t \in Threads : t \in W <=> s.pending_cancels[t] = w
    BY <1>1, Zenon DEF W, SameCalls
  <2>7. /\ C \in [Threads -> Works \cup {NULL}]
        /\ \A t \in Threads : C[t] = IF s.pending_cancels[t] = w THEN NULL
                                     ELSE s.pending_cancels[t]
    <3>1. u.pending_cancels = s.pending_cancels
      BY <1>1, Zenon DEF SameCalls
    <3> QED BY <2>6, <3>1, WorkTypes, SMT
  <2> HIDE DEF C, v
  <2>8. /\ g \in WorkState /\ SameLists(g, f) /\ SameDelays(g, f) /\ g.flags = f.flags
        /\ g.qflags = f.qflags /\ g.drainq = f.drainq
        /\ g.pending_cancels = C /\ g.sem = f.sem \cup W
    BY <2>1, <2>6, <2>7, Zenon DEF WorkState, SameLists, SameDelays
  <2> HIDE DEF g
  <2>9. /\ SameLists(g, s) /\ SameDelays(g, s) /\ g.qflags = s.qflags
        /\ g.drainq = s.drainq /\ g.sem = s.sem \cup W
    BY <1>1, <2>1, <2>8, Zenon DEF SameLists, SameDelays, SameCalls
  <2>10. \A x \in Works :
            g.flags[x] = s.flags[x] \ IF x = w THEN {"RUNNING", "CANCELING"} ELSE {}
    BY <1>1, <2>1, <2>8, SMT
  <2>11. \A t \in Threads :
            /\ g.pending_cancels[t] = IF s.pending_cancels[t] = w THEN NULL
                                      ELSE s.pending_cancels[t]
            /\ t \in g.sem <=> t \in s.sem \/ s.pending_cancels[t] = w
    BY <2>6, <2>7, <2>8, <2>9, Zenon
  <2> QED BY <2>5, <2>8, <2>9, <2>10, <2>11, ZenonT(40) DEF u, v, RunEnded
<1> QED BY <1>3, <1>4, Zenon

\* The handler of an item has returned.
LEMMA GoodDone ==
    ASSUME NEW s, NEW r, NEW h, NEW c, NEW o, Good(s, r, h, c, o),
           NEW q \in Queues, NEW w \in Works, r[q] = w,
           NEW u, RunEnded(u, s, w),
           NEW r2, \A y \in Queues : r2[y] = IF y = q THEN NULL ELSE r[y],
           NEW o2, \A t \in Threads : o2[t] = o[t] \ {<<w, "RUNNING">>}
    PROVE  Good(u, r2, h \ {q}, c, o2)
<1> USE DEF RunEnded
<1>1. s \in WorkState /\ ListsOK(s, r) /\ CancelOK(s, c) /\ SleepOK(s, r)
      /\ PlaceOK(s, r, h, c) /\ OwedOK(s, o) /\ DrainOK(s, c)
  BY Zenon DEF Good
<1>2. ASSUME NEW v \in Works
      PROVE  /\ "QUEUED" \in u.flags[v] <=> "QUEUED" \in s.flags[v]
             /\ "RUNNING" \in u.flags[v] <=> "RUNNING" \in s.flags[v] /\ v # w
             /\ "CANCELING" \in u.flags[v] <=> "CANCELING" \in s.flags[v] /\ v # w
             /\ "DELAYED" \in u.flags[v] <=> "DELAYED" \in s.flags[v]
  BY SMT
<1>3. u.queue = s.queue /\ u.pending = s.pending /\ u.notifyq = s.notifyq
  BY ZenonT(40) DEF SameLists
<1>4. ListsOK(u, r2)
  <2>1. ASSUME NEW v \in Works, NEW y \in Queues
        PROVE  r2[y] = v <=> "RUNNING" \in u.flags[v] /\ u.queue[v] = y
    <3>1. r[y] = v <=> "RUNNING" \in s.flags[v] /\ s.queue[v] = y
      BY <1>1, SMT DEF ListsOK
    <3>2. "RUNNING" \in s.flags[w] /\ s.queue[w] = q
      BY <1>1, Zenon DEF ListsOK
    <3>3. v # NULL
      BY Constants, Zenon
    <3> QED BY <1>2, <1>3, <3>1, <3>2, <3>3, SMTT(40)
  <2>2. \A v \in Works : "QUEUED" \in u.flags[v] \/ "RUNNING" \in u.flags[v] =>
           u.queue[v] \in Queues
    BY <1>1, <1>2, <1>3, Zenon DEF ListsOK
  <2> QED BY <1>1, <1>2, <1>3, <2>1, <2>2, SMTT(40) DEF ListsOK
<1>5. CancelOK(u, c)
  <2>1. \A v \in Works : /\ "CANCELING" \in u.flags[v] => "RUNNING" \in u.flags[v]
                         /\ "DELAYED" \in u.flags[v] => v \in Delayable
    BY <1>1, <1>2, Zenon DEF CancelOK
  <2>2. ASSUME NEW t \in Threads
        PROVE  /\ u.pending_cancels[t] # NULL =>
                     /\ c[t] = "cancel" /\ t \notin u.sem
                     /\ "CANCELING" \in u.flags[u.pending_cancels[t]]
               /\ c[t] = "cancel" => t \in u.sem \/ u.pending_cancels[t] # NULL
    <3>1. s.pending_cancels[t] \in Works \cup {NULL}
      BY <1>1, WorkTypes, SMTT(40)
    <3>2. CASE s.pending_cancels[t] = w
      BY <1>1, <3>2, Zenon DEF CancelOK
    <3>3. CASE s.pending_cancels[t] # w
      BY <1>1, <1>2, <3>1, <3>3, SMTT(40) DEF CancelOK
    <3> QED BY <3>2, <3>3, ZenonT(40)
  <2> QED BY <2>1, <2>2, Zenon DEF CancelOK
<1>6. SleepOK(u, r2)
  <2>1. s.notifyq \in SUBSET Queues
    BY <1>1, WorkTypes, Zenon
  <2> QED BY <1>1, <1>3, <2>1, SMT DEF SleepOK
<1>7. PlaceOK(u, r2, h \ {q}, c)
  <2>1. \A t \in Threads, y \in Queues : Taken(r2, h \ {q}, t, y) <=> Taken(r, h, t, y)
    BY Constants, SMTT(40) DEF Taken
  <2>2. \A y \in Queues : y \in h \ {q} => r2[y] \in Threads
    BY <1>1, SMT DEF PlaceOK
  <2>3. \A t \in Threads, y \in Queues : Listed(u, t, y) <=> Listed(s, t, y)
    BY <1>3, Zenon DEF Listed
  <2>4. \A t \in Threads : Flushing(u, c, t) <=> Flushing(s, c, t)
    BY <1>1, Constants, SMT DEF Flushing, CancelOK
  <2> QED BY <1>1, <2>1, <2>2, <2>3, <2>4, ZenonT(40) DEF PlaceOK
<1>8. OwedOK(u, o2)
  <2>1. \A t \in Threads, v \in Works :
           /\ <<v, "QUEUED">> \in o2[t] => <<v, "QUEUED">> \in o[t]
           /\ <<v, "RUNNING">> \in o2[t] => <<v, "RUNNING">> \in o[t] /\ v # w
    BY SMTT(40)
  <2> QED BY <1>1, <1>2, <1>3, <2>1, ZenonT(40) DEF OwedOK
<1>20. DrainOK(u, c)
  BY <1>1, DrainFrame, SMT
<1> QED BY <1>4, <1>5, <1>6, <1>7, <1>8, <1>20, Zenon DEF Good

\* A step that changes only the flags of a queue.
LEMMA GoodQueueFlags ==
    ASSUME NEW s, NEW r, NEW h, NEW c, NEW o, Good(s, r, h, c, o),
           NEW q \in Queues, NEW F \in SUBSET QueueFlags,
           s.drainq[q] # {} => "DRAIN" \in F /\ "STARTED" \in F,
           q \in s.notifyq => "DRAIN" \notin F
    PROVE  Good([s EXCEPT !.qflags[q] = F], r, h, c, o)
<1> DEFINE Q == [s.qflags EXCEPT ![q] = F]
           u == [s EXCEPT !.qflags = Q]
<1>1. s \in WorkState /\ CancelOK(s, c) /\ SleepOK(s, r) /\ DrainOK(s, c)
  BY Zenon DEF Good
<1>2. Q \in [Queues -> SUBSET QueueFlags] /\ \A y \in Queues : Q[y] = IF y = q THEN F ELSE s.qflags[y]
  BY <1>1, WorkTypes, Zenon
<1>3. [s EXCEPT !.qflags[q] = F] = u
  BY SMT
<1> HIDE DEF Q
<1>4. /\ u \in WorkState /\ SameLists(u, s) /\ u.flags = s.flags /\ u.qflags = Q
      /\ u.drainq = s.drainq /\ u.pending_cancels = s.pending_cancels /\ u.sem = s.sem
  BY <1>1, <1>2, Zenon DEF WorkState, SameLists
<1> HIDE DEF u
<1>5. SleepOK(u, r)
  <2>1. s.notifyq \in SUBSET Queues
    BY <1>1, WorkTypes, Zenon
  <2> QED BY <1>1, <1>2, <1>4, <2>1, SMT DEF SleepOK, SameLists
<1>6. DrainOK(u, c)
  BY <1>1, <1>4, DrainFrame, SMT
<1>7. \A w \in Works : /\ "CANCELING" \in s.flags[w] => "RUNNING" \in s.flags[w]
                       /\ "DELAYED" \in s.flags[w] => w \in Delayable
  BY <1>1, Zenon DEF CancelOK
<1>8. \A t \in Threads : o[t] \subseteq o[t]
  OBVIOUS
<1>9. Good(u, r, h, c, o)
  BY <1>4, <1>5, <1>6, <1>7, <1>8, GoodFrame, ZenonT(40) DEF SameLists
<1> QED BY <1>3, <1>9, Zenon

\* u is s with t waiting for queue q to drain
DrainBegins(u, s, q, t) ==
    /\ u \in WorkState /\ u.flags = s.flags /\ u.queue = s.queue
    /\ u.pending = s.pending /\ u.pending_cancels = s.pending_cancels
    /\ u.sem = s.sem /\ u.notifyq = s.notifyq \ {q}
    /\ s.qflags[q] \cup {"DRAIN"} \subseteq u.qflags[q]
    /\ \A y \in Queues :
          /\ y # q => u.qflags[y] = s.qflags[y]
          /\ u.drainq[y] = IF y = q THEN s.drainq[y] \cup {t} ELSE s.drainq[y]

\* A thread that waits in no call starts to drain a queue that it tells.
LEMMA GoodDrain ==
    ASSUME NEW s, NEW r, NEW h, NEW c, NEW o, Good(s, r, h, c, o),
           NEW q \in Queues, NEW t \in Threads, c[t] = "none",
           "STARTED" \in s.qflags[q], NEW u, DrainBegins(u, s, q, t),
           NEW c2, \A y \in Threads : c2[y] = IF y = t THEN "drain" ELSE c[y]
    PROVE  Good(u, r, h, c2, o)
<1> USE DEF DrainBegins
<1>1. s \in WorkState /\ CancelOK(s, c) /\ SleepOK(s, r) /\ DrainOK(s, c)
  BY Zenon DEF Good
<1>2. SleepOK(u, r)
  <2>1. s.notifyq \in SUBSET Queues
    BY <1>1, WorkTypes, Zenon
  <2> QED BY <1>1, <2>1, Zenon DEF SleepOK
<1>3. DrainOK(u, c2)
  <2>1. \A y \in Queues : s.drainq[y] \subseteq Threads
    BY <1>1, WorkTypes, ZenonT(40)
  <2>2. \A y \in Queues : t \notin s.drainq[y]
    BY <1>1, SMT DEF DrainOK
  <2> SUFFICES ASSUME NEW y \in Queues, NEW z \in u.drainq[y]
               PROVE  c2[z] = "drain" /\ \A x \in Queues : z \in u.drainq[x] => x = y
    BY Zenon DEF DrainOK
  <2>3. CASE z = t
    <3>1. \A x \in Queues : z \in u.drainq[x] => x = q
      BY <2>2, <2>3, Zenon
    <3> QED BY <2>3, <3>1, SMT
  <2>4. CASE z # t
    <3>1. \A x \in Queues : z \in u.drainq[x] <=> z \in s.drainq[x]
      BY <2>4, ZenonT(40)
    <3>2. c[z] = "drain" /\ z \in Threads /\ \A x \in Queues : z \in s.drainq[x] => x = y
      BY <1>1, <2>1, <3>1, Zenon DEF DrainOK
    <3> QED BY <2>4, <3>1, <3>2, SMT
  <2> QED BY <2>3, <2>4, Zenon
<1>4. \A w \in Works : /\ "CANCELING" \in s.flags[w] => "RUNNING" \in s.flags[w]
                       /\ "DELAYED" \in s.flags[w] => w \in Delayable
  BY <1>1, Zenon DEF CancelOK
<1>5. \A y \in Threads : /\ c2[y] = "flush" <=> c[y] = "flush"
                         /\ c2[y] = "cancel" <=> c[y] = "cancel"
                         /\ o[y] \subseteq o[y]
  BY Zenon
<1> QED BY <1>2, <1>3, <1>4, <1>5, GoodFrame, SMT

\* u is s with queue q drained and asleep
Slept(u, s, q) ==
    /\ u \in WorkState /\ u.flags = s.flags /\ u.queue = s.queue
    /\ u.pending = s.pending /\ u.pending_cancels = s.pending_cancels
    /\ u.sem = s.sem /\ u.notifyq = s.notifyq \cup {q}
    /\ \A y \in Queues :
          /\ u.qflags[y] = s.qflags[y] \ IF y = q THEN {"DRAIN"} ELSE {}
          /\ u.drainq[y] = IF y = q THEN {} ELSE s.drainq[y]

\* A queue with nothing to do releases the threads that drain it, and sleeps.
LEMMA GoodSleep ==
    ASSUME NEW s, NEW r, NEW h, NEW c, NEW o, Good(s, r, h, c, o),
           NEW q \in Queues, s.pending[q] = <<>>, r[q] = NULL,
           NEW u, Slept(u, s, q),
           NEW c2, \A t \in Threads : c2[t] = IF t \in s.drainq[q] THEN "none" ELSE c[t]
    PROVE  Good(u, r, h, c2, o)
<1> USE DEF Slept
<1>1. s \in WorkState /\ CancelOK(s, c) /\ SleepOK(s, r) /\ DrainOK(s, c)
  BY Zenon DEF Good
<1>2. SleepOK(u, r)
  <2>1. s.notifyq \in SUBSET Queues
    BY <1>1, WorkTypes, Zenon
  <2> QED BY <1>1, <2>1, SMT DEF SleepOK
<1>3. \A y \in Queues : s.drainq[y] \subseteq Threads
  BY <1>1, WorkTypes, ZenonT(40)
<1>4. DrainOK(u, c2)
  <2> SUFFICES ASSUME NEW y \in Queues, NEW t \in u.drainq[y]
               PROVE  c2[t] = "drain" /\ \A x \in Queues : t \in u.drainq[x] => x = y
    BY Zenon DEF DrainOK
  <2>1. y # q /\ t \in s.drainq[y] /\ t \in Threads
    BY <1>3, SMT
  <2>2. t \notin s.drainq[q] /\ c[t] = "drain"
    BY <1>1, <2>1, Zenon DEF DrainOK
  <2>3. \A x \in Queues : t \in u.drainq[x] => t \in s.drainq[x]
    BY SMT
  <2> QED BY <1>1, <2>1, <2>2, <2>3, SMT DEF DrainOK
<1>5. \A w \in Works : /\ "CANCELING" \in s.flags[w] => "RUNNING" \in s.flags[w]
                       /\ "DELAYED" \in s.flags[w] => w \in Delayable
  BY <1>1, Zenon DEF CancelOK
<1>6. \A y \in Threads : /\ c2[y] = "flush" <=> c[y] = "flush"
                         /\ c2[y] = "cancel" <=> c[y] = "cancel"
                         /\ o[y] \subseteq o[y]
  BY <1>1, SMT DEF DrainOK
<1> QED BY <1>2, <1>4, <1>5, <1>6, GoodFrame, SMT

-----------------------------------------------------------------------------
(* Every step keeps the invariant.                                         *)

\* A call that changes nothing but the state of work.c, under the lock, keeps
\* the invariant when it keeps Good.
LEMMA LockedStep ==
    ASSUME WorkInv, NEW new, Locked(new), Good(new, running, handled, call, owed)
    PROVE  WorkInv'
<1>1. /\ k' = new
      /\ UNCHANGED <<app, expired, running, handled, call, owed>>
  BY Zenon DEF Locked
<1>2. Good(k, running, handled, call, owed)'
  BY <1>1, Zenon
<1>3. k' \in WorkState
  BY <1>2, Zenon DEF Good
<1>4. CoreTypeOK'
  BY <1>1, <1>3, Zenon DEF WorkInv, CoreTypeOK
<1> QED BY <1>2, <1>4, Zenon DEF WorkInv

\* What the invariant says of each variable.
LEMMA InvFacts ==
    ASSUME WorkInv
    PROVE  /\ CoreTypeOK /\ Good(k, running, handled, call, owed)
           /\ k \in WorkState /\ SleepOK(k, running) /\ CancelOK(k, call)
           /\ running \in [Queues -> Items \cup {NULL}] /\ handled \subseteq Queues
           /\ call \in [Threads -> {"none", "flush", "cancel", "drain"}]
           /\ owed \in [Threads -> SUBSET (Works \X {"QUEUED", "RUNNING"})]
BY Zenon DEF WorkInv, CoreTypeOK, Good

\* k_work_queue_start(), k_work_queue_unplug(), and what submits an item
LEMMA PlainStep ==
    ASSUME WorkInv,
           \/ \E q \in Queues : k_work_queue_start(q) \/ k_work_queue_unplug(q)
           \/ \E ctx \in Queues \cup {NULL}, w \in Works, q \in Queues \cup {NULL} :
                 k_work_submit_to_queue(ctx, w, q)
           \/ \E ctx, q \in Queues \cup {NULL}, d \in Delayable, delay \in Delays :
                 \/ k_work_schedule_for_queue(ctx, d, q, delay)
                 \/ k_work_reschedule_for_queue(ctx, d, q, delay)
    PROVE  WorkInv'
<1>1. /\ Good(k, running, handled, call, owed) /\ k \in WorkState /\ SleepOK(k, running)
  BY InvFacts, Zenon
<1>2. ASSUME NEW q \in Queues, k_work_queue_start(q) PROVE WorkInv'
  <2>1. /\ "STARTED" \notin k.qflags[q]
        /\ Locked([k EXCEPT !.qflags[q] = {"STARTED"}])
    BY <1>2, Zenon DEF k_work_queue_start
  <2>2. k.drainq[q] = {}
    BY <1>1, <2>1, Zenon DEF SleepOK
  <2>3. {"STARTED"} \in SUBSET QueueFlags /\ "DRAIN" \notin {"STARTED"}
    BY DEF QueueFlags
  <2>4. Good([k EXCEPT !.qflags[q] = {"STARTED"}], running, handled, call, owed)
    BY <1>1, <2>2, <2>3, GoodQueueFlags, Zenon
  <2> QED BY <2>1, <2>4, LockedStep, Zenon
<1>3. ASSUME NEW q \in Queues, k_work_queue_unplug(q) PROVE WorkInv'
  <2> DEFINE F == k.qflags[q] \ {"PLUGGED"}
  <2>1. Locked([k EXCEPT !.qflags[q] = F])
    BY <1>3, SMT DEF k_work_queue_unplug
  <2>2. k.qflags[q] \in SUBSET QueueFlags
    BY <1>1, WorkTypes, ZenonT(40)
  <2>3. /\ F \in SUBSET QueueFlags
        /\ "DRAIN" \in F <=> "DRAIN" \in k.qflags[q]
        /\ "STARTED" \in F <=> "STARTED" \in k.qflags[q]
    BY <2>2, SMT
  <2> HIDE DEF F
  <2>4. Good([k EXCEPT !.qflags[q] = F], running, handled, call, owed)
    BY <1>1, <2>3, GoodQueueFlags, Zenon DEF SleepOK
  <2> QED BY <2>1, <2>4, LockedStep, Zenon
<1>4. ASSUME NEW ctx \in Queues \cup {NULL}, NEW w \in Works, NEW q \in Queues \cup {NULL},
             k_work_submit_to_queue(ctx, w, q)
      PROVE  WorkInv'
  BY <1>1, <1>4, GoodSubmit, LockedStep, Zenon DEF k_work_submit_to_queue
<1>5. ASSUME NEW ctx \in Queues \cup {NULL}, NEW d \in Delayable, NEW q \in Queues \cup {NULL},
             NEW delay \in Delays, k_work_schedule_for_queue(ctx, d, q, delay)
      PROVE  WorkInv'
  BY <1>1, <1>5, GoodSchedule, LockedStep, Zenon DEF k_work_schedule_for_queue
<1>6. ASSUME NEW ctx \in Queues \cup {NULL}, NEW d \in Delayable, NEW q \in Queues \cup {NULL},
             NEW delay \in Delays, k_work_reschedule_for_queue(ctx, d, q, delay)
      PROVE  WorkInv'
  <2>1. Good(unschedule_locked(k, d), running, handled, call, owed)
    BY <1>1, GoodUnschedule, Zenon
  <2> QED BY <1>6, <2>1, GoodSchedule, LockedStep, Zenon DEF k_work_reschedule_for_queue
<1> QED BY <1>2, <1>3, <1>4, <1>5, <1>6, Zenon

\* k_work_cancel() before it waits
LEMMA CancelStep ==
    ASSUME WorkInv, NEW w \in Works
    PROVE  /\ Good(CancelLocked(w), running, handled, call, Dequeued(w))
           /\ Dequeued(w) \in [Threads -> SUBSET (Works \X {"QUEUED", "RUNNING"})]
<1> DEFINE u == IF w \in Delayable THEN unschedule_locked(k, w) ELSE k
<1>1. /\ Good(k, running, handled, call, owed) /\ k \in WorkState /\ CancelOK(k, call)
      /\ owed \in [Threads -> SUBSET (Works \X {"QUEUED", "RUNNING"})]
  BY InvFacts, Zenon
<1>2. Good(u, running, handled, call, owed)
  BY <1>1, GoodUnschedule, Zenon
<1>3. "DELAYED" \notin u.flags[w]
  <2>1. CASE w \in Delayable
    <3>1. u = unschedule_locked(k, w) /\ u.flags[w] = k.flags[w] \ {"DELAYED"}
      BY <1>1, <2>1, UnscheduleEffect, SMT
    <3> QED BY <3>1
  <2>2. CASE w \notin Delayable
    BY <1>1, <2>2, Zenon DEF CancelOK
  <2> QED BY <2>1, <2>2, Zenon
<1>4. CancelLocked(w) = cancel_async_locked(u, w)
  BY Zenon DEF CancelLocked
<1> HIDE DEF u
<1>5. /\ \A t \in Threads : Dequeued(w)[t] = owed[t] \ {<<w, "QUEUED">>}
      /\ Dequeued(w) \in [Threads -> SUBSET (Works \X {"QUEUED", "RUNNING"})]
  BY <1>1, Zenon DEF Dequeued
<1> QED BY <1>2, <1>3, <1>4, <1>5, GoodCancel, SMTT(40)

\* The state that a step leads to has its type.
LEMMA NewTypes ==
    ASSUME WorkInv, app' = app, expired' \in Delayable \cup {NULL}, k' \in WorkState,
           running' \in [Queues -> Items \cup {NULL}], handled' \subseteq Queues,
           call' \in [Threads -> {"none", "flush", "cancel", "drain"}],
           owed' \in [Threads -> SUBSET (Works \X {"QUEUED", "RUNNING"})],
           Good(k', running', handled', call', owed')
    PROVE  WorkInv'
BY Zenon DEF WorkInv, CoreTypeOK

\* the calls that may wait
LEMMA WaitingStep ==
    ASSUME WorkInv,
           \/ \E ctx \in Queues \cup {NULL}, w \in Works : k_work_cancel(ctx, w)
           \/ \E t \in Threads :
                 \/ \E w \in Works : k_work_cancel_sync(t, w) \/ k_work_flush(t, w)
                 \/ \E q \in Queues, plug \in BOOLEAN : k_work_queue_drain(t, q, plug)
                 \/ SyncReturn(t)
    PROVE  WorkInv'
<1>1. /\ Good(k, running, handled, call, owed) /\ k \in WorkState
      /\ running \in [Queues -> Items \cup {NULL}] /\ handled \subseteq Queues
      /\ call \in [Threads -> {"none", "flush", "cancel", "drain"}]
      /\ owed \in [Threads -> SUBSET (Works \X {"QUEUED", "RUNNING"})]
      /\ expired \in Delayable \cup {NULL}
  BY InvFacts, Zenon DEF CoreTypeOK
<1>2. ASSUME NEW ctx, NEW w \in Works, k_work_cancel(ctx, w) PROVE WorkInv'
  <2>1. /\ k' = CancelLocked(w) /\ owed' = Dequeued(w)
        /\ UNCHANGED <<app, expired, running, handled, call>>
    BY <1>2, Zenon DEF k_work_cancel
  <2>2. /\ Good(k', running', handled', call', owed')
        /\ owed' \in [Threads -> SUBSET (Works \X {"QUEUED", "RUNNING"})]
    BY <2>1, CancelStep, Zenon
  <2> QED BY <1>1, <2>1, <2>2, NewTypes, Zenon DEF Good
<1>3. ASSUME NEW t \in Threads, NEW w \in Works, k_work_cancel_sync(t, w) PROVE WorkInv'
  <2> DEFINE u == CancelLocked(w)
             need_wait == "CANCELING" \in u.flags[w]
  <2>1. /\ call[t] = "none" /\ owed' = Dequeued(w)
        /\ k' = IF need_wait THEN init_work_cancel(u, w, t) ELSE u
        /\ call' = IF need_wait THEN [call EXCEPT ![t] = "cancel"] ELSE call
        /\ UNCHANGED <<app, expired, running, handled>>
    BY <1>3, Zenon DEF k_work_cancel_sync, Idle
  <2>2. /\ Good(u, running, handled, call, owed')
        /\ owed' \in [Threads -> SUBSET (Works \X {"QUEUED", "RUNNING"})]
    BY <2>1, CancelStep, Zenon
  <2> HIDE DEF u
  <2>3. CASE need_wait
    <3>1. k' = init_work_cancel(u, w, t) /\ call' = [call EXCEPT ![t] = "cancel"]
      BY <2>1, <2>3, Zenon
    <3>2. /\ call' \in [Threads -> {"none", "flush", "cancel", "drain"}]
          /\ \A y \in Threads : call'[y] = IF y = t THEN "cancel" ELSE call[y]
      BY <1>1, <3>1, Zenon
    <3>3. "CANCELING" \in u.flags[w] /\ call[t] = "none"
      BY <2>1, <2>3, Zenon
    <3>4. Good(init_work_cancel(u, w, t), running, handled, call', owed')
      BY <2>2, <3>2, <3>3, GoodWait, Zenon
    <3>5. Good(k', running', handled', call', owed')
      BY <2>1, <3>1, <3>4, Zenon
    <3> QED BY <1>1, <2>1, <2>2, <3>2, <3>5, NewTypes, Zenon DEF Good
  <2>4. CASE ~need_wait
    <3>1. k' = u /\ call' = call
      BY <2>1, <2>4, Zenon
    <3>2. Good(k', running', handled', call', owed')
      BY <2>1, <2>2, <3>1, Zenon
    <3> QED BY <1>1, <2>1, <2>2, <3>1, <3>2, NewTypes, Zenon DEF Good
  <2> QED BY <2>3, <2>4, Zenon
<1>4. ASSUME NEW t \in Threads, NEW w \in Works, k_work_flush(t, w) PROVE WorkInv'
  <2> DEFINE u == FlushSubmitted(w)
             O == {w} \X (u.flags[w] \cap {"QUEUED", "RUNNING"})
  <2>1. /\ call[t] = "none" /\ UNCHANGED <<app, expired, running, handled>>
        /\ \/ /\ NeedsFlush(u, w) /\ k' = work_flush_locked(u, w, t)
              /\ call' = [call EXCEPT ![t] = "flush"] /\ owed' = [owed EXCEPT ![t] = O]
           \/ k' = u /\ UNCHANGED <<call, owed>>
    BY <1>4, Zenon DEF k_work_flush, Idle
  <2>2. Good(u, running, handled, call, owed)
    <3>1. CASE w \notin Delayable
      BY <1>1, <3>1, Zenon DEF FlushSubmitted
    <3>2. CASE w \in Delayable
      <4>1. Good(unschedule_locked(k, w), running, handled, call, owed)
        BY <1>1, <3>2, GoodUnschedule, Zenon
      <4>2. k.dqueue[w] \in Queues \cup {NULL}
        BY <1>1, <3>2, WorkTypes, Zenon
      <4>3. \/ u = unschedule_locked(k, w)
            \/ u = submit_to_queue_locked(unschedule_locked(k, w), NULL, w, k.dqueue[w])
        BY <3>2, Zenon DEF FlushSubmitted
      <4> HIDE DEF u
      <4> QED BY <4>1, <4>2, <4>3, GoodSubmit, Zenon
    <3> QED BY <3>1, <3>2, Zenon
  <2> HIDE DEF u
  <2>3. CASE k' = u /\ UNCHANGED <<call, owed>>
    <3>1. Good(k', running', handled', call', owed')
      BY <2>1, <2>2, <2>3, Zenon
    <3> QED BY <1>1, <2>1, <2>3, <3>1, NewTypes, Zenon DEF Good
  <2>4. CASE /\ NeedsFlush(u, w) /\ k' = work_flush_locked(u, w, t)
             /\ call' = [call EXCEPT ![t] = "flush"] /\ owed' = [owed EXCEPT ![t] = O]
    <3>1. /\ call' \in [Threads -> {"none", "flush", "cancel", "drain"}]
          /\ \A y \in Threads : call'[y] = IF y = t THEN "flush" ELSE call[y]
      BY <1>1, <2>4, Zenon
    <3>2. O \subseteq Works \X {"QUEUED", "RUNNING"}
      BY Zenon
    <3>3. /\ owed' \in [Threads -> SUBSET (Works \X {"QUEUED", "RUNNING"})]
          /\ owed'[t] = O /\ \A y \in Threads : y # t => owed'[y] = owed[y]
      BY <1>1, <2>4, <3>2
    <3>4. Good(k', running', handled', call', owed')
      BY <2>1, <2>2, <2>4, <3>1, <3>3, GoodFlush, Zenon
    <3> QED BY <1>1, <2>1, <3>1, <3>3, <3>4, NewTypes, Zenon DEF Good
  <2> QED BY <2>1, <2>3, <2>4, Zenon
<1>5. ASSUME NEW t \in Threads, NEW q \in Queues, NEW plug \in BOOLEAN,
             k_work_queue_drain(t, q, plug)
      PROVE  WorkInv'
  <2> DEFINE F == k.qflags[q] \cup {"DRAIN"} \cup (IF plug THEN {"PLUGGED"} ELSE {})
             Q == [k.qflags EXCEPT ![q] = F]
             D == [k.drainq EXCEPT ![q] = @ \cup {t}]
  <2>1. /\ call[t] = "none" /\ "STARTED" \in k.qflags[q]
        /\ call' = [call EXCEPT ![t] = "drain"]
        /\ UNCHANGED <<app, expired, running, handled, owed>>
    BY <1>5, Zenon DEF k_work_queue_drain, Idle
  <2>2. k' = [k EXCEPT !.qflags = Q, !.drainq = D, !.notifyq = @ \ {q}]
    BY <1>5, Zenon DEF k_work_queue_drain, notify_queue_locked
  <2>3. F \subseteq QueueFlags
    BY <1>1, WorkTypes DEF QueueFlags
  <2>4. /\ Q \in [Queues -> SUBSET QueueFlags] /\ D \in [Queues -> SUBSET Threads]
        /\ k.qflags[q] \cup {"DRAIN"} \subseteq Q[q]
        /\ \A y \in Queues : /\ y # q => Q[y] = k.qflags[y]
                             /\ D[y] = IF y = q THEN k.drainq[y] \cup {t} ELSE k.drainq[y]
    <3>1. Q \in [Queues -> SUBSET QueueFlags] /\ Q[q] = F
          /\ \A y \in Queues : y # q => Q[y] = k.qflags[y]
      BY <1>1, <2>3, WorkTypes, Zenon
    <3>2. D \in [Queues -> SUBSET Threads]
          /\ \A y \in Queues : D[y] = IF y = q THEN k.drainq[y] \cup {t} ELSE k.drainq[y]
      BY <1>1, WorkTypes, ZenonT(40)
    <3> QED BY <3>1, <3>2, Zenon
  <2> HIDE DEF Q, D
  <2>5. /\ k' \in WorkState /\ k'.flags = k.flags /\ k'.queue = k.queue
        /\ k'.pending = k.pending /\ k'.pending_cancels = k.pending_cancels
        /\ k'.sem = k.sem /\ k'.notifyq = k.notifyq \ {q} /\ k'.qflags = Q /\ k'.drainq = D
    BY <1>1, <2>2, <2>4, Zenon DEF WorkState
  <2>6. /\ call' \in [Threads -> {"none", "flush", "cancel", "drain"}]
        /\ \A y \in Threads : call'[y] = IF y = t THEN "drain" ELSE call[y]
    BY <1>1, <2>1, Zenon
  <2>9. DrainBegins(k', k, q, t)
    BY <2>4, <2>5, SMTT(40) DEF DrainBegins
  <2>7. Good(k', running, handled, call', owed)
    <3>1. /\ call[t] = "none" /\ "STARTED" \in k.qflags[q]
          /\ \A y \in Threads : call'[y] = IF y = t THEN "drain" ELSE call[y]
          /\ Good(k, running, handled, call, owed)
      BY <1>1, <2>1, <2>6, Zenon
    <3> QED BY <2>9, <3>1, GoodDrain, SMT
  <2>8. Good(k', running', handled', call', owed')
    BY <2>1, <2>7, Zenon
  <2> QED BY <1>1, <2>1, <2>5, <2>6, <2>8, NewTypes, Zenon
<1>6. ASSUME NEW t \in Threads, SyncReturn(t) PROVE WorkInv'
  <2>1. /\ call[t] \in {"flush", "cancel"} /\ t \in k.sem
        /\ k' = [k EXCEPT !.sem = @ \ {t}] /\ call' = [call EXCEPT ![t] = "none"]
        /\ UNCHANGED <<app, expired, running, handled, owed>>
    BY <1>6, Zenon DEF SyncReturn
  <2>2. call[t] # "drain"
    BY <2>1
  <2>3. /\ call' \in [Threads -> {"none", "flush", "cancel", "drain"}]
        /\ \A y \in Threads : call'[y] = IF y = t THEN "none" ELSE call[y]
    BY <1>1, <2>1, Zenon
  <2>4. Good(k', running', handled', call', owed')
    BY <1>1, <2>1, <2>2, <2>3, GoodReturn, Zenon
  <2> QED BY <1>1, <2>1, <2>3, <2>4, NewTypes, Zenon DEF Good
<1> QED BY <1>2, <1>3, <1>4, <1>5, <1>6, Zenon

\* the steps of a queue's thread
LEMMA TakeStep ==
    ASSUME WorkInv, NEW q \in Queues, TakeWork(q)
    PROVE  WorkInv'
<1> DEFINE item == Head(k.pending[q])
           u == [k EXCEPT !.pending[q] = Tail(@), !.qflags[q] = @ \cup {"BUSY"}]
<1>1. /\ Good(k, running, handled, call, owed) /\ k \in WorkState
      /\ running \in [Queues -> Items \cup {NULL}] /\ handled \subseteq Queues
      /\ call \in [Threads -> {"none", "flush", "cancel", "drain"}]
      /\ owed \in [Threads -> SUBSET (Works \X {"QUEUED", "RUNNING"})]
      /\ expired \in Delayable \cup {NULL}
  BY InvFacts, Zenon DEF CoreTypeOK
<1>2. /\ q \notin k.notifyq /\ running[q] = NULL /\ k.pending[q] # <<>>
      /\ running' = [running EXCEPT ![q] = item]
      /\ UNCHANGED <<app, expired, handled, call>>
  BY Zenon DEF TakeWork, Loops
<1>3. k' = IF item \in Works
           THEN flag_set(flag_clear(u, item, "QUEUED"), item, "RUNNING") ELSE u
  BY Zenon DEF TakeWork
<1>4. owed' = [t \in Threads |->
                 {IF x = <<item, "QUEUED">> THEN <<item, "RUNNING">> ELSE x : x \in owed[t]}]
  BY Zenon DEF TakeWork
<1>5. /\ u \in WorkState /\ u.sem = k.sem /\ u.flags = k.flags
      /\ u.queue = k.queue /\ u.notifyq = k.notifyq /\ u.drainq = k.drainq
      /\ u.pending_cancels = k.pending_cancels
      /\ \A y \in Queues :
            /\ u.pending[y] = IF y = q THEN Tail(k.pending[y]) ELSE k.pending[y]
            /\ u.qflags[y] = k.qflags[y] \cup IF y = q THEN {"BUSY"} ELSE {}
  BY <1>1, <1>2, TakeEffect, ZenonT(40)
<1>6. item \in Items
  <2>1. k.pending[q] \in Seq(Items)
    BY <1>1, WorkTypes, Zenon
  <2> QED BY <1>2, <2>1
<1> HIDE DEF u, item
<1>7. Took(k', k, q, item)
  <2>1. CASE item \in Works
    <3> DEFINE v == flag_set(flag_clear(u, item, "QUEUED"), item, "RUNNING")
    <3>1. /\ v \in WorkState /\ SameCalls(v, u) /\ SameLists(v, u)
          /\ SameDelays(v, u) /\ v.sem = u.sem
          /\ \A x \in Works :
                v.flags[x] = IF x = item THEN (u.flags[x] \ {"QUEUED"}) \cup {"RUNNING"}
                                         ELSE u.flags[x]
      BY <1>5, <2>1, RunEffect, ZenonT(40)
    <3>2. k' = v
      BY <1>3, <2>1, Zenon
    <3> HIDE DEF v
    <3>3. Took(v, k, q, item)
      BY <1>5, <3>1, SMTT(40) DEF Took, SameCalls, SameLists
    <3> QED BY <3>2, <3>3, Zenon
  <2>2. CASE item \notin Works
    <3>1. k' = u
      BY <1>3, <2>2, Zenon
    <3>2. \A v \in Works : v # item
      BY <2>2, Zenon
    <3>3. Took(u, k, q, item)
      BY <1>5, <3>2, Zenon DEF Took
    <3> QED BY <3>1, <3>3, Zenon
  <2> QED BY <2>1, <2>2, Zenon
<1>8. /\ running' \in [Queues -> Items \cup {NULL}]
      /\ \A y \in Queues : running'[y] = IF y = q THEN item ELSE running[y]
  BY <1>1, <1>2, <1>6, Zenon
<1>9. /\ \A t \in Threads :
            owed'[t] = {IF x = <<item, "QUEUED">> THEN <<item, "RUNNING">> ELSE x : x \in owed[t]}
      /\ owed' \in [Threads -> SUBSET (Works \X {"QUEUED", "RUNNING"})]
  <2>1. ASSUME NEW t \in Threads, NEW x \in owed[t]
        PROVE  (IF x = <<item, "QUEUED">> THEN <<item, "RUNNING">> ELSE x)
                  \in Works \X {"QUEUED", "RUNNING"}
    BY <1>1, SMT
  <2> QED BY <1>4, <2>1, SMT
<1>10. item = Head(k.pending[q])
  BY ZenonT(40) DEF item
<1>11. Good(k', running', handled, call, owed')
  <2>1. /\ Good(k, running, handled, call, owed)
        /\ k.pending[q] # <<>> /\ q \notin k.notifyq /\ running[q] = NULL
        /\ item = Head(k.pending[q]) /\ Took(k', k, q, item)
    BY <1>1, <1>2, <1>7, <1>10, Zenon
  <2>2. \A y \in Queues : running'[y] = IF y = q THEN item ELSE running[y]
    BY <1>8, Zenon
  <2>3. \A t \in Threads :
           owed'[t] = {IF x = <<item, "QUEUED">> THEN <<item, "RUNNING">> ELSE x : x \in owed[t]}
    BY <1>9, Zenon
  <2> QED BY <2>1, <2>2, <2>3, GoodTake, SMT
<1>12. Good(k', running', handled', call', owed')
  BY <1>2, <1>11, Zenon
<1> QED BY <1>1, <1>2, <1>8, <1>9, <1>12, NewTypes, Zenon DEF Good

\* The queue's thread ends a drain and goes to sleep.
LEMMA SleepStep ==
    ASSUME WorkInv, NEW q \in Queues, SleepOnNotifyq(q)
    PROVE  WorkInv'
<1> DEFINE drained == IF "DRAIN" \in k.qflags[q] THEN k.drainq[q] ELSE {}
           Q == [k.qflags EXCEPT ![q] = @ \ {"DRAIN"}]
           D == [k.drainq EXCEPT ![q] = @ \ drained]
<1>1. /\ Good(k, running, handled, call, owed) /\ k \in WorkState /\ SleepOK(k, running)
      /\ running \in [Queues -> Items \cup {NULL}] /\ handled \subseteq Queues
      /\ call \in [Threads -> {"none", "flush", "cancel", "drain"}]
      /\ owed \in [Threads -> SUBSET (Works \X {"QUEUED", "RUNNING"})]
      /\ expired \in Delayable \cup {NULL}
  BY InvFacts, Zenon DEF CoreTypeOK
<1>2. /\ running[q] = NULL /\ k.pending[q] = <<>>
      /\ call' = [t \in Threads |-> IF t \in drained THEN "none" ELSE call[t]]
      /\ UNCHANGED <<app, expired, running, handled, owed>>
  BY Zenon DEF SleepOnNotifyq, Loops
<1>3. k' = [k EXCEPT !.qflags = Q, !.drainq = D, !.notifyq = @ \cup {q}]
  BY SMT DEF SleepOnNotifyq
<1>4. drained = k.drainq[q]
  BY <1>1, Zenon DEF SleepOK
<1> HIDE DEF drained
<1>5. /\ Q \in [Queues -> SUBSET QueueFlags] /\ D \in [Queues -> SUBSET Threads]
      /\ \A y \in Queues : /\ Q[y] = k.qflags[y] \ IF y = q THEN {"DRAIN"} ELSE {}
                           /\ D[y] = IF y = q THEN {} ELSE k.drainq[y]
  BY <1>1, <1>4, WorkTypes, ZenonT(40)
<1> HIDE DEF Q, D
<1>6. /\ k' \in WorkState /\ k'.flags = k.flags /\ k'.queue = k.queue
      /\ k'.pending = k.pending /\ k'.pending_cancels = k.pending_cancels
      /\ k'.sem = k.sem /\ k'.notifyq = k.notifyq \cup {q} /\ k'.qflags = Q /\ k'.drainq = D
  BY <1>1, <1>3, <1>5, Zenon DEF WorkState
<1>7. Slept(k', k, q)
  BY <1>5, <1>6, Zenon DEF Slept
<1>8. /\ call' \in [Threads -> {"none", "flush", "cancel", "drain"}]
      /\ \A t \in Threads : call'[t] = IF t \in k.drainq[q] THEN "none" ELSE call[t]
  BY <1>1, <1>2, <1>4, Zenon
<1>9. Good(k', running, handled, call', owed)
  <2>1. /\ running[q] = NULL /\ k.pending[q] = <<>>
        /\ \A t \in Threads : call'[t] = IF t \in k.drainq[q] THEN "none" ELSE call[t]
        /\ Good(k, running, handled, call, owed)
    BY <1>1, <1>2, <1>8, Zenon
  <2> QED BY <1>7, <2>1, GoodSleep, Zenon
<1>10. Good(k', running', handled', call', owed')
  BY <1>2, <1>9, Zenon
<1> QED BY <1>1, <1>2, <1>6, <1>8, <1>10, NewTypes, Zenon

\* The queue's thread runs the handler of a flusher.
LEMMA HandleStep ==
    ASSUME WorkInv, NEW q \in Queues, handle_flush(q)
    PROVE  WorkInv'
<1>1. /\ Good(k, running, handled, call, owed)
      /\ running \in [Queues -> Items \cup {NULL}] /\ handled \subseteq Queues
      /\ call \in [Threads -> {"none", "flush", "cancel", "drain"}]
      /\ owed \in [Threads -> SUBSET (Works \X {"QUEUED", "RUNNING"})]
      /\ expired \in Delayable \cup {NULL}
  BY InvFacts, Zenon DEF CoreTypeOK
<1>2. /\ running[q] \in Threads /\ q \notin handled
      /\ k' = [k EXCEPT !.sem = @ \cup {running[q]}]
      /\ handled' = handled \cup {q}
      /\ UNCHANGED <<app, expired, running, call, owed>>
  BY Zenon DEF handle_flush
<1>3. Good([k EXCEPT !.sem = @ \cup {running[q]}], running, handled \cup {q}, call, owed)
  BY <1>1, <1>2, GoodHandle, Zenon
<1>4. Good(k', running', handled', call', owed')
  BY <1>2, <1>3, Zenon
<1>5. handled' \subseteq Queues
  BY <1>1, <1>2, Zenon
<1> QED BY <1>1, <1>2, <1>4, <1>5, NewTypes, Zenon DEF Good

\* The queue's thread comes back from a handler.
LEMMA DoneStep ==
    ASSUME WorkInv, NEW q \in Queues, WorkDone(q)
    PROVE  WorkInv'
<1> DEFINE item == running[q]
           u == IF item \in Works THEN flag_clear(k, item, "RUNNING") ELSE k
           v == IF item \in Works /\ "CANCELING" \in u.flags[item]
                THEN finalize_cancel_locked(u, item) ELSE u
           h == handled \ {q}
           O == [t \in Threads |-> owed[t] \ {<<item, "RUNNING">>}]
           R == [running EXCEPT ![q] = NULL]
<1>1. /\ Good(k, running, handled, call, owed) /\ k \in WorkState /\ CancelOK(k, call)
      /\ running \in [Queues -> Items \cup {NULL}] /\ handled \subseteq Queues
      /\ call \in [Threads -> {"none", "flush", "cancel", "drain"}]
      /\ owed \in [Threads -> SUBSET (Works \X {"QUEUED", "RUNNING"})]
      /\ expired \in Delayable \cup {NULL}
  BY InvFacts, Zenon DEF CoreTypeOK
<1>2. /\ item # NULL /\ (item \in Threads => q \in handled)
      /\ k' = [v EXCEPT !.qflags[q] = @ \ {"BUSY"}]
      /\ owed' = O /\ running' = R /\ handled' = h
      /\ UNCHANGED <<app, expired, call>>
  BY Zenon DEF WorkDone
<1>3. /\ O \in [Threads -> SUBSET (Works \X {"QUEUED", "RUNNING"})]
      /\ R \in [Queues -> Items \cup {NULL}]
      /\ h \subseteq Queues
      /\ \A y \in Queues : R[y] = IF y = q THEN NULL ELSE running[y]
      /\ \A t \in Threads : O[t] = owed[t] \ {<<item, "RUNNING">>}
  BY <1>1, Zenon
<1>4. Good(v, R, h, call, O)
  <2>1. CASE item \in Works
    <3> DEFINE a == flag_clear(k, item, "RUNNING")
               b == IF "CANCELING" \in a.flags[item]
                    THEN finalize_cancel_locked(a, item) ELSE a
    <3>1. v = b
      BY <2>1, Zenon
    <3>2. RunEnded(b, k, item)
      BY <1>1, <2>1, DoneEffect, ZenonT(40)
    <3> HIDE DEF b, v, R, O
    <3>3. Good(b, R, h, call, O)
      BY <1>1, <1>3, <2>1, <3>2, GoodDone, SMTT(40)
    <3> QED BY <3>1, <3>3, Zenon
  <2>2. CASE item \notin Works
    <3>1. v = k /\ item \in Threads /\ q \in handled
      BY <1>1, <1>2, <2>2, Zenon DEF Items
    <3> HIDE DEF v, R, O
    <3>2. Good(k, R, h, call, owed)
      BY <1>1, <1>3, <3>1, GoodFlusherDone, Zenon
    <3>3. k \in WorkState /\ OwedOK(k, owed)
      BY <3>2, Zenon DEF Good
    <3>4. OwedOK(k, O)
      BY <1>3, <3>3, ZenonT(40) DEF OwedOK
    <3> QED BY <3>1, <3>2, <3>4, Zenon DEF Good
  <2> QED BY <2>1, <2>2, Zenon
<1> HIDE DEF v, R, O, h
<1>5. Good([v EXCEPT !.qflags[q] = v.qflags[q] \ {"BUSY"}], R, h, call, O)
  <2> DEFINE F == v.qflags[q] \ {"BUSY"}
  <2>1. v.qflags[q] \in SUBSET QueueFlags /\ v \in WorkState /\ SleepOK(v, R)
    BY <1>4, WorkTypes, ZenonT(40) DEF Good
  <2>2. /\ F \in SUBSET QueueFlags
        /\ "DRAIN" \in F <=> "DRAIN" \in v.qflags[q]
        /\ "STARTED" \in F <=> "STARTED" \in v.qflags[q]
    BY <2>1, SMT
  <2> HIDE DEF F
  <2>3. Good([v EXCEPT !.qflags[q] = F], R, h, call, O)
    BY <1>4, <2>1, <2>2, GoodQueueFlags, Zenon DEF SleepOK
  <2> QED BY <2>3, Zenon DEF F
<1>6. k' = [v EXCEPT !.qflags[q] = v.qflags[q] \ {"BUSY"}]
  BY <1>2, Zenon
<1>7. Good(k', running', handled', call', owed')
  BY <1>2, <1>5, <1>6, Zenon
<1> QED BY <1>1, <1>2, <1>3, <1>7, NewTypes, Zenon DEF Good

\* the timer interrupt
LEMMA TimeoutStep ==
    ASSUME WorkInv, (\E d \in Delayable : sys_clock_announce(d)) \/ work_timeout
    PROVE  WorkInv'
<1>1. /\ Good(k, running, handled, call, owed) /\ k \in WorkState /\ CancelOK(k, call)
      /\ running \in [Queues -> Items \cup {NULL}] /\ handled \subseteq Queues
      /\ call \in [Threads -> {"none", "flush", "cancel", "drain"}]
      /\ owed \in [Threads -> SUBSET (Works \X {"QUEUED", "RUNNING"})]
      /\ expired \in Delayable \cup {NULL}
  BY InvFacts, Zenon DEF CoreTypeOK
<1>2. ASSUME NEW d \in Delayable, sys_clock_announce(d) PROVE WorkInv'
  <2> DEFINE u == [k EXCEPT !.timeout = @ \ {d}]
  <2>1. k' = u /\ expired' = d /\ UNCHANGED <<app, running, handled, call, owed>>
    BY <1>2, Zenon DEF sys_clock_announce
  <2>2. u \in WorkState /\ SameCalls(u, k) /\ SameLists(u, k) /\ u.sem = k.sem /\ u.flags = k.flags
    BY <1>1, Zenon DEF WorkState, SameCalls, SameLists
  <2> HIDE DEF u
  <2>3. Good(u, running, handled, call, owed)
    BY <1>1, <2>2, GoodFlags, Zenon DEF CancelOK
  <2>4. Good(k', running', handled', call', owed')
    BY <2>1, <2>3, Zenon
  <2> QED BY <1>1, <2>1, <2>4, NewTypes, Zenon DEF Good
<1>3. ASSUME work_timeout PROVE WorkInv'
  <2> DEFINE u == flag_clear(k, expired, "DELAYED")
             v == submit_to_queue_locked(u, NULL, expired, k.dqueue[expired])
  <2>1. /\ expired # NULL /\ expired' = NULL
        /\ k' = IF "DELAYED" \in k.flags[expired] THEN v ELSE k
        /\ UNCHANGED <<app, running, handled, call, owed>>
    BY <1>3, Zenon DEF work_timeout
  <2>2. expired \in Works /\ expired \in Delayable
    BY <1>1, <2>1, Constants, ZenonT(40)
  <2>3. /\ u \in WorkState /\ SameCalls(u, k) /\ SameLists(u, k) /\ u.sem = k.sem
        /\ \A x \in Works : u.flags[x] = k.flags[x] \ IF x = expired THEN {"DELAYED"} ELSE {}
    BY <1>1, <2>2, FlagClear, SMTT(40)
  <2> HIDE DEF u
  <2>4. \A w \in Works : /\ "QUEUED" \in u.flags[w] <=> "QUEUED" \in k.flags[w]
                         /\ "RUNNING" \in u.flags[w] <=> "RUNNING" \in k.flags[w]
                         /\ "CANCELING" \in k.flags[w] => "CANCELING" \in u.flags[w]
                         /\ "CANCELING" \in u.flags[w] => "RUNNING" \in u.flags[w]
                         /\ "DELAYED" \in u.flags[w] => w \in Delayable
    BY <1>1, <2>3, SMT DEF CancelOK
  <2>5. Good(u, running, handled, call, owed)
    BY <1>1, <2>3, <2>4, GoodFlags, Zenon
  <2>6. k.dqueue[expired] \in Queues \cup {NULL}
    BY <1>1, <2>2, WorkTypes, Zenon
  <2>7. Good(v, running, handled, call, owed)
    BY <2>2, <2>5, <2>6, GoodSubmit, Zenon
  <2> HIDE DEF v
  <2>8. Good(k', running', handled', call', owed')
    BY <1>1, <2>1, <2>7, Zenon
  <2> QED BY <1>1, <2>1, <2>8, NewTypes, Zenon DEF Good
<1> QED BY <1>2, <1>3, Zenon

-----------------------------------------------------------------------------
(* The theorems.                                                           *)

\* Nothing is submitted at boot.
LEMMA WorkInit == Init => WorkInv
<1> SUFFICES ASSUME Init PROVE WorkInv
  OBVIOUS
<1>1. /\ k.flags = [w \in Works |-> {}] /\ k.queue = [w \in Works |-> NULL]
      /\ k.qflags = [q \in Queues |-> {}] /\ k.pending = [q \in Queues |-> <<>>]
      /\ k.notifyq = {} /\ k.drainq = [q \in Queues |-> {}]
      /\ k.pending_cancels = [t \in Threads |-> NULL] /\ k.sem = {}
      /\ running = [q \in Queues |-> NULL] /\ handled = {}
      /\ call = [t \in Threads |-> "none"] /\ owed = [t \in Threads |-> {}]
  BY SMT DEF Init
<1>2. <<>> \in Seq(Items) /\ \A x : ~OnQueue(<<>>, x)
  BY DEF OnQueue
<1>3. k \in WorkState
  BY <1>2, Zenon DEF Init, WorkState
<1>4. CoreTypeOK
  BY <1>1, <1>3, Zenon DEF Init, CoreTypeOK
<1>5. NoDuplicates(<<>>)
  BY DEF NoDuplicates
<1>6. ListsOK(k, running)
  BY <1>1, <1>2, <1>5, Constants, SMTT(40) DEF ListsOK
<1>7. CancelOK(k, call) /\ DrainOK(k, call)
  BY <1>1, Zenon DEF CancelOK, DrainOK
<1>8. SleepOK(k, running)
  BY <1>1, SMT DEF SleepOK
<1>9. PlaceOK(k, running, handled, call)
  <2>1. \A t \in Threads : /\ ~Flushing(k, call, t)
                           /\ \A q \in Queues : /\ ~Listed(k, t, q)
                                                /\ ~Taken(running, handled, t, q)
    BY <1>1, <1>2, Constants, SMT DEF Flushing, Listed, Taken
  <2>2. \A q \in Queues : q \notin handled
    BY <1>1, Zenon
  <2> QED BY <2>1, <2>2, Zenon DEF PlaceOK
<1>10. OwedOK(k, owed)
  BY <1>1, SMT DEF OwedOK
<1> QED BY <1>3, <1>4, <1>6, <1>7, <1>8, <1>9, <1>10, Zenon DEF WorkInv, Good

\* Every call and every step of a queue's thread or timeout keeps the invariant.
LEMMA WorkStep == WorkInv /\ [Next]_vars => WorkInv'
<1> SUFFICES ASSUME WorkInv, [Next]_vars PROVE WorkInv'
  OBVIOUS
<1>1. CASE Step
  <2>1. ASSUME NEW q \in Queues, work_queue_main(q) PROVE WorkInv'
    BY <2>1, TakeStep, SleepStep, HandleStep, DoneStep, Zenon DEF work_queue_main
  <2> QED BY <1>1, <2>1, PlainStep, WaitingStep, TimeoutStep, Zenon DEF Step
<1>2. CASE UNCHANGED vars
  <2>1. UNCHANGED <<app, k, expired, running, handled, call, owed>>
    BY <1>2, Zenon DEF vars, workVars
  <2> QED BY <2>1, Zenon DEF WorkInv, CoreTypeOK
<1> QED BY <1>1, <1>2, Zenon DEF Next

\* The inductive invariant of the work queues holds: for any number of items,
\* queues and threads, and for several CPUs, the locked sections of
\* kernel/work.c keep it.
THEOREM WorkInvariant == Spec => []WorkInv
BY WorkInit, WorkStep, PTL DEF Spec

\* Each field of the work items, of the queues and of the waiting threads has
\* its type.
THEOREM WorkTypeCorrect == Spec => []TypeOK
<1> DEFINE I == WorkInv /\ raced \subseteq Delayable
<1>1. Init => I
  BY WorkInit, Zenon DEF Init
<1>2. I /\ [Next]_vars => I'
  <2> SUFFICES ASSUME I, [Next]_vars PROVE I'
    OBVIOUS
  <2>1. WorkInv'
    BY WorkStep, Zenon
  <2>2. CASE Next
    <3>1. k'.timeout \subseteq Delayable
      BY <2>1, WorkTypes, Zenon DEF WorkInv, Good
    <3> QED BY <2>1, <2>2, <3>1, Zenon DEF Next, Races
  <2>3. CASE UNCHANGED vars
    BY <2>1, <2>3, Zenon DEF vars
  <2> QED BY <2>2, <2>3, Zenon
<1>3. I => TypeOK
  BY Zenon DEF WorkInv, TypeOK
<1> QED BY <1>1, <1>2, <1>3, PTL DEF Spec

\* The flags of an item tell on which list it is and which queue runs it,
\* whatever the handlers, the timeouts and the threads submit meanwhile.
THEOREM WorkFlagsExact == Spec => []FlagsExact
<1>1. WorkInv => FlagsExact
  BY Zenon DEF WorkInv, Good, ListsOK, FlagsExact
<1> QED BY <1>1, WorkInvariant, PTL

\* k_work_flush() returns only after the runs that were queued or running when
\* it was called, and its flusher is in exactly one place until then.
THEOREM WorkFlushComplete == Spec => []FlushComplete
<1>1. WorkInv => FlushComplete
  <2> SUFFICES ASSUME WorkInv, NEW t \in Threads
               PROVE  LET listed == {q \in Queues : OnQueue(k.pending[q], t)}
                          taken == {q \in Queues : running[q] = t /\ q \notin handled}
                      IN  IF call[t] = "flush" /\ t \notin k.sem
                          THEN /\ listed \cap taken = {}
                               /\ \E q \in Queues : listed \cup taken = {q}
                          ELSE listed \cup taken = {} /\ (call[t] = "flush" => owed[t] = {})
    BY Zenon DEF FlushComplete
  <2> DEFINE listed == {q \in Queues : OnQueue(k.pending[q], t)}
             taken == {q \in Queues : running[q] = t /\ q \notin handled}
  <2>1. /\ PlaceOK(k, running, handled, call) /\ OwedOK(k, owed)
        /\ ListsOK(k, running) /\ owed \in [Threads -> SUBSET (Works \X {"QUEUED", "RUNNING"})]
    BY Zenon DEF WorkInv, CoreTypeOK, Good
  <2>2. \A q \in Queues : /\ q \in listed <=> Listed(k, t, q)
                          /\ q \in taken <=> Taken(running, handled, t, q)
    BY Zenon DEF Listed, Taken
  <2>3. listed \subseteq Queues /\ taken \subseteq Queues
    BY Zenon
  <2> HIDE DEF listed, taken
  <2>4. CASE call[t] = "flush" /\ t \notin k.sem
    <3>1. Flushing(k, call, t)
      BY <2>4, Zenon DEF Flushing
    <3>2. PICK q \in Queues : Listed(k, t, q) \/ Taken(running, handled, t, q)
      BY <2>1, <3>1, Zenon DEF PlaceOK
    <3>3. listed \cup taken = {q}
      <4>1. \A x \in listed \cup taken : x = q
        BY <2>1, <2>2, <2>3, <3>2, Zenon DEF PlaceOK
      <4> QED BY <2>2, <3>2, <4>1
    <3>4. listed \cap taken = {}
      BY <2>1, <2>2, <2>3, Zenon DEF PlaceOK
    <3> QED BY <2>4, <3>3, <3>4, Zenon DEF listed, taken
  <2>5. CASE ~(call[t] = "flush" /\ t \notin k.sem)
    <3>1. ~Flushing(k, call, t)
      BY <2>5, Zenon DEF Flushing
    <3>2. \A q \in Queues : ~Listed(k, t, q) /\ ~Taken(running, handled, t, q)
      BY <2>1, <3>1, Zenon DEF PlaceOK
    <3>3. listed \cup taken = {}
      BY <2>2, <2>3, <3>2, Zenon
    <3>4. owed[t] = {}
      <4>1. ASSUME NEW w \in Works PROVE <<w, "QUEUED">> \notin owed[t]
        <5>1. SUFFICES ASSUME <<w, "QUEUED">> \in owed[t] PROVE FALSE
          OBVIOUS
        <5>2. "QUEUED" \in k.flags[w] /\ Before(k.pending[k.queue[w]], w, t)
          BY <2>1, <5>1, Zenon DEF OwedOK
        <5>3. OnQueue(k.pending[k.queue[w]], t) /\ k.queue[w] \in Queues
          BY <2>1, <5>2, Zenon DEF Before, OnQueue, ListsOK
        <5> QED BY <3>2, <5>3, Zenon DEF Listed
      <4>2. ASSUME NEW w \in Works PROVE <<w, "RUNNING">> \notin owed[t]
        BY <2>1, <3>2, Zenon DEF OwedOK, ListsOK, Listed
      <4>3. owed[t] \subseteq Works \X {"QUEUED", "RUNNING"}
        BY <2>1, Zenon
      <4> QED BY <4>1, <4>2, <4>3
    <3> QED BY <2>5, <3>3, <3>4, Zenon DEF listed, taken
  <2> QED BY <2>4, <2>5, Zenon
<1> QED BY <1>1, WorkInvariant, PTL

\* Only a running item is marked as being cancelled, and each thread in
\* k_work_cancel_sync() is released or waits for such an item.
THEOREM WorkCancelEnds == Spec => []CancelEnds
<1>1. WorkInv => CancelEnds
  <2> SUFFICES ASSUME WorkInv PROVE CancelEnds
    OBVIOUS
  <2>1. CancelOK(k, call) /\ k \in WorkState
    BY Zenon DEF WorkInv, Good
  <2>2. \A t \in Threads : k.pending_cancels[t] \in Works \cup {NULL}
    BY <2>1, WorkTypes, Zenon
  <2> QED BY <2>1, <2>2, Zenon DEF CancelOK, CancelEnds
<1> QED BY <1>1, WorkInvariant, PTL

\* No wake-up of a queue's thread is lost: it sleeps only while its list is
\* empty and no thread waits for it to drain.
THEOREM WorkSleepsOnlyIdle == Spec => []SleepsOnlyIdle
<1>1. WorkInv => SleepsOnlyIdle
  <2> SUFFICES ASSUME WorkInv PROVE SleepsOnlyIdle
    OBVIOUS
  <2>1. SleepOK(k, running) /\ k \in WorkState
    BY Zenon DEF WorkInv, Good
  <2>2. k.notifyq \in SUBSET Queues
    BY <2>1, WorkTypes, Zenon
  <2> QED BY <2>1, <2>2, Zenon DEF SleepOK, SleepsOnlyIdle
<1> QED BY <1>1, WorkInvariant, PTL

-----------------------------------------------------------------------------
(* Delays.  Between the unlinking of a timeout and work_timeout(),          *)
(* interrupts, and with SMP all others, cancel and schedule items.  R are    *)
(* the items of whose linked timeouts nothing is claimed.                    *)

\* the timeouts, and the flags about them, are as they were
SameDelayed(r, s) ==
    /\ r.timeout = s.timeout
    /\ \A d \in Delayable : "DELAYED" \in r.flags[d] <=> "DELAYED" \in s.flags[d]

\* who is marked has a timeout to come, and but for R a timeout is linked exactly
\* while its item is marked and it has not expired
DelayedOK(s, e, R) ==
    \A d \in Delayable :
        /\ "DELAYED" \in s.flags[d] => d \in s.timeout \/ d = e
        /\ d \notin R => (d \in s.timeout <=> "DELAYED" \in s.flags[d] /\ d # e)

DelayInv == WorkInv /\ DelayedOK(k, expired, raced)

\* submit_to_queue_locked() leaves timeouts and DELAYED alone.
LEMMA SubmitDelays ==
    ASSUME NEW s \in WorkState, NEW ctx, NEW w \in Works, NEW q \in Queues \cup {NULL}
    PROVE  SameDelayed(submit_to_queue_locked(s, ctx, w, q), s)
<1> DEFINE r == submit_to_queue_locked(s, ctx, w, q)
<1>1. CASE r = s
  BY <1>1, SMT DEF SameDelayed
<1>2. CASE r # s
  <2>1. PICK x \in Queues : Submitted(r, s, w, x)
    BY <1>2, SubmitEffect, Zenon
  <2> HIDE DEF r
  <2>2. /\ r.timeout = s.timeout
        /\ \A v \in Works : r.flags[v] = s.flags[v] \cup IF v = w THEN {"QUEUED"} ELSE {}
    BY <2>1, Zenon DEF Submitted, SameDelays
  <2>3. SameDelayed(r, s)
    BY <2>2, Constants, SMT DEF SameDelayed
  <2> QED BY <2>3, Zenon DEF r
<1> QED BY <1>1, <1>2, Zenon

\* cancel_async_locked() leaves timeouts and DELAYED alone.
LEMMA CancelDelays ==
    ASSUME NEW s \in WorkState, NEW r, ListsOK(s, r), NEW w \in Works
    PROVE  SameDelayed(cancel_async_locked(s, w), s)
<1> DEFINE u == IF "CANCELING" \in s.flags[w] THEN s ELSE queue_remove_locked(s, w)
<1>1. u \in WorkState /\ SameDelayed(u, s)
  <2>1. CASE "CANCELING" \in s.flags[w] \/ "QUEUED" \notin s.flags[w]
    <3>1. u = s
      BY <2>1, Zenon DEF queue_remove_locked
    <3> QED BY <3>1, Zenon DEF SameDelayed
  <2>2. CASE "CANCELING" \notin s.flags[w] /\ "QUEUED" \in s.flags[w]
    <3>1. u = queue_remove_locked(s, w)
      BY <2>2, ZenonT(40)
    <3>2. /\ u \in WorkState /\ SameDelays(u, s)
          /\ \A v \in Works : u.flags[v] = s.flags[v] \ IF v = w THEN {"QUEUED"} ELSE {}
      BY <2>2, <3>1, RemoveEffect, SMT
    <3> HIDE DEF u
    <3> QED BY <3>2, Constants, SMT DEF SameDelayed, SameDelays
  <2> QED BY <2>1, <2>2, Zenon
<1>2. cancel_async_locked(s, w) = IF u.flags[w] # {} THEN flag_set(u, w, "CANCELING") ELSE u
  BY Zenon DEF cancel_async_locked
<1> HIDE DEF u
<1> DEFINE f == flag_set(u, w, "CANCELING")
<1>3. "CANCELING" \in WorkFlags
  BY Constants, Zenon
<1>4. /\ SameDelays(f, u)
      /\ \A v \in Works : f.flags[v] = u.flags[v] \cup IF v = w THEN {"CANCELING"} ELSE {}
  BY <1>1, <1>3, FlagSet, SMTT(40)
<1> HIDE DEF f
<1>5. SameDelayed(f, u)
  BY <1>4, Constants, SMT DEF SameDelayed, SameDelays
<1>6. SameDelayed(f, s)
  BY <1>1, <1>5, Zenon DEF SameDelayed
<1> QED BY <1>1, <1>2, <1>6, Zenon DEF f

\* unschedule_locked() clears DELAYED and aborts the timeout together.
LEMMA UnscheduleDelays ==
    ASSUME NEW s \in WorkState, NEW d \in Delayable, NEW e, NEW R, DelayedOK(s, e, R)
    PROVE  DelayedOK(unschedule_locked(s, d), e, R)
<1> DEFINE r == unschedule_locked(s, d)
<1>1. /\ r.timeout = s.timeout \ IF "DELAYED" \in s.flags[d] THEN {d} ELSE {}
      /\ \A v \in Works : r.flags[v] = s.flags[v] \ IF v = d THEN {"DELAYED"} ELSE {}
  BY UnscheduleEffect, SMT
<1> HIDE DEF r
<1>2. \A v \in Delayable :
          v \in r.timeout <=> v \in s.timeout /\ (v = d => "DELAYED" \notin s.flags[d])
  BY <1>1, Zenon
<1>3. \A v \in Delayable : "DELAYED" \in r.flags[v] <=> "DELAYED" \in s.flags[v] /\ v # d
  BY <1>1, Constants, Zenon
<1>4. DelayedOK(r, e, R)
  BY <1>2, <1>3, SMT DEF DelayedOK
<1> QED BY <1>4, Zenon DEF r

\* schedule_for_queue_locked() sets DELAYED and the timeout together.
LEMMA ScheduleDelays ==
    ASSUME NEW s \in WorkState, NEW ctx, NEW d \in Delayable,
           NEW q \in Queues \cup {NULL}, NEW delay, NEW e, NEW R, e \in R,
           DelayedOK(s, e, R)
    PROVE  DelayedOK(schedule_for_queue_locked(s, ctx, d, q, delay), e, R)
<1>1. d \in Works /\ d # NULL
  BY Constants, Zenon
<1>2. CASE delay = "NO_WAIT"
  <2>1. SameDelayed(submit_to_queue_locked(s, ctx, d, q), s)
    BY <1>1, SubmitDelays, Zenon
  <2>2. DelayedOK(submit_to_queue_locked(s, ctx, d, q), e, R)
    BY <2>1, Zenon DEF DelayedOK, SameDelayed
  <2> QED BY <1>2, <2>2, Zenon DEF schedule_for_queue_locked
<1>3. CASE delay # "NO_WAIT"
  <2> DEFINE D == [s.dqueue EXCEPT ![d] = q]
             v == [s EXCEPT !.dqueue = D, !.timeout = @ \cup {d}]
             u == flag_set(v, d, "DELAYED")
  <2>1. D \in [Delayable -> Queues \cup {NULL}] /\ "DELAYED" \in WorkFlags
    BY WorkTypes, Constants, Zenon
  <2>2. schedule_for_queue_locked(s, ctx, d, q, delay) = u
    BY <1>3, SMT DEF schedule_for_queue_locked
  <2> HIDE DEF D
  <2>3. v \in WorkState /\ v.flags = s.flags /\ v.timeout = s.timeout \cup {d}
    BY <2>1, Zenon DEF WorkState
  <2> HIDE DEF v
  <2>4. /\ SameDelays(u, v)
        /\ \A x \in Works : u.flags[x] = v.flags[x] \cup IF x = d THEN {"DELAYED"} ELSE {}
    BY <1>1, <2>1, <2>3, FlagSet, SMT
  <2> HIDE DEF u
  <2>5. u.timeout = s.timeout \cup {d}
    BY <2>3, <2>4, Zenon DEF SameDelays
  <2>6. \A x \in Delayable : "DELAYED" \in u.flags[x] <=> "DELAYED" \in s.flags[x] \/ x = d
    BY <2>3, <2>4, Constants, Zenon
  <2>7. DelayedOK(u, e, R)
    BY <1>1, <2>5, <2>6, Zenon DEF DelayedOK
  <2> QED BY <2>2, <2>7, Zenon
<1> QED BY <1>2, <1>3, Zenon

\* A step that changes no delay keeps this.
LEMMA DelayFrame ==
    ASSUME NEW e, NEW R, DelayedOK(k, e, R), SameDelayed(k', k) PROVE DelayedOK(k', e, R)
BY Zenon DEF DelayedOK, SameDelayed

\* Every step keeps the delays, but for the item whose timeout is handled.
LEMMA DelayStep ==
    ASSUME WorkInv, Step, NEW R, expired \in R, DelayedOK(k, expired, R)
    PROVE  DelayedOK(k', expired', R)
<1>1. /\ k \in WorkState /\ ListsOK(k, running) /\ CancelOK(k, call)
      /\ expired \in Delayable \cup {NULL}
  BY Zenon DEF WorkInv, CoreTypeOK, Good
<1>2. \A x \in Delayable : x # NULL
  BY Constants, Zenon
<1>3. ASSUME NEW d \in Delayable, sys_clock_announce(d) PROVE DelayedOK(k', expired', R)
  <2>1. /\ expired = NULL /\ expired' = d /\ d \in k.timeout
        /\ k' = [k EXCEPT !.timeout = @ \ {d}]
    BY <1>3, Zenon DEF sys_clock_announce
  <2>2. k'.timeout = k.timeout \ {d} /\ k'.flags = k.flags
    BY <1>1, <2>1, Zenon DEF WorkState
  <2> QED BY <1>2, <2>1, <2>2, SMTT(40) DEF DelayedOK
<1>4. ASSUME work_timeout PROVE DelayedOK(k', expired', R)
  <2> DEFINE u == flag_clear(k, expired, "DELAYED")
             v == submit_to_queue_locked(u, NULL, expired, k.dqueue[expired])
  <2>1. /\ expired # NULL /\ expired' = NULL
        /\ k' = IF "DELAYED" \in k.flags[expired] THEN v ELSE k
    BY <1>4, Zenon DEF work_timeout
  <2>2. expired \in Delayable /\ expired \in Works
    BY <1>1, <2>1, Constants, Zenon
  <2>3. /\ u \in WorkState /\ SameDelays(u, k)
        /\ \A x \in Works : u.flags[x] = k.flags[x] \ IF x = expired THEN {"DELAYED"} ELSE {}
    BY <1>1, <2>2, FlagClear, SMTT(40)
  <2> HIDE DEF u
  <2>4. /\ u.timeout = k.timeout
        /\ \A x \in Delayable : "DELAYED" \in u.flags[x] <=> "DELAYED" \in k.flags[x] /\ x # expired
    BY <2>3, Constants, Zenon DEF SameDelays
  <2>5. DelayedOK(u, NULL, R)
    BY <1>2, <2>4, Zenon DEF DelayedOK
  <2>6. k.dqueue[expired] \in Queues \cup {NULL}
    BY <1>1, <2>2, WorkTypes, Zenon
  <2>7. SameDelayed(v, u)
    BY <2>2, <2>3, <2>6, SubmitDelays, Zenon
  <2> HIDE DEF v
  <2>8. DelayedOK(v, NULL, R)
    BY <2>5, <2>7, Zenon DEF DelayedOK, SameDelayed
  <2>9. ASSUME "DELAYED" \notin k.flags[expired] PROVE DelayedOK(k, NULL, R)
    BY <1>2, <2>9, SMTT(40) DEF DelayedOK
  <2> QED BY <2>1, <2>8, <2>9, Zenon
<1>5. ASSUME expired' = expired, DelayedOK(k', expired, R) PROVE DelayedOK(k', expired', R)
  BY <1>5, Zenon
<1>7. ASSUME NEW q \in Queues, k_work_queue_start(q) \/ k_work_queue_unplug(q)
      PROVE  DelayedOK(k', expired', R)
  <2>1. expired' = expired
    BY <1>7, Zenon DEF k_work_queue_start, k_work_queue_unplug, Locked
  <2>2. k'.timeout = k.timeout /\ k'.flags = k.flags
    BY <1>1, <1>7, SMT DEF k_work_queue_start, k_work_queue_unplug, Locked, WorkState
  <2>3. SameDelayed(k', k)
    BY <2>2, Zenon DEF SameDelayed
  <2> QED BY <1>5, <2>1, <2>3, DelayFrame, Zenon
<1>8. ASSUME NEW ctx \in Queues \cup {NULL}, NEW w \in Works, NEW q \in Queues \cup {NULL},
             k_work_submit_to_queue(ctx, w, q)
      PROVE  DelayedOK(k', expired', R)
  <2>1. expired' = expired /\ k' = submit_to_queue_locked(k, ctx, w, q)
    BY <1>8, Zenon DEF k_work_submit_to_queue, Locked
  <2>2. SameDelayed(k', k)
    BY <1>1, <2>1, SubmitDelays, Zenon
  <2> QED BY <1>5, <2>1, <2>2, DelayFrame, Zenon
<1>9. ASSUME NEW ctx \in Queues \cup {NULL}, NEW d \in Delayable, NEW q \in Queues \cup {NULL},
             NEW delay \in Delays,
             \/ k_work_schedule_for_queue(ctx, d, q, delay)
             \/ k_work_reschedule_for_queue(ctx, d, q, delay)
      PROVE  DelayedOK(k', expired', R)
  <2>1. /\ expired' = expired
        /\ \/ k' = schedule_for_queue_locked(k, ctx, d, q, delay)
           \/ k' = schedule_for_queue_locked(unschedule_locked(k, d), ctx, d, q, delay)
    BY <1>9, Zenon DEF k_work_schedule_for_queue, k_work_reschedule_for_queue, Locked
  <2>2. unschedule_locked(k, d) \in WorkState
    BY <1>1, UnscheduleEffect, Zenon
  <2>3. DelayedOK(unschedule_locked(k, d), expired, R)
    BY <1>1, <2>1, UnscheduleDelays, Zenon
  <2>4. DelayedOK(k', expired, R)
    BY <1>1, <2>1, <2>2, <2>3, ScheduleDelays, Zenon
  <2> QED BY <1>5, <2>1, <2>4, Zenon
<1>10. ASSUME NEW w \in Works PROVE DelayedOK(CancelLocked(w), expired, R)
  <2> DEFINE u == IF w \in Delayable THEN unschedule_locked(k, w) ELSE k
  <2>1. u \in WorkState /\ DelayedOK(u, expired, R)
    BY <1>1, <1>10, UnscheduleEffect, UnscheduleDelays, Zenon
  <2>2. ListsOK(u, running)
    <3>1. CASE w \in Delayable
      <4>1. Good(k, running, handled, call, owed)
        BY Zenon DEF WorkInv
      <4> QED BY <3>1, <4>1, GoodUnschedule, Zenon DEF Good
    <3>2. CASE w \notin Delayable
      BY <1>1, <3>2, Zenon
    <3> QED BY <3>1, <3>2, Zenon
  <2>3. CancelLocked(w) = cancel_async_locked(u, w)
    BY Zenon DEF CancelLocked
  <2> HIDE DEF u
  <2>4. SameDelayed(cancel_async_locked(u, w), u)
    BY <2>1, <2>2, CancelDelays, Zenon
  <2>5. DelayedOK(cancel_async_locked(u, w), expired, R)
    BY <2>1, <2>4, Zenon DEF DelayedOK, SameDelayed
  <2> QED BY <2>3, <2>5, Zenon
<1>11. ASSUME NEW ctx, NEW w \in Works, k_work_cancel(ctx, w) PROVE DelayedOK(k', expired', R)
  <2>1. expired' = expired /\ k' = CancelLocked(w)
    BY <1>11, Zenon DEF k_work_cancel
  <2>2. DelayedOK(k', expired, R)
    BY <1>10, <2>1, Zenon
  <2> QED BY <1>5, <2>1, <2>2, Zenon
<1>12. ASSUME NEW t \in Threads, NEW w \in Works, k_work_cancel_sync(t, w)
       PROVE  DelayedOK(k', expired', R)
  <2> DEFINE u == CancelLocked(w)
  <2>1. expired' = expired /\ (k' = init_work_cancel(u, w, t) \/ k' = u)
    BY <1>12, Zenon DEF k_work_cancel_sync
  <2>2. DelayedOK(u, expired, R)
    BY <1>10, <2>1, Zenon
  <2>3. u \in WorkState
    BY CancelStep, Zenon DEF Good
  <2> HIDE DEF u
  <2>4. init_work_cancel(u, w, t).timeout = u.timeout /\ init_work_cancel(u, w, t).flags = u.flags
    BY <2>3, SMT DEF init_work_cancel, WorkState
  <2>5. DelayedOK(init_work_cancel(u, w, t), expired, R)
    BY <2>2, <2>4, Zenon DEF DelayedOK
  <2> QED BY <1>5, <2>1, <2>2, <2>5, Zenon
<1>13. ASSUME NEW t \in Threads, NEW w \in Works, k_work_flush(t, w)
       PROVE  DelayedOK(k', expired', R)
  <2> DEFINE u == FlushSubmitted(w)
  <2>1. /\ expired' = expired
        /\ (NeedsFlush(u, w) /\ k' = work_flush_locked(u, w, t)) \/ k' = u
    BY <1>13, Zenon DEF k_work_flush
  <2>2. Good(k, running, handled, call, owed)
    BY Zenon DEF WorkInv
  <2>3. DelayedOK(u, expired, R) /\ Good(u, running, handled, call, owed)
    <3>1. CASE w \notin Delayable
      BY <2>1, <2>2, <3>1, Zenon DEF FlushSubmitted
    <3>2. CASE w \in Delayable
      <4> DEFINE n == unschedule_locked(k, w)
                 m == submit_to_queue_locked(n, NULL, w, k.dqueue[w])
      <4>1. u = n \/ u = m
        BY <3>2, Zenon DEF FlushSubmitted
      <4>2. n \in WorkState /\ Good(n, running, handled, call, owed)
        BY <2>2, <3>2, GoodUnschedule, Zenon DEF Good
      <4>3. DelayedOK(n, expired, R)
        BY <1>1, <2>1, <3>2, UnscheduleDelays, Zenon
      <4>4. k.dqueue[w] \in Queues \cup {NULL}
        BY <1>1, <3>2, WorkTypes, Zenon
      <4> HIDE DEF u, n
      <4>5. SameDelayed(m, n) /\ Good(m, running, handled, call, owed)
        BY <4>2, <4>4, SubmitDelays, GoodSubmit, Zenon
      <4> HIDE DEF m
      <4>6. DelayedOK(m, expired, R)
        BY <4>3, <4>5, Zenon DEF DelayedOK, SameDelayed
      <4> QED BY <4>1, <4>2, <4>3, <4>5, <4>6, Zenon
    <3> QED BY <3>1, <3>2, Zenon
  <2> HIDE DEF u
  <2>4. ASSUME NeedsFlush(u, w) PROVE DelayedOK(work_flush_locked(u, w, t), expired, R)
    <3> DEFINE f == work_flush_locked(u, w, t)
    <3>1. u \in WorkState /\ u.queue[w] \in Queues
      BY <2>3, <2>4, SMTT(40) DEF Good, ListsOK, NeedsFlush
    <3>2. SameDelays(f, u) /\ f.flags = u.flags
      BY <3>1, FlushEffect, SMT
    <3> HIDE DEF f
    <3>3. DelayedOK(f, expired, R)
      BY <2>3, <3>2, Zenon DEF DelayedOK, SameDelays
    <3> QED BY <3>3, ZenonT(40) DEF f
  <2> QED BY <1>5, <2>1, <2>3, <2>4, Zenon
<1>14. ASSUME NEW t \in Threads, NEW q \in Queues, NEW plug \in BOOLEAN,
              k_work_queue_drain(t, q, plug)
       PROVE  DelayedOK(k', expired', R)
  <2>1. expired' = expired
    BY <1>14, Zenon DEF k_work_queue_drain
  <2>2. k'.timeout = k.timeout /\ k'.flags = k.flags
    BY <1>1, <1>14, Zenon DEF k_work_queue_drain, notify_queue_locked, WorkState
  <2>3. SameDelayed(k', k)
    BY <2>2, Zenon DEF SameDelayed
  <2> QED BY <1>5, <2>1, <2>3, DelayFrame, Zenon
<1>18. ASSUME NEW t \in Threads, SyncReturn(t) PROVE DelayedOK(k', expired', R)
  <2>1. expired' = expired
    BY <1>18, Zenon DEF SyncReturn
  <2>2. k'.timeout = k.timeout /\ k'.flags = k.flags
    BY <1>1, <1>18, SMTT(40) DEF SyncReturn, WorkState
  <2>3. SameDelayed(k', k)
    BY <2>2, Zenon DEF SameDelayed
  <2> QED BY <1>5, <2>1, <2>3, DelayFrame, Zenon
<1>15. ASSUME NEW q \in Queues, TakeWork(q) PROVE DelayedOK(k', expired', R)
  <2> DEFINE item == Head(k.pending[q])
             u == [k EXCEPT !.pending[q] = Tail(@), !.qflags[q] = @ \cup {"BUSY"}]
             v == flag_set(flag_clear(u, item, "QUEUED"), item, "RUNNING")
  <2>1. /\ expired' = expired /\ k.pending[q] # <<>>
        /\ k' = IF item \in Works THEN v ELSE u
    BY <1>15, Zenon DEF TakeWork
  <2>2. u \in WorkState /\ SameDelays(u, k) /\ u.flags = k.flags
    BY <1>1, <2>1, TakeEffect, Zenon
  <2> HIDE DEF u
  <2>3. SameDelayed(u, k)
    BY <2>2, Zenon DEF SameDelayed, SameDelays
  <2> HIDE DEF item
  <2>4. ASSUME item \in Works PROVE SameDelayed(v, k)
    <3>1. /\ SameDelays(v, u)
          /\ \A x \in Works :
                v.flags[x] = IF x = item THEN (u.flags[x] \ {"QUEUED"}) \cup {"RUNNING"}
                                         ELSE u.flags[x]
      BY <2>2, <2>4, RunEffect, Zenon
    <3> HIDE DEF v
    <3>2. ASSUME NEW d \in Delayable
          PROVE  "DELAYED" \in v.flags[d] <=> "DELAYED" \in u.flags[d]
      <4>1. v.flags[d] = IF d = item THEN (u.flags[d] \ {"QUEUED"}) \cup {"RUNNING"}
                                     ELSE u.flags[d]
        BY <3>1, Constants, Zenon
      <4> QED BY <4>1
    <3>3. SameDelayed(v, u)
      BY <3>1, <3>2, Zenon DEF SameDelayed, SameDelays
    <3> QED BY <2>3, <3>3, Zenon DEF SameDelayed
  <2> HIDE DEF v
  <2>5. SameDelayed(k', k)
    BY <2>1, <2>3, <2>4, Zenon
  <2> QED BY <1>5, <2>1, <2>5, DelayFrame, Zenon
<1>16. ASSUME NEW q \in Queues, WorkDone(q) PROVE DelayedOK(k', expired', R)
  <2> DEFINE item == running[q]
             u == IF item \in Works THEN flag_clear(k, item, "RUNNING") ELSE k
             v == IF item \in Works /\ "CANCELING" \in u.flags[item]
                  THEN finalize_cancel_locked(u, item) ELSE u
  <2>1. expired' = expired /\ k' = [v EXCEPT !.qflags[q] = @ \ {"BUSY"}]
    BY <1>16, Zenon DEF WorkDone
  <2>2. v \in WorkState /\ SameDelayed(v, k)
    <3>1. CASE item \in Works
      <4> DEFINE a == flag_clear(k, item, "RUNNING")
                 b == IF "CANCELING" \in a.flags[item]
                      THEN finalize_cancel_locked(a, item) ELSE a
      <4>1. v = b
        BY <3>1, Zenon
      <4>2. RunEnded(b, k, item) /\ SameDelays(b, k)
        BY <1>1, <3>1, DoneEffect, Zenon
      <4> HIDE DEF b, v, item
      <4>3. b \in WorkState /\ SameDelayed(b, k)
        BY <4>2, Constants, SMT DEF SameDelayed, SameDelays, RunEnded
      <4> QED BY <4>1, <4>3, Zenon
    <3>2. CASE item \notin Works
      <4>1. v = k
        BY <3>2, Zenon
      <4> QED BY <1>1, <4>1, Zenon DEF SameDelayed
    <3> QED BY <3>1, <3>2, Zenon
  <2> HIDE DEF v
  <2>3. k'.timeout = v.timeout /\ k'.flags = v.flags
    BY <2>1, <2>2, Zenon DEF WorkState
  <2>4. SameDelayed(k', k)
    BY <2>2, <2>3, Zenon DEF SameDelayed
  <2> QED BY <1>5, <2>1, <2>4, DelayFrame, Zenon
<1>17. ASSUME NEW q \in Queues, work_queue_main(q) PROVE DelayedOK(k', expired', R)
  <2>1. CASE TakeWork(q) \/ WorkDone(q)
    BY <1>15, <1>16, <2>1, Zenon
  <2>2. CASE SleepOnNotifyq(q) \/ handle_flush(q)
    <3>1. expired' = expired
      BY <2>2, Zenon DEF SleepOnNotifyq, Loops, handle_flush
    <3>2. k'.timeout = k.timeout /\ k'.flags = k.flags
      BY <1>1, <2>2, Zenon DEF SleepOnNotifyq, handle_flush, WorkState
    <3>3. SameDelayed(k', k)
      BY <3>2, Zenon DEF SameDelayed
    <3> QED BY <1>5, <3>1, <3>3, DelayFrame, Zenon
  <2> QED BY <1>17, <2>1, <2>2, Zenon DEF work_queue_main
<1> QED BY <1>3, <1>4, <1>7, <1>8, <1>9, <1>11, <1>12, <1>13, <1>14,
            <1>17, <1>18, Zenon DEF Step

\* What is linked in the window of its own handler is remembered in raced; for
\* the others the claim is about them again.
LEMMA RacesRecorded ==
    ASSUME Races, DelayedOK(k, expired, raced), DelayedOK(k', expired', raced \cup {expired})
    PROVE  DelayedOK(k', expired', raced')
<1> SUFFICES ASSUME NEW d \in Delayable
             PROVE  /\ "DELAYED" \in k'.flags[d] => d \in k'.timeout \/ d = expired'
                    /\ d \notin raced' =>
                          (d \in k'.timeout <=> "DELAYED" \in k'.flags[d] /\ d # expired')
  BY Zenon DEF DelayedOK
<1>1. /\ d \notin raced => (d \in k.timeout <=> "DELAYED" \in k.flags[d] /\ d # expired)
      /\ "DELAYED" \in k'.flags[d] => d \in k'.timeout \/ d = expired'
      /\ d \notin raced /\ d # expired =>
            (d \in k'.timeout <=> "DELAYED" \in k'.flags[d] /\ d # expired')
  BY Zenon DEF DelayedOK
<1>2. d \in raced' <=> d \in k'.timeout /\ (d \in raced \/ (d = expired /\ d \notin k.timeout))
  BY Zenon DEF Races
<1> QED BY <1>1, <1>2, Zenon

\* With one CPU and with several, no delay is lost: an item that is marked
\* delayed has a timeout linked or being handled.  And a timeout is linked
\* exactly while its item is marked and it has not expired, unless the item was
\* scheduled again between the unlinking of its timeout and work_timeout().
THEOREM WorkDelayExact == Spec => []DelayExact
<1>1. Init => DelayInv
  <2> SUFFICES ASSUME Init PROVE DelayInv
    OBVIOUS
  <2>1. k.timeout = {} /\ k.flags = [w \in Works |-> {}]
    BY SMT DEF Init
  <2>2. \A d \in Delayable : d \in Works
    BY Constants, Zenon
  <2>3. DelayedOK(k, expired, raced)
    BY <2>1, <2>2, SMT DEF DelayedOK
  <2> QED BY <2>3, WorkInit, Zenon DEF DelayInv
<1>2. DelayInv /\ [Next]_vars => DelayInv'
  <2> SUFFICES ASSUME DelayInv, [Next]_vars PROVE DelayInv'
    OBVIOUS
  <2>1. WorkInv'
    BY WorkStep, Zenon DEF DelayInv
  <2>2. CASE Next
    <3>1. DelayedOK(k, expired, raced \cup {expired})
      BY Zenon DEF DelayInv, DelayedOK
    <3>2. DelayedOK(k', expired', raced \cup {expired})
      BY <2>2, <3>1, DelayStep, Zenon DEF DelayInv, Next
    <3> QED BY <2>1, <2>2, <3>2, RacesRecorded, Zenon DEF DelayInv, Next
  <2>3. CASE UNCHANGED vars
    BY <2>1, <2>3, Zenon DEF DelayInv, vars, workVars
  <2> QED BY <2>2, <2>3, Zenon
<1>3. DelayInv => DelayExact
  BY Zenon DEF DelayInv, DelayedOK, DelayExact
<1> QED BY <1>1, <1>2, <1>3, PTL DEF Spec
=============================================================================
