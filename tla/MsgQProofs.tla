----------------------------- MODULE MsgQProofs -----------------------------
(***************************************************************************)
(* The message queue on one CPU, for any number of threads and messages    *)
(* and any capacity: the one wait queue never mixes readers and writers,   *)
(* waiting calls tell the truth, and the ring with its direct hand-over to *)
(* waiters implements a bounded FIFO.                                      *)
(***************************************************************************)
EXTENDS MsgQ, PendProofs, SequenceTheorems

\* slot i of the ring, counted past the wrap
At(i) == IF i < MaxMsgs THEN i ELSE i - MaxMsgs

\* the messages of a ring, oldest first
Messages(b, r, u) == [i \in 1 .. u |-> b[At(r + i - 1)]]

\* The pointers are used_msgs slots apart, and there is a message in each.
RingInv ==
    /\ write_ptr = At(read_ptr + used_msgs)
    /\ Messages(buffer, read_ptr, used_msgs) \in Seq(Msgs)

\* Threads on the wait queue are readers of an empty ring or writers of a full
\* one, of which a k_msgq_get() in progress has taken one message; a thread that
\* waits has a message to offer if it is a writer and none moved yet, and one
\* that has waited has a message moved if it will return 0.
Waiters ==
    \A t \in Threads :
        /\ p.pended_on[t] = msgq =>
              \/ role[t] = "get" /\ used_msgs = 0 /\ op # "get"
              \/ role[t] = "put" /\ used_msgs = IF op = "get" THEN MaxMsgs - 1 ELSE MaxMsgs
        /\ t \notin p.ready =>
              role[t] # "none" /\ (role[t] = "put" => swap_data[t] \in Msgs)
        /\ t \notin p.ready \/ role[t] = "none" => t \notin moved
        /\ role[t] # "none" /\ t \in p.ready =>
              (t \in moved <=> p.swap_retval[t] = "OK")

\* An operation that has taken a waiter off the queue has taken the right one.
HandOver ==
    /\ op = "none" => p.waking = NULL
    /\ op = "get" => /\ p.waking # NULL /\ role[p.waking] = "put"
                     /\ used_msgs = MaxMsgs - 1
    /\ op \in Msgs => p.waking # NULL /\ role[p.waking] = "get" /\ used_msgs = 0

\* the inductive invariant
MsgQInv == TypeOK /\ Sound(p) /\ RingInv /\ Waiters /\ HandOver

-----------------------------------------------------------------------------
(* The ring.                                                               *)

\* Counting past the wrap is counting modulo the capacity.
LEMMA Modulo ==
    ASSUME NEW n \in Nat \ {0}, NEW i \in 0 .. 2 * n - 1
    PROVE  i % n = IF i < n THEN i ELSE i - n
OBVIOUS

\* A slot past the wrap is a slot, and NextSlot() is the next one.
LEMMA AtSlots ==
    ASSUME NEW i \in 0 .. 2 * MaxMsgs - 1
    PROVE  /\ At(i) \in Slots /\ i % MaxMsgs = At(i)
           /\ i + 1 < 2 * MaxMsgs => NextSlot(At(i)) = At(i + 1)
<1>1. MaxMsgs \in Nat \ {0}
  BY MsgQAssumption, Zenon
<1>2. i % MaxMsgs = At(i)
  BY <1>1, Modulo, Zenon DEF At
<1> QED BY <1>1, <1>2 DEF At, Slots, NextSlot

\* What Contents and k_msgq_peek_at() read.
LEMMA ContentsAt ==
    ASSUME NEW b, NEW r \in Slots, NEW u \in 0 .. MaxMsgs
    PROVE  [i \in 1 .. u |-> b[(r + i - 1) % MaxMsgs]] = Messages(b, r, u)
<1>1. MaxMsgs \in Nat \ {0}
  BY MsgQAssumption, Zenon
<1>2. \A i \in 1 .. u : r + i - 1 \in 0 .. 2 * MaxMsgs - 1
  BY <1>1 DEF Slots
<1>3. \A i \in 1 .. u : (r + i - 1) % MaxMsgs = At(r + i - 1)
  BY <1>2, AtSlots, Zenon
<1> QED BY <1>3, Zenon DEF Messages

\* A message stored at write_ptr comes behind the others.
LEMMA StoreAppends ==
    ASSUME NEW b \in [Slots -> Msgs \cup {NULL}], NEW r \in Slots,
           NEW u \in 0 .. MaxMsgs, u < MaxMsgs, NEW m \in Msgs,
           Messages(b, r, u) \in Seq(Msgs), NEW c, c[At(r + u)] = m,
           \A i \in Slots \ {At(r + u)} : c[i] = b[i]
    PROVE  /\ Messages(c, r, u + 1) = Append(Messages(b, r, u), m)
           /\ Len(Messages(b, r, u)) = u
           /\ NextSlot(At(r + u)) = At(r + (u + 1)) /\ NextSlot(At(r + u)) \in Slots
<1>1. MaxMsgs \in Nat \ {0}
  BY MsgQAssumption, Zenon
<1>2. r + u \in 0 .. 2 * MaxMsgs - 1 /\ r + u + 1 \in 0 .. 2 * MaxMsgs - 1
  BY <1>1 DEF Slots
<1>3. At(r + u) \in Slots /\ At(r + u + 1) \in Slots /\ NextSlot(At(r + u)) = At(r + u + 1)
  <2>1. r + u + 1 < 2 * MaxMsgs
    BY <1>1, <1>2
  <2>2. At(r + u + 1) \in Slots
    BY <1>2, AtSlots, Zenon
  <2>3. At(r + u) \in Slots /\ NextSlot(At(r + u)) = At(r + u + 1)
    BY <1>2, <2>1, AtSlots, Zenon
  <2> QED BY <2>2, <2>3, Zenon
<1>5. ASSUME NEW i \in 1 .. u PROVE At(r + i - 1) \in Slots /\ At(r + i - 1) # At(r + u)
  BY <1>1 DEF At, Slots
<1>6. \A i \in 1 .. u : c[At(r + i - 1)] = b[At(r + i - 1)]
  BY <1>5, Zenon
<1>7. Len(Messages(b, r, u)) = u
  BY <1>1 DEF Messages
<1>8. Messages(c, r, u + 1) = Append(Messages(b, r, u), m)
  <2> DEFINE q == Messages(b, r, u)
  <2>1. /\ Append(q, m) \in Seq(Msgs) /\ Len(Append(q, m)) = u + 1
        /\ \A i \in 1 .. u + 1 : Append(q, m)[i] = IF i = u + 1 THEN m ELSE q[i]
    BY <1>1, <1>7, AppendProperties
  <2>2. \A i \in 1 .. u : q[i] = b[At(r + i - 1)]
    BY Zenon DEF Messages
  <2>3. \A i \in 1 .. u + 1 : c[At(r + i - 1)] = IF i = u + 1 THEN m ELSE q[i]
    <3> HIDE DEF q
    <3>1. ASSUME NEW i \in 1 .. u + 1, i # u + 1 PROVE i \in 1 .. u
      BY <3>1, <1>1
    <3>2. (r + (u + 1)) - 1 = r + u
      BY <1>1 DEF Slots
    <3> QED BY <1>6, <2>2, <3>1, <3>2
  <2>4. \A i \in 1 .. u : q[i] \in Msgs
    BY <1>7, ElementOfSeq, Zenon
  <2>5. /\ Messages(c, r, u + 1) \in Seq(Msgs) /\ Len(Messages(c, r, u + 1)) = u + 1
        /\ \A i \in 1 .. u + 1 : Messages(c, r, u + 1)[i] = c[At(r + i - 1)]
    <3> HIDE DEF q
    <3> QED BY <1>1, <2>3, <2>4, SMTT(40) DEF Messages
  <2> HIDE DEF q
  <2>6. Messages(c, r, u + 1) = Append(q, m)
    BY <2>1, <2>3, <2>5, SeqEqual
  <2> QED BY <2>6, Zenon DEF q
<1>9. r + u + 1 = r + (u + 1)
  BY <1>1 DEF Slots
<1> QED BY <1>3, <1>7, <1>8, <1>9, Zenon

\* Taking the message at read_ptr leaves the ones behind it.
LEMMA FetchTail ==
    ASSUME NEW b \in [Slots -> Msgs \cup {NULL}], NEW r \in Slots,
           NEW u \in 0 .. MaxMsgs, u > 0, Messages(b, r, u) \in Seq(Msgs)
    PROVE  /\ Messages(b, NextSlot(r), u - 1) = Tail(Messages(b, r, u))
           /\ Messages(b, r, u) # <<>> /\ Head(Messages(b, r, u)) = b[r] /\ b[r] \in Msgs
           /\ At(NextSlot(r) + (u - 1)) = At(r + u) /\ NextSlot(r) \in Slots
<1> DEFINE q == Messages(b, r, u)
<1>1. MaxMsgs \in Nat \ {0}
  BY MsgQAssumption, Zenon
<1>2. NextSlot(r) \in Slots /\ At(r) = r
  BY <1>1 DEF NextSlot, Slots, At
<1>3. Len(q) = u /\ \A i \in 1 .. u : q[i] = b[At(r + i - 1)]
  BY <1>1 DEF Messages
<1>4. q[1] = b[r] /\ q[1] \in Msgs
  <2>1. r + 1 - 1 = r /\ 1 \in 1 .. u
    BY <1>1 DEF Slots
  <2> HIDE DEF q
  <2>2. q[1] \in Msgs
    BY <1>3, <2>1, ElementOfSeq, Zenon DEF q
  <2> QED BY <1>2, <1>3, <2>1, <2>2, Zenon
<1>5. \A i \in 0 .. u - 1 : At(NextSlot(r) + i) = At(r + (i + 1))
  BY <1>1 DEF NextSlot, Slots, At
<1>6. At(NextSlot(r) + (u - 1)) = At(r + u)
  BY <1>1, <1>5
<1>7. Messages(b, NextSlot(r), u - 1) = Tail(q)
  <2>1. /\ q # <<>> /\ Tail(q) \in Seq(Msgs) /\ Len(Tail(q)) = u - 1
        /\ \A i \in 1 .. u - 1 : Tail(q)[i] = q[i + 1]
    BY <1>1, <1>3, HeadTailProperties
  <2>2. ASSUME NEW i \in 1 .. u - 1 PROVE b[At(NextSlot(r) + i - 1)] = q[i + 1]
    <3>1. /\ NextSlot(r) + i - 1 = NextSlot(r) + (i - 1) /\ i - 1 \in 0 .. u - 1
          /\ i + 1 \in 1 .. u /\ r + (i - 1 + 1) = r + (i + 1) - 1
      BY <1>1, <1>2 DEF Slots
    <3> QED BY <1>3, <1>5, <3>1, Zenon
  <2>3. \A i \in 1 .. u - 1 : q[i + 1] \in Msgs
    BY <1>1, <1>3, ElementOfSeq
  <2> DEFINE n == Messages(b, NextSlot(r), u - 1)
  <2>4. /\ n \in Seq(Msgs) /\ Len(n) = u - 1
        /\ \A i \in 1 .. u - 1 : n[i] = b[At(NextSlot(r) + i - 1)]
    <3> HIDE DEF q
    <3> QED BY <1>1, <2>2, <2>3 DEF Messages
  <2> HIDE DEF n, q
  <2>5. n = Tail(q)
    BY <2>1, <2>2, <2>4, SeqEqual, Zenon
  <2> QED BY <2>5, Zenon DEF n
<1> QED BY <1>2, <1>3, <1>4, <1>6, <1>7

-----------------------------------------------------------------------------
(* The steps.                                                              *)

\* The types, and what they give about the object and the messages.
LEMMA MsgQTypes ==
    ASSUME MsgQInv
    PROVE  /\ TypeOK /\ Sound(p) /\ p \in Pending
           /\ msgq \in Objects /\ msgq # NULL /\ NULL \notin Threads
           /\ MaxMsgs \in Nat \ {0} /\ used_msgs \in 0 .. MaxMsgs
           /\ "none" \notin Msgs /\ "get" \notin Msgs /\ "purge" \notin Msgs
           /\ p.waking \in Threads \cup {NULL}
           /\ \A t \in Threads : p.pended_on[t] \in {msgq, NULL}
           /\ p.waking # NULL => p.waking \notin p.ready
<1>1. TypeOK /\ Sound(p) /\ p \in Pending
  BY Zenon DEF MsgQInv, Sound
<1>2. used_msgs \in 0 .. MaxMsgs
  BY <1>1, Zenon DEF TypeOK
<1>3. /\ msgq # NULL /\ NULL \notin Threads /\ p.waking \in Threads \cup {NULL}
      /\ \A t \in Threads : p.pended_on[t] \in {msgq, NULL}
  BY <1>1, MsgQAssumption, PendTypes, Zenon
<1>4. p.waking # NULL => p.waking \notin p.ready
  BY <1>1, <1>3, Zenon DEF Sound
<1> QED BY <1>1, <1>2, <1>3, <1>4, MsgQAssumption, Zenon

\* The initial states.
LEMMA InitInv == Init => MsgQInv
<1> SUFFICES ASSUME Init PROVE MsgQInv
  BY Zenon
<1>1. PICK prio \in [Threads -> Prios] : p = PendInit(prio)
  BY Zenon DEF Init
<1>2. /\ Sound(p) /\ p.ready = Threads /\ p.waking = NULL
      /\ p.waitq[msgq] = <<>> /\ p \in Pending
  BY <1>1, InitSound, MsgQAssumption, Zenon DEF Sound
<1>3. 0 \in Slots /\ At(0 + 0) = 0 /\ 0 \in 0 .. MaxMsgs
  BY MsgQAssumption DEF Slots, At
<1>4. TypeOK
  BY <1>2, <1>3, Zenon DEF Init, TypeOK
<1>5. RingInv
  <2>1. Messages(buffer, 0, 0) = <<>>
    BY DEF Messages
  <2> QED BY <1>3, <2>1 DEF Init, RingInv
<1>6. Waiters
  <2>1. \A t \in Threads : p.pended_on[t] # msgq
    BY <1>2, MsgQAssumption, WaitqEmpty, Zenon
  <2> QED BY <1>2, <2>1, Zenon DEF Init, Waiters
<1>7. HandOver
  BY <1>2, MsgQAssumption, Zenon DEF Init, HandOver
<1> QED BY <1>2, <1>4, <1>5, <1>6, <1>7, Zenon DEF MsgQInv

\* Store() of a message in a ring with room.
LEMMA StoreInv ==
    ASSUME MsgQInv, used_msgs < MaxMsgs, NEW m \in Msgs,
           buffer' = [buffer EXCEPT ![write_ptr] = m],
           write_ptr' = NextSlot(write_ptr), used_msgs' = used_msgs + 1,
           read_ptr' = read_ptr
    PROVE  /\ buffer' \in [Slots -> Msgs \cup {NULL}] /\ write_ptr' \in Slots
           /\ used_msgs' \in 0 .. MaxMsgs /\ RingInv'
           /\ Messages(buffer', read_ptr', used_msgs') =
                 Append(Messages(buffer, read_ptr, used_msgs), m)
           /\ Len(Messages(buffer, read_ptr, used_msgs)) = used_msgs
<1>1. /\ buffer \in [Slots -> Msgs \cup {NULL}] /\ read_ptr \in Slots
      /\ used_msgs \in 0 .. MaxMsgs
  BY MsgQTypes, Zenon DEF TypeOK
<1>2. /\ write_ptr = At(read_ptr + used_msgs)
      /\ Messages(buffer, read_ptr, used_msgs) \in Seq(Msgs)
  BY Zenon DEF MsgQInv, RingInv
<1> DEFINE q == Messages(buffer, read_ptr, used_msgs)
           c == [buffer EXCEPT ![write_ptr] = m]
<1>3. write_ptr \in Slots
  BY MsgQTypes, Zenon DEF TypeOK
<1>8. /\ c \in [Slots -> Msgs \cup {NULL}] /\ c[write_ptr] = m
      /\ \A i \in Slots \ {write_ptr} : c[i] = buffer[i]
  BY <1>1, <1>3, Zenon
<1>5. buffer' = c
  BY Zenon
<1> HIDE DEF c
<1>9. /\ Messages(c, read_ptr, used_msgs + 1) = Append(q, m) /\ Len(q) = used_msgs
      /\ NextSlot(At(read_ptr + used_msgs)) = At(read_ptr + (used_msgs + 1))
      /\ NextSlot(At(read_ptr + used_msgs)) \in Slots
  <2>1. /\ c[At(read_ptr + used_msgs)] = m
        /\ \A i \in Slots \ {At(read_ptr + used_msgs)} : c[i] = buffer[i]
    BY <1>2, <1>8, Zenon
  <2>2. q \in Seq(Msgs)
    BY <1>2, Zenon
  <2> DEFINE w == At(read_ptr + used_msgs)
             Stored(d, n) == d[w] = n /\ \A i \in Slots \ {w} : d[i] = buffer[i]
             Longer(d, n) ==
                 /\ Messages(d, read_ptr, used_msgs + 1) = Append(q, n) /\ Len(q) = used_msgs
                 /\ NextSlot(w) = At(read_ptr + (used_msgs + 1)) /\ NextSlot(w) \in Slots
  <2>3. ASSUME NEW n \in Msgs, NEW d, Stored(d, n) PROVE Longer(d, n)
    BY <1>1, <2>2, <2>3, StoreAppends
  <2>4. Stored(c, m)
    BY <2>1, Zenon
  <2> HIDE DEF Stored, Longer, w, q
  <2>5. Longer(c, m)
    BY <2>3, <2>4, Zenon
  <2> QED BY <2>5, Zenon DEF Longer, w, q
<1>4. q \in Seq(Msgs)
  BY <1>2
<1>6. used_msgs' \in 0 .. MaxMsgs
  BY <1>1, MsgQTypes
<1> HIDE DEF q
<1>7. Append(q, m) \in Seq(Msgs)
  BY <1>4, AppendProperties, Zenon
<1> QED BY <1>2, <1>5, <1>6, <1>7, <1>8, <1>9, Zenon DEF RingInv, q

\* k_msgq_get() of the oldest message.
LEMMA FetchInv ==
    ASSUME MsgQInv, used_msgs > 0, read_ptr' = NextSlot(read_ptr),
           used_msgs' = used_msgs - 1, buffer' = buffer, write_ptr' = write_ptr
    PROVE  /\ buffer[read_ptr] \in Msgs /\ read_ptr' \in Slots
           /\ used_msgs' \in 0 .. MaxMsgs /\ RingInv'
           /\ Messages(buffer', read_ptr', used_msgs') =
                 Tail(Messages(buffer, read_ptr, used_msgs))
           /\ Messages(buffer, read_ptr, used_msgs) # <<>>
           /\ Head(Messages(buffer, read_ptr, used_msgs)) = buffer[read_ptr]
<1>1. /\ buffer \in [Slots -> Msgs \cup {NULL}] /\ read_ptr \in Slots
      /\ used_msgs \in 0 .. MaxMsgs
  BY MsgQTypes, Zenon DEF TypeOK
<1> DEFINE q == Messages(buffer, read_ptr, used_msgs)
<1>2. write_ptr = At(read_ptr + used_msgs) /\ q \in Seq(Msgs)
  BY Zenon DEF MsgQInv, RingInv
<1>3. /\ Messages(buffer, NextSlot(read_ptr), used_msgs - 1) = Tail(q)
      /\ q # <<>> /\ Head(q) = buffer[read_ptr] /\ buffer[read_ptr] \in Msgs
      /\ At(NextSlot(read_ptr) + (used_msgs - 1)) = At(read_ptr + used_msgs)
      /\ NextSlot(read_ptr) \in Slots
  BY <1>1, <1>2, FetchTail, ZenonT(40)
<1>4. used_msgs' \in 0 .. MaxMsgs
  BY <1>1, MsgQTypes
<1> HIDE DEF q
<1>5. Tail(q) \in Seq(Msgs)
  BY <1>2, <1>3, HeadTailProperties, Zenon
<1> QED BY <1>2, <1>3, <1>4, <1>5, Zenon DEF RingInv, q

\* k_msgq_put() with room in the ring stores the message, or takes the first
\* reader off the queue.
LEMMA PutInv ==
    ASSUME MsgQInv, NEW m \in Msgs, k_msgq_put(m) PROVE MsgQInv'
<1>1. /\ op = "none" /\ used_msgs < MaxMsgs /\ role' = role /\ swap_data' = swap_data
      /\ moved' = moved /\ out' = out
  BY Zenon DEF k_msgq_put
<1>2. CASE p.waitq[msgq] # <<>>
  <2> DEFINE t == z_priq_dumb_best(p.waitq[msgq])
  <2>1. p' = z_unpend_first_thread(p, msgq) /\ op' = m
        /\ buffer' = buffer /\ read_ptr' = read_ptr /\ write_ptr' = write_ptr
        /\ used_msgs' = used_msgs
    BY <1>2, Zenon DEF k_msgq_put, ring
  <2>2. /\ Sound(p') /\ t \in Threads /\ p.pended_on[t] = msgq /\ t \notin p.ready
        /\ p'.ready = p.ready /\ p'.waking = t /\ p'.swap_retval = p.swap_retval
        /\ \A u \in Threads : p'.pended_on[u] = IF u = t THEN NULL ELSE p.pended_on[u]
    BY <1>1, <1>2, <2>1, MsgQTypes, UnpendFirstSound DEF MsgQInv, HandOver
  <2> HIDE DEF t
  <2>3. role[t] = "get" /\ used_msgs = 0 /\ t # NULL /\ m # "get" /\ m # "none"
    BY <1>1, <2>2, MsgQTypes DEF MsgQInv, Waiters
  <2>4. TypeOK'
    BY <1>1, <2>1, <2>2, MsgQTypes, Zenon DEF TypeOK, Sound
  <2>5. RingInv'
    BY <2>1, Zenon DEF MsgQInv, RingInv
  <2>6. Waiters'
    BY <1>1, <2>1, <2>2, <2>3, MsgQTypes DEF MsgQInv, Waiters
  <2>7. HandOver'
    BY <1>1, <2>1, <2>2, <2>3, Zenon DEF HandOver
  <2> QED BY <2>2, <2>4, <2>5, <2>6, <2>7, Zenon DEF MsgQInv
<1>3. CASE p.waitq[msgq] = <<>>
  <2>1. /\ buffer' = [buffer EXCEPT ![write_ptr] = m] /\ write_ptr' = NextSlot(write_ptr)
        /\ used_msgs' = used_msgs + 1 /\ p' = p /\ op' = op /\ read_ptr' = read_ptr
    BY <1>3, Zenon DEF k_msgq_put, Store
  <2>2. \A t \in Threads : p.pended_on[t] # msgq
    BY <1>3, MsgQTypes, WaitqEmpty, Zenon
  <2>3. TypeOK' /\ RingInv'
    BY <1>1, <2>1, MsgQTypes, StoreInv, Zenon DEF TypeOK
  <2>6. Waiters'
    BY <1>1, <2>1, <2>2, Zenon DEF MsgQInv, Waiters
  <2>7. HandOver'
    BY <1>1, <2>1, MsgQTypes, Zenon DEF MsgQInv, HandOver
  <2> QED BY <2>1, <2>3, <2>6, <2>7, Zenon DEF MsgQInv
<1> QED BY <1>2, <1>3, Zenon

\* The reader that was taken off the queue gets the message and is ready.
LEMMA PutHandOverInv ==
    ASSUME MsgQInv, PutHandOver PROVE MsgQInv'
<1> DEFINE t == p.waking
<1>1. /\ op \in Msgs /\ swap_data' = [swap_data EXCEPT ![t] = op]
      /\ moved' = moved \cup {t} /\ out' = <<t, op>> /\ p' = WakeWith(p, "OK")
      /\ op' = "none" /\ buffer' = buffer /\ read_ptr' = read_ptr
      /\ write_ptr' = write_ptr /\ used_msgs' = used_msgs /\ role' = role
  BY Zenon DEF PutHandOver, ring
<1>2. t # NULL /\ role[t] = "get" /\ used_msgs = 0 /\ op # "get"
  BY <1>1, MsgQTypes, Zenon DEF MsgQInv, HandOver
<1>3. /\ Sound(p') /\ t \in Threads /\ t \notin p.ready
      /\ p'.ready = p.ready \cup {t} /\ p'.waking = NULL /\ p'.pended_on = p.pended_on
      /\ \A u \in Threads : p'.swap_retval[u] = IF u = t THEN "OK" ELSE p.swap_retval[u]
  BY <1>1, <1>2, MsgQTypes, WakeSound DEF Retvals
<1> HIDE DEF t
<1>4. TypeOK'
  BY <1>1, <1>3, MsgQTypes DEF TypeOK, Sound, Readers
<1>5. RingInv'
  BY <1>1, Zenon DEF MsgQInv, RingInv
<1>6. \A u \in Threads : swap_data'[u] = IF u = t THEN op ELSE swap_data[u]
  BY <1>1, MsgQTypes, Zenon DEF TypeOK
<1>7. Waiters'
  BY <1>1, <1>2, <1>3, <1>6 DEF MsgQInv, Waiters
<1>8. HandOver'
  BY <1>1, <1>3, MsgQTypes, Zenon DEF HandOver
<1> QED BY <1>3, <1>4, <1>5, <1>7, <1>8, Zenon DEF MsgQInv

\* A thread goes to wait, in k_msgq_put() on a full ring or in k_msgq_get() on an
\* empty one.
LEMMA PendInv ==
    ASSUME MsgQInv, ~SMP, NEW t \in Threads, Calls(t), NEW wait,
           p' = z_pend_curr(p, t, msgq, wait), UNCHANGED <<ring, op, moved, out>>,
           \/ /\ used_msgs = MaxMsgs /\ role' = [role EXCEPT ![t] = "put"]
              /\ \E m \in Msgs : swap_data' = [swap_data EXCEPT ![t] = m]
           \/ /\ used_msgs = 0 /\ role' = [role EXCEPT ![t] = "get"]
              /\ swap_data' = swap_data
    PROVE  MsgQInv'
<1>1. /\ op = "none" /\ op' = op /\ moved' = moved /\ out' = out /\ role[t] = "none"
      /\ t \in p.ready /\ p.expired = NULL /\ buffer' = buffer /\ read_ptr' = read_ptr
      /\ write_ptr' = write_ptr /\ used_msgs' = used_msgs
  BY Zenon DEF Calls, Runs, ring
<1>2. /\ Sound(p') /\ p'.ready = p.ready \ {t} /\ p'.waking = p.waking
      /\ \A u \in Threads :
            /\ p'.pended_on[u] = IF u = t THEN msgq ELSE p.pended_on[u]
            /\ p'.swap_retval[u] = IF u = t THEN "EAGAIN" ELSE p.swap_retval[u]
  BY <1>1, MsgQTypes, PendSound
<1>3. /\ role' \in [Threads -> {"none", "put", "get"}]
      /\ swap_data' \in [Threads -> Msgs \cup {NULL}]
  BY MsgQTypes DEF TypeOK
<1>4. TypeOK'
  BY <1>1, <1>2, <1>3, MsgQTypes DEF TypeOK, Sound
<1>5. RingInv'
  BY <1>1, Zenon DEF MsgQInv, RingInv
<1>6. /\ \A u \in Threads \ {t} : role'[u] = role[u] /\ swap_data'[u] = swap_data[u]
      /\ \/ role'[t] = "put" /\ used_msgs = MaxMsgs /\ swap_data'[t] \in Msgs
         \/ role'[t] = "get" /\ used_msgs = 0
  BY MsgQTypes DEF TypeOK
<1>7. Waiters'
  BY <1>1, <1>2, <1>6 DEF MsgQInv, Waiters
<1>8. HandOver'
  BY <1>1, <1>2, MsgQTypes, Zenon DEF MsgQInv, HandOver
<1> QED BY <1>2, <1>4, <1>5, <1>7, <1>8, Zenon DEF MsgQInv

\* k_msgq_get() takes the oldest message, and the first writer off the queue.
LEMMA GetInv ==
    ASSUME MsgQInv, NEW t \in Readers, k_msgq_get(t) PROVE MsgQInv'
<1>1. /\ op = "none" /\ used_msgs > 0 /\ out' = <<t, buffer[read_ptr]>>
      /\ read_ptr' = NextSlot(read_ptr) /\ used_msgs' = used_msgs - 1
      /\ buffer' = buffer /\ write_ptr' = write_ptr /\ role' = role
      /\ swap_data' = swap_data /\ moved' = moved
  BY Zenon DEF k_msgq_get, Calls
<1>2. /\ buffer[read_ptr] \in Msgs /\ read_ptr' \in Slots /\ used_msgs' \in 0 .. MaxMsgs
      /\ RingInv'
  BY <1>1, FetchInv, Zenon
<1>3. CASE p.waitq[msgq] # <<>>
  <2> DEFINE w == z_priq_dumb_best(p.waitq[msgq])
  <2>1. p' = z_unpend_first_thread(p, msgq) /\ op' = "get"
    BY <1>3, Zenon DEF k_msgq_get
  <2>2. /\ Sound(p') /\ w \in Threads /\ p.pended_on[w] = msgq /\ w \notin p.ready
        /\ p'.ready = p.ready /\ p'.waking = w /\ p'.swap_retval = p.swap_retval
        /\ \A u \in Threads : p'.pended_on[u] = IF u = w THEN NULL ELSE p.pended_on[u]
    BY <1>1, <1>3, <2>1, MsgQTypes, UnpendFirstSound DEF MsgQInv, HandOver
  <2> HIDE DEF w
  <2>3. role[w] = "put" /\ used_msgs = MaxMsgs /\ w # NULL
    BY <1>1, <2>2, MsgQTypes DEF MsgQInv, Waiters
  <2>4. TypeOK'
    BY <1>1, <1>2, <2>1, <2>2, MsgQTypes, ZenonT(40) DEF TypeOK, Sound
  <2>6. Waiters'
    BY <1>1, <2>1, <2>2, <2>3, MsgQTypes DEF MsgQInv, Waiters
  <2>7. HandOver'
    BY <1>1, <2>1, <2>2, <2>3, MsgQTypes, Zenon DEF HandOver
  <2> QED BY <1>2, <2>2, <2>4, <2>6, <2>7, Zenon DEF MsgQInv
<1>4. CASE p.waitq[msgq] = <<>>
  <2>1. p' = p /\ op' = op
    BY <1>4, Zenon DEF k_msgq_get
  <2>2. \A u \in Threads : p.pended_on[u] # msgq
    BY <1>4, MsgQTypes, WaitqEmpty, Zenon
  <2>3. TypeOK'
    BY <1>1, <1>2, <2>1, MsgQTypes, Zenon DEF TypeOK
  <2>6. Waiters'
    BY <1>1, <2>1, <2>2, Zenon DEF MsgQInv, Waiters
  <2>7. HandOver'
    BY <1>1, <2>1, MsgQTypes, Zenon DEF MsgQInv, HandOver
  <2> QED BY <1>2, <2>1, <2>3, <2>6, <2>7, Zenon DEF MsgQInv
<1> QED BY <1>3, <1>4, Zenon

\* The message of the writer that was taken off the queue goes into the slot.
LEMMA GetAdmitInv ==
    ASSUME MsgQInv, GetAdmit PROVE MsgQInv'
<1> DEFINE t == p.waking
           m == swap_data[t]
<1>1. /\ op = "get" /\ buffer' = [buffer EXCEPT ![write_ptr] = m]
      /\ write_ptr' = NextSlot(write_ptr) /\ used_msgs' = used_msgs + 1
      /\ moved' = moved \cup {t} /\ p' = WakeWith(p, "OK") /\ op' = "none"
      /\ read_ptr' = read_ptr /\ role' = role /\ swap_data' = swap_data /\ out' = out
  BY Zenon DEF GetAdmit, Store
<1>2. t # NULL /\ role[t] = "put" /\ used_msgs = MaxMsgs - 1
  BY <1>1, Zenon DEF MsgQInv, HandOver
<1>3. /\ Sound(p') /\ t \in Threads /\ t \notin p.ready
      /\ p'.ready = p.ready \cup {t} /\ p'.waking = NULL /\ p'.pended_on = p.pended_on
      /\ \A u \in Threads : p'.swap_retval[u] = IF u = t THEN "OK" ELSE p.swap_retval[u]
  BY <1>1, <1>2, MsgQTypes, WakeSound DEF Retvals
<1> HIDE DEF t
<1>4. m \in Msgs
  BY <1>2, <1>3, Zenon DEF MsgQInv, Waiters
<1> HIDE DEF m
<1>5. used_msgs < MaxMsgs /\ used_msgs' = MaxMsgs
  BY <1>1, <1>2, MsgQTypes
<1>6. /\ buffer' \in [Slots -> Msgs \cup {NULL}] /\ write_ptr' \in Slots
      /\ used_msgs' \in 0 .. MaxMsgs /\ RingInv'
  BY <1>1, <1>4, <1>5, StoreInv, Zenon
<1>7. TypeOK'
  BY <1>1, <1>3, <1>6, MsgQTypes DEF TypeOK, Sound
<1>8. Waiters'
  BY <1>1, <1>2, <1>3, <1>5, MsgQTypes, Zenon DEF MsgQInv, Waiters
<1>9. HandOver'
  BY <1>1, <1>3, MsgQTypes, Zenon DEF HandOver
<1> QED BY <1>3, <1>6, <1>7, <1>8, <1>9, Zenon DEF MsgQInv

\* A step in which threads only leave the wait queue, or become ready with an
\* answer that is not 0.
LEMMA LeaveInv ==
    ASSUME MsgQInv, Sound(p'), UNCHANGED <<ring, op, role, swap_data, moved, out>>,
           HandOver', p.ready \subseteq p'.ready,
           \A u \in Threads :
              /\ p'.pended_on[u] \in {p.pended_on[u], NULL}
              /\ u \in p.ready => p'.swap_retval[u] = p.swap_retval[u]
              /\ u \in p'.ready \ p.ready => p'.swap_retval[u] # "OK"
    PROVE  MsgQInv'
<1>1. /\ op' = op /\ moved' = moved /\ out' = out /\ role' = role /\ buffer' = buffer
      /\ swap_data' = swap_data /\ read_ptr' = read_ptr /\ write_ptr' = write_ptr
      /\ used_msgs' = used_msgs
  BY Zenon DEF ring
<1>2. TypeOK'
  BY <1>1, MsgQTypes DEF TypeOK, Sound
<1>3. RingInv'
  BY <1>1, Zenon DEF MsgQInv, RingInv
<1>4. Waiters'
  BY <1>1, MsgQTypes DEF MsgQInv, Waiters
<1> QED BY <1>2, <1>3, <1>4, Zenon DEF MsgQInv

\* k_msgq_purge() answers every waiter -ENOMSG, then empties the ring.
LEMMA PurgeInv ==
    ASSUME MsgQInv, k_msgq_purge \/ PurgeUnpend \/ PurgeWake \/ PurgeDone PROVE MsgQInv'
<1>1. CASE k_msgq_purge
  <2>1. /\ op = "none" /\ op' = "purge" /\ p' = p /\ moved' = moved /\ out' = out
        /\ role' = role /\ buffer' = buffer /\ swap_data' = swap_data
        /\ read_ptr' = read_ptr /\ write_ptr' = write_ptr /\ used_msgs' = used_msgs
    BY <1>1, Zenon DEF k_msgq_purge, ring
  <2>2. TypeOK'
    BY <2>1, MsgQTypes, Zenon DEF TypeOK
  <2>3. RingInv' /\ Sound(p')
    BY <2>1, Zenon DEF MsgQInv, RingInv
  <2>4. Waiters' /\ HandOver'
    BY <2>1, MsgQTypes, Zenon DEF MsgQInv, Waiters, HandOver
  <2> QED BY <2>2, <2>3, <2>4, Zenon DEF MsgQInv
<1>2. CASE PurgeUnpend
  <2>1. /\ op = "purge" /\ p.waking = NULL /\ p.waitq[msgq] # <<>>
        /\ p' = z_unpend_first_thread(p, msgq)
        /\ UNCHANGED <<ring, op, role, swap_data, moved, out>>
    BY <1>2, Zenon DEF PurgeUnpend
  <2>2. /\ Sound(p') /\ p'.ready = p.ready /\ p'.swap_retval = p.swap_retval
        /\ \A u \in Threads : p'.pended_on[u] \in {p.pended_on[u], NULL}
    BY <2>1, MsgQTypes, UnpendFirstSound
  <2>3. HandOver'
    BY <2>1, MsgQTypes, Zenon DEF HandOver
  <2> QED BY <2>1, <2>2, <2>3, LeaveInv, Zenon
<1>3. CASE PurgeWake
  <2>1. /\ op = "purge" /\ p.waking # NULL /\ p' = WakeWith(p, "ENOMSG")
        /\ UNCHANGED <<ring, op, role, swap_data, moved, out>>
    BY <1>3, Zenon DEF PurgeWake
  <2>2. /\ Sound(p') /\ p'.ready = p.ready \cup {p.waking} /\ p'.pended_on = p.pended_on
        /\ p.waking \notin p.ready /\ p.waking \in Threads
        /\ \A u \in Threads :
              p'.swap_retval[u] = IF u = p.waking THEN "ENOMSG" ELSE p.swap_retval[u]
    BY <2>1, MsgQTypes, WakeSound DEF Retvals
  <2>3. HandOver'
    BY <2>1, MsgQTypes, Zenon DEF HandOver
  <2>4. \A u \in Threads :
           /\ p'.pended_on[u] \in {p.pended_on[u], NULL}
           /\ u \in p.ready => p'.swap_retval[u] = p.swap_retval[u]
           /\ u \in p'.ready \ p.ready => p'.swap_retval[u] # "OK"
    BY <2>2, Zenon
  <2> QED BY <2>1, <2>2, <2>3, <2>4, LeaveInv, Zenon
<1>4. CASE PurgeDone
  <2>1. /\ op = "purge" /\ op' = "none" /\ p' = p /\ p.waking = NULL
        /\ p.waitq[msgq] = <<>> /\ moved' = moved /\ out' = out
        /\ role' = role /\ buffer' = buffer /\ swap_data' = swap_data
        /\ read_ptr' = write_ptr /\ write_ptr' = write_ptr /\ used_msgs' = 0
    BY <1>4, Zenon DEF PurgeDone
  <2>2. TypeOK'
    BY <2>1, MsgQTypes DEF TypeOK
  <2>3. \A u \in Threads : p.pended_on[u] # msgq
    BY <2>1, MsgQTypes, WaitqEmpty, Zenon
  <2>4. RingInv'
    <3>1. write_ptr \in Slots
      BY MsgQTypes, Zenon DEF TypeOK
    <3>2. At(write_ptr + 0) = write_ptr
      BY <3>1, MsgQTypes DEF At, Slots
    <3>3. Messages(buffer, write_ptr, 0) \in Seq(Msgs)
      BY DEF Messages
    <3> QED BY <2>1, <3>2, <3>3, Zenon DEF RingInv
  <2>5. Waiters'
    BY <2>1, <2>3, Zenon DEF MsgQInv, Waiters
  <2>6. HandOver'
    BY <2>1, MsgQTypes, Zenon DEF HandOver
  <2> QED BY <2>1, <2>2, <2>4, <2>5, <2>6, MsgQTypes, Zenon DEF MsgQInv
<1> QED BY <1>1, <1>2, <1>3, <1>4, Zenon

\* A wait that times out, and the call that returns.
LEMMA TimeoutInv ==
    ASSUME MsgQInv, ~SMP,
           TimeoutHandler \/ \E t \in Threads : PendReturn(t) \/ sys_clock_announce(t)
    PROVE  MsgQInv'
<1>1. CASE TimeoutHandler
  <2>1. /\ op = "none" /\ p.waking = NULL /\ p.expired # NULL /\ p' = z_thread_timeout(p)
        /\ UNCHANGED <<ring, op, role, swap_data, moved, out>>
    BY <1>1, Zenon DEF TimeoutHandler, MsgQInv, HandOver
  <2>2. /\ Sound(p') /\ p'.ready = p.ready \cup {p.expired}
        /\ p'.swap_retval = p.swap_retval /\ p'.waking = NULL
        /\ \A u \in Threads : p'.pended_on[u] \in {p.pended_on[u], NULL}
    BY <2>1, MsgQTypes, TimeoutSound
  <2>3. HandOver'
    BY <2>1, <2>2, MsgQTypes, Zenon DEF HandOver
  <2>4. \A u \in Threads : u \notin p.ready => p.swap_retval[u] # "OK"
    BY MsgQTypes, Zenon DEF Sound
  <2> QED BY <2>1, <2>2, <2>3, <2>4, LeaveInv, Zenon
<1>2. ASSUME NEW t \in Threads, sys_clock_announce(t) PROVE MsgQInv'
  <2>1. /\ p' = Expire(p, t) /\ UNCHANGED <<ring, op, role, swap_data, moved, out>>
    BY <1>2, Zenon DEF sys_clock_announce
  <2>2. /\ Sound(p') /\ p'.ready = p.ready /\ p'.swap_retval = p.swap_retval
        /\ p'.pended_on = p.pended_on /\ p'.waking = p.waking
    BY <2>1, MsgQTypes, ExpireSound, Zenon
  <2>3. HandOver'
    BY <2>1, <2>2, Zenon DEF MsgQInv, HandOver, ring
  <2> QED BY <2>1, <2>2, <2>3, LeaveInv, Zenon
<1>3. ASSUME NEW t \in Threads, PendReturn(t) PROVE MsgQInv'
  <2>1. /\ t \in p.ready /\ p' = p /\ op' = op /\ moved' = moved \ {t} /\ out' = out
        /\ role' = [role EXCEPT ![t] = "none"] /\ swap_data' = [swap_data EXCEPT ![t] = NULL]
        /\ buffer' = buffer /\ read_ptr' = read_ptr /\ write_ptr' = write_ptr
        /\ used_msgs' = used_msgs
    BY <1>3, Zenon DEF PendReturn, Runs, ring
  <2>2. \A u \in Threads : /\ role'[u] = IF u = t THEN "none" ELSE role[u]
                           /\ swap_data'[u] = IF u = t THEN NULL ELSE swap_data[u]
    BY <2>1, MsgQTypes, Zenon DEF TypeOK
  <2>3. TypeOK'
    BY <2>1, MsgQTypes, Zenon DEF TypeOK
  <2>4. RingInv' /\ Sound(p')
    BY <2>1, Zenon DEF MsgQInv, RingInv
  <2>5. p.pended_on[t] # msgq
    BY <2>1, MsgQTypes, Zenon DEF Sound
  <2>6. Waiters'
    BY <2>1, <2>2, <2>5 DEF MsgQInv, Waiters
  <2>7. p.waking # t
    BY <2>1, MsgQTypes, Zenon
  <2>8. HandOver'
    BY <2>1, <2>2, <2>7, MsgQTypes, Zenon DEF MsgQInv, HandOver
  <2> QED BY <2>3, <2>4, <2>6, <2>8, Zenon DEF MsgQInv
<1> QED BY <1>1, <1>2, <1>3, Zenon

\* Every step keeps the invariant.
LEMMA NextInv ==
    ASSUME MsgQInv, ~SMP, [Next]_vars PROVE MsgQInv'
<1>1. ASSUME NEW t \in Threads, NEW m \in Msgs, NEW wait \in Waits, PutPend(t, m, wait)
      PROVE  MsgQInv'
  BY <1>1, PendInv, Zenon DEF PutPend
<1>2. ASSUME NEW t \in Threads, NEW wait \in Waits, GetPend(t, wait) PROVE MsgQInv'
  BY <1>2, PendInv, Zenon DEF GetPend
<1>3. CASE UNCHANGED vars
  <2>1. /\ op' = op /\ moved' = moved /\ out' = out /\ role' = role /\ buffer' = buffer
        /\ swap_data' = swap_data /\ read_ptr' = read_ptr /\ write_ptr' = write_ptr
        /\ used_msgs' = used_msgs /\ p' = p
    BY <1>3, Zenon DEF vars, ring
  <2> QED BY <2>1, Zenon DEF MsgQInv, TypeOK, RingInv, Waiters, HandOver
<1> QED BY <1>1, <1>2, <1>3, PutInv, PutHandOverInv, GetInv, GetAdmitInv, PurgeInv,
           TimeoutInv DEF Next

-----------------------------------------------------------------------------
(* What follows from it.                                                   *)

\* The invariant of the message queue holds in every state that k_msgq_put(),
\* k_msgq_get(), k_msgq_purge() and the timeouts of waiting calls reach.
THEOREM MsgQInvariant ==
    ASSUME ~SMP
    PROVE  Spec => []MsgQInv
<1>1. Init => MsgQInv
  BY InitInv, Zenon
<1>2. MsgQInv /\ [Next]_vars => MsgQInv'
  BY NextInv, Zenon
<1> QED BY <1>1, <1>2, PTL DEF Spec

\* read_ptr, write_ptr and used_msgs stay within the ring, and only messages go
\* through it.
THEOREM MsgQTypeCorrect ==
    ASSUME ~SMP
    PROVE  Spec => []TypeOK
<1>1. MsgQInv => TypeOK
  BY Zenon DEF MsgQInv
<1> QED BY <1>1, MsgQInvariant, PTL

\* The one wait queue never mixes readers and writers, so k_msgq_put() may take
\* the first waiter for a reader and k_msgq_get() for a writer without asking.
THEOREM WaitersOneSidedCorrect ==
    ASSUME ~SMP
    PROVE  Spec => []WaitersOneSided
<1>1. ASSUME MsgQInv PROVE WaitersOneSided
  <2>1. \A t \in Threads : OnQueue(p.waitq[msgq], t) => p.pended_on[t] = msgq
    BY <1>1, MsgQTypes, Zenon DEF Sound
  <2> QED BY <1>1, <2>1, Zenon DEF MsgQInv, Waiters, WaitersOneSided
<1> QED BY <1>1, MsgQInvariant, PTL

\* A call that waited in k_msgq_put() or k_msgq_get() returns 0 exactly when its
\* message was copied, though a put, a get, a purge and its timeout compete to
\* end it.
THEOREM OutcomeTruthfulCorrect ==
    ASSUME ~SMP
    PROVE  Spec => []OutcomeTruthful
<1>1. MsgQInv => OutcomeTruthful
  BY Zenon DEF MsgQInv, Waiters, OutcomeTruthful
<1> QED BY <1>1, MsgQInvariant, PTL

\* The abstract queue is what lies between the pointers.
LEMMA ContentsIs ==
    ASSUME MsgQInv PROVE Contents = Messages(buffer, read_ptr, used_msgs)
<1>1. read_ptr \in Slots /\ used_msgs \in 0 .. MaxMsgs
  BY Zenon DEF MsgQInv, TypeOK
<1> QED BY <1>1, ContentsAt, Zenon DEF Contents

\* k_msgq_peek_at() reads the message at its place in the queue, on either side
\* of the wrap.
THEOREM PeekAtExactCorrect ==
    ASSUME ~SMP
    PROVE  Spec => []PeekAtExact
<1>1. ASSUME MsgQInv, NEW i \in 1 .. used_msgs PROVE buffer[PeekSlot(i - 1)] = Contents[i]
  <2>1. read_ptr \in Slots /\ used_msgs \in 0 .. MaxMsgs /\ MaxMsgs \in Nat \ {0}
    BY <1>1, MsgQTypes, Zenon DEF TypeOK
  <2>2. PeekSlot(i - 1) = At(read_ptr + i - 1)
    BY <2>1 DEF PeekSlot, At, Slots
  <2>3. Contents[i] = buffer[At(read_ptr + i - 1)]
    BY <1>1, ContentsIs, Zenon DEF Messages
  <2> QED BY <2>2, <2>3, Zenon
<1>2. MsgQInv => PeekAtExact
  BY <1>1, Zenon DEF PeekAtExact
<1> QED BY <1>2, MsgQInvariant, PTL

\* Every step of the queue is a step of the bounded FIFO on Contents, or leaves
\* Contents and out alone.
LEMMA StepRefines ==
    ASSUME MsgQInv, MsgQInv', ~SMP, [Next]_vars
    PROVE  [Fifo!Next]_<<Contents, out>>
<1> DEFINE q == Messages(buffer, read_ptr, used_msgs)
<1>1. Contents = q
  BY ContentsIs, Zenon
<1>2. Contents' = Messages(buffer', read_ptr', used_msgs')
  <2>1. read_ptr' \in Slots /\ used_msgs' \in 0 .. MaxMsgs
    BY Zenon DEF MsgQInv, TypeOK
  <2> QED BY <2>1, ContentsAt, Zenon DEF Contents
<1>3. ASSUME UNCHANGED <<ring, out>> PROVE UNCHANGED <<Contents, out>>
  BY <1>1, <1>2, <1>3, Zenon DEF ring
<1>4. ASSUME NEW m \in Msgs, used_msgs < MaxMsgs, Store(m), used_msgs' = used_msgs + 1,
             read_ptr' = read_ptr, out' = out
      PROVE  Fifo!Put(m)
  <2>1. Contents' = Append(Contents, m) /\ Len(Contents) = used_msgs
    BY <1>1, <1>2, <1>4, StoreInv, Zenon DEF Store
  <2> QED BY <1>4, <2>1, Zenon DEF Fifo!Put
<1>5. ASSUME NEW m \in Msgs, k_msgq_put(m)
      PROVE  Fifo!Put(m) \/ UNCHANGED <<Contents, out>>
  BY <1>3, <1>4, <1>5, Zenon DEF k_msgq_put
<1>6. CASE GetAdmit
  <2>1. op = "get" /\ swap_data[p.waking] \in Msgs /\ used_msgs < MaxMsgs
    <3>1. /\ op = "get" /\ p.waking \in Threads /\ p.waking \notin p.ready
          /\ role[p.waking] = "put" /\ used_msgs = MaxMsgs - 1
      BY <1>6, MsgQTypes, Zenon DEF GetAdmit, MsgQInv, HandOver
    <3> QED BY <3>1, MsgQTypes DEF MsgQInv, Waiters
  <2> QED BY <1>4, <1>6, <2>1, Zenon DEF GetAdmit, Fifo!Next
<1>7. ASSUME NEW t \in Readers, k_msgq_get(t) PROVE Fifo!Get(t)
  <2>1. /\ used_msgs > 0 /\ read_ptr' = NextSlot(read_ptr) /\ used_msgs' = used_msgs - 1
        /\ buffer' = buffer /\ write_ptr' = write_ptr /\ out' = <<t, buffer[read_ptr]>>
    BY <1>7, Zenon DEF k_msgq_get
  <2>2. Contents # <<>> /\ Contents' = Tail(Contents) /\ Head(Contents) = buffer[read_ptr]
    BY <1>1, <1>2, <2>1, FetchInv, Zenon
  <2> QED BY <2>1, <2>2, Zenon DEF Fifo!Get
<1>8. CASE PutHandOver
  <2>1. /\ op \in Msgs /\ p.waking \in Threads /\ used_msgs = 0
        /\ out' = <<p.waking, op>> /\ UNCHANGED ring
    BY <1>8, MsgQTypes, Zenon DEF PutHandOver, MsgQInv, HandOver
  <2>2. Contents = <<>> /\ Contents' = Contents
    BY <1>1, <1>2, <2>1 DEF Messages, ring
  <2> QED BY <2>1, <2>2, Zenon DEF Fifo!Pass, Fifo!Next, Readers
<1>9. CASE PurgeDone
  <2>1. used_msgs' = 0 /\ out' = out
    BY <1>9, Zenon DEF PurgeDone
  <2>2. Contents' = <<>>
    BY <1>2, <2>1 DEF Messages
  <2> QED BY <2>1, <2>2, Zenon DEF Fifo!Purge, Fifo!Next
<1>10. ASSUME \/ k_msgq_purge \/ PurgeUnpend \/ PurgeWake \/ TimeoutHandler
              \/ \E t \in Threads : PendReturn(t) \/ sys_clock_announce(t)
              \/ \E t \in Threads, m \in Msgs, wait \in Waits : PutPend(t, m, wait)
              \/ \E t \in Threads, wait \in Waits : GetPend(t, wait)
              \/ UNCHANGED vars
       PROVE  UNCHANGED <<ring, out>>
  BY <1>10, Zenon DEF k_msgq_purge, PurgeUnpend, PurgeWake, TimeoutHandler, PendReturn,
               sys_clock_announce, PutPend, GetPend, vars
<1>11. CASE \E m \in Msgs : k_msgq_put(m)
  BY <1>5, <1>11, Zenon DEF Fifo!Next
<1>12. CASE \E t \in Readers : k_msgq_get(t)
  BY <1>7, <1>12, Zenon DEF Fifo!Next
<1> QED BY <1>3, <1>6, <1>8, <1>9, <1>10, <1>11, <1>12, Zenon DEF Next

\* The ring of kernel/msg_q.c with its direct hand-over to waiters implements a
\* bounded FIFO: no message is lost, duplicated, invented or reordered, for any
\* capacity and any number of threads.
THEOREM MsgQIsBoundedFifo ==
    ASSUME ~SMP
    PROVE  Spec => IsBoundedFifo
<1>1. Init => Fifo!Init
  <2>1. ASSUME Init PROVE Contents = <<>> /\ out = <<>>
    BY <2>1 DEF Init, Contents
  <2> QED BY <2>1, Zenon DEF Fifo!Init
<1>2. MsgQInv /\ MsgQInv' /\ [Next]_vars => [Fifo!Next]_<<Contents, out>>
  BY StepRefines, Zenon
<1> QED BY <1>1, <1>2, MsgQInvariant, PTL DEF Spec, IsBoundedFifo, Fifo!Spec
=============================================================================
