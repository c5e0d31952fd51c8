-------------------------------- MODULE MsgQ --------------------------------
(***************************************************************************)
(* The message queue of kernel/msg_q.c: a ring buffer, and one wait queue  *)
(* for the readers of an empty queue and the writers of a full one.        *)
(* Pointers are slot numbers: buffer_start is 0, buffer_end is MaxMsgs and *)
(* msg_size is 1.                                                          *)
(***************************************************************************)
EXTENDS Pend

CONSTANTS
    msgq,           \* the queue's wait_q
    Msgs,
    MaxMsgs         \* max_msgs

ASSUME MsgQAssumption ==
    /\ Objects = {msgq}
    /\ Msgs \cap {NULL, "none", "get", "purge"} = {}
    /\ MaxMsgs \in Nat \ {0}

VARIABLES
    p,              \* the threads and their waits
    buffer, read_ptr, write_ptr, used_msgs,
    op,             \* the operation that holds the lock, if it is not done yet
    role,           \* what a thread waits, or has waited, for
    swap_data,      \* what a writer offers and where a reader receives
    moved,          \* waiters whose message has been copied: a history variable
    out             \* the last message delivered, and to whom: a history variable

ring == <<buffer, read_ptr, write_ptr, used_msgs>>
vars == <<p, ring, op, role, swap_data, moved, out>>

Slots == 0 .. MaxMsgs - 1

\* the threads, and NULL for an interrupt handler, which gets with K_NO_WAIT
Readers == Threads \cup {NULL}

TypeOK ==
    /\ p \in Pending
    /\ buffer \in [Slots -> Msgs \cup {NULL}]
    /\ read_ptr \in Slots /\ write_ptr \in Slots
    /\ used_msgs \in 0 .. MaxMsgs
    /\ op \in {"none", "get", "purge"} \cup Msgs
    /\ role \in [Threads -> {"none", "put", "get"}]
    /\ swap_data \in [Threads -> Msgs \cup {NULL}]
    /\ moved \subseteq Threads
    /\ out \in {<<>>} \cup (Readers \X Msgs)

Init ==
    /\ \E prio \in [Threads -> Prios] : p = PendInit(prio)
    /\ buffer = [i \in Slots |-> NULL]
    /\ read_ptr = 0 /\ write_ptr = 0 /\ used_msgs = 0
    /\ op = "none"
    /\ role = [t \in Threads |-> "none"]
    /\ swap_data = [t \in Threads |-> NULL]
    /\ moved = {}
    /\ out = <<>>

-----------------------------------------------------------------------------
\* mutant: the wrap comes a slot late
NextSlot_Late(i) == IF i = MaxMsgs THEN 0 ELSE i + 1

\* ptr += msg_size, back to buffer_start at buffer_end
NextSlot(i) == IF i + 1 = MaxMsgs THEN 0 ELSE i + 1

Store(m) ==
    /\ buffer' = [buffer EXCEPT ![write_ptr] = m]
    /\ write_ptr' = NextSlot(write_ptr)

Calls(t) == op = "none" /\ Runs(p, t) /\ role[t] = "none"

\* mutant: a message goes into the ring although a reader waits
k_msgq_put_Bypass(m) ==
    /\ op = "none" /\ used_msgs < MaxMsgs
    /\ Store(m) /\ used_msgs' = used_msgs + 1
    /\ UNCHANGED <<p, op, read_ptr, role, swap_data, moved, out>>

\* k_msgq_put() of m while there is room: to the first waiter, which is then a
\* reader, or into the ring; on a full ring -ENOMSG changes nothing
k_msgq_put(m) ==
    /\ op = "none" /\ used_msgs < MaxMsgs
    /\ IF p.waitq[msgq] # <<>>
       THEN /\ p' = z_unpend_first_thread(p, msgq)
            /\ op' = m
            /\ UNCHANGED ring
       ELSE /\ Store(m) /\ used_msgs' = used_msgs + 1
            /\ UNCHANGED <<p, op, read_ptr>>
    /\ UNCHANGED <<role, swap_data, moved, out>>

PutHandOver ==
    /\ op \in Msgs
    /\ swap_data' = [swap_data EXCEPT ![p.waking] = op]
    /\ moved' = moved \cup {p.waking}
    /\ out' = <<p.waking, op>>
    /\ p' = WakeWith(p, "OK")
    /\ op' = "none"
    /\ UNCHANGED <<ring, role>>

PutPend(t, m, wait) ==
    /\ Calls(t) /\ used_msgs = MaxMsgs /\ wait # "NO_WAIT"
    /\ swap_data' = [swap_data EXCEPT ![t] = m]
    /\ role' = [role EXCEPT ![t] = "put"]
    /\ p' = z_pend_curr(p, t, msgq, wait)
    /\ UNCHANGED <<ring, op, moved, out>>

\* k_msgq_get() by t, or by an interrupt, of a message in the ring; the slot it frees goes to the
\* first waiter, which is then a writer
k_msgq_get(t) ==
    /\ op = "none" /\ (t = NULL \/ Calls(t)) /\ used_msgs > 0
    /\ out' = <<t, buffer[read_ptr]>>
    /\ read_ptr' = NextSlot(read_ptr)
    /\ used_msgs' = used_msgs - 1
    /\ IF p.waitq[msgq] # <<>>
       THEN p' = z_unpend_first_thread(p, msgq) /\ op' = "get"
       ELSE UNCHANGED <<p, op>>
    /\ UNCHANGED <<buffer, write_ptr, role, swap_data, moved>>

\* mutant: the writer is woken, its message is not copied
GetAdmit_NoCopy ==
    /\ op = "get"
    /\ p' = WakeWith(p, "OK")
    /\ op' = "none"
    /\ UNCHANGED <<ring, role, swap_data, moved, out>>

GetAdmit ==
    /\ op = "get"
    /\ Store(swap_data[p.waking]) /\ used_msgs' = used_msgs + 1
    /\ moved' = moved \cup {p.waking}
    /\ p' = WakeWith(p, "OK")
    /\ op' = "none"
    /\ UNCHANGED <<read_ptr, role, swap_data, out>>

GetPend(t, wait) ==
    /\ Calls(t) /\ used_msgs = 0 /\ wait # "NO_WAIT"
    /\ role' = [role EXCEPT ![t] = "get"]
    /\ p' = z_pend_curr(p, t, msgq, wait)
    /\ UNCHANGED <<ring, op, swap_data, moved, out>>

\* z_pend_curr() returns in the thread that waited
PendReturn(t) ==
    /\ role[t] # "none" /\ Runs(p, t)
    /\ role' = [role EXCEPT ![t] = "none"]
    /\ swap_data' = [swap_data EXCEPT ![t] = NULL]
    /\ moved' = moved \ {t}
    /\ UNCHANGED <<p, ring, op, out>>

\* the waiters leave one by one with -ENOMSG, then the ring is emptied
k_msgq_purge ==
    /\ op = "none" /\ op' = "purge"
    /\ UNCHANGED <<p, ring, role, swap_data, moved, out>>

PurgeUnpend ==
    /\ op = "purge" /\ p.waking = NULL /\ p.waitq[msgq] # <<>>
    /\ p' = z_unpend_first_thread(p, msgq)
    /\ UNCHANGED <<ring, op, role, swap_data, moved, out>>

PurgeWake ==
    /\ op = "purge" /\ p.waking # NULL
    /\ p' = WakeWith(p, "ENOMSG")
    /\ UNCHANGED <<ring, op, role, swap_data, moved, out>>

PurgeDone ==
    /\ op = "purge" /\ p.waking = NULL /\ p.waitq[msgq] = <<>>
    /\ used_msgs' = 0 /\ read_ptr' = write_ptr /\ op' = "none"
    /\ UNCHANGED <<p, buffer, write_ptr, role, swap_data, moved, out>>

\* mutant: the offset is reduced, the start stays at read_ptr
PeekSlot_NoWrap(idx) ==
    LET bytes_to_end == MaxMsgs - read_ptr
    IN  IF bytes_to_end <= idx THEN read_ptr + idx - bytes_to_end ELSE read_ptr + idx

\* where k_msgq_peek_at() reads item idx of the queue
PeekSlot(idx) ==
    LET bytes_to_end == MaxMsgs - read_ptr
    IN  IF bytes_to_end <= idx THEN idx - bytes_to_end ELSE read_ptr + idx

-----------------------------------------------------------------------------
sys_clock_announce(t) ==
    /\ op = "none" \/ SMP
    /\ p.expired = NULL /\ t \in p.timeout
    /\ p' = Expire(p, t)
    /\ UNCHANGED <<ring, op, role, swap_data, moved, out>>

TimeoutHandler ==
    /\ op = "none" \/ SMP
    /\ p.expired # NULL
    /\ p' = z_thread_timeout(p)
    /\ UNCHANGED <<ring, op, role, swap_data, moved, out>>

Next ==
    \/ \E m \in Msgs : k_msgq_put(m)
    \/ \E t \in Threads, m \in Msgs, wait \in Waits : PutPend(t, m, wait)
    \/ \E t \in Threads, wait \in Waits : GetPend(t, wait)
    \/ \E t \in Readers : k_msgq_get(t)
    \/ \E t \in Threads : PendReturn(t) \/ sys_clock_announce(t)
    \/ PutHandOver \/ GetAdmit
    \/ k_msgq_purge \/ PurgeUnpend \/ PurgeWake \/ PurgeDone
    \/ TimeoutHandler

Spec == Init /\ [][Next]_vars

-----------------------------------------------------------------------------
\* The one wait queue never mixes readers and writers: readers wait only on an
\* empty queue and writers only on a full one, so k_msgq_put() may take the
\* first waiter for a reader and k_msgq_get() for a writer without asking.
WaitersOneSided ==
    op = "none" =>
        \A t \in Threads : OnQueue(p.waitq[msgq], t) =>
            \/ role[t] = "get" /\ used_msgs = 0
            \/ role[t] = "put" /\ used_msgs = MaxMsgs

\* A waiting call tells the truth: it returns 0 exactly when its message was
\* copied, though a put, a get, a purge and its timeout compete to end it.
OutcomeTruthful ==
    \A t \in Threads : role[t] # "none" /\ t \in p.ready =>
        (t \in moved <=> p.swap_retval[t] = "OK")

\* the messages in the ring, oldest first
Contents == [i \in 1 .. used_msgs |-> buffer[(read_ptr + i - 1) % MaxMsgs]]

\* k_msgq_peek_at() finds every queued message by its place in the queue, on
\* either side of the wrap.
PeekAtExact == \A i \in 1 .. used_msgs : buffer[PeekSlot(i - 1)] = Contents[i]

Fifo == INSTANCE BoundedFifo WITH q <- Contents

\* The ring with its direct hand-over to waiters is a bounded FIFO: nothing
\* is lost, duplicated, invented or reordered.
IsBoundedFifo == Fifo!Spec
=============================================================================
