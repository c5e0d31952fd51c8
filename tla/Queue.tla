-------------------------------- MODULE Queue -------------------------------
(***************************************************************************)
(* The queue of kernel/queue.c, under k_fifo and k_lifo.  A data item is a *)
(* memory block of its caller.  The nodes that k_queue_alloc_append() and  *)
(* k_queue_alloc_prepend() allocate are left out: the item is queued, or   *)
(* the call fails with -ENOMEM and changes nothing.  k_queue_remove() and  *)
(* k_queue_unique_append(), which walk the list with no lock, are not      *)
(* modelled.                                                               *)
(***************************************************************************)
EXTENDS Waiting

CONSTANT queue      \* the queue's wait_q

VARIABLE data_q

QueueTypeOK == data_q \in Seq(Blocks)

QueueInit == data_q = <<>>

-----------------------------------------------------------------------------
\* queue_insert() of b behind the first i items, or to the first waiter
queue_insert(c, b, i) ==
    /\ MayCall(c) /\ b \in held[c]
    /\ Disowns(c, b)
    /\ IF p.waitq[queue] # <<>>
       THEN GiveFirst(queue, b) /\ UNCHANGED data_q
       ELSE data_q' = InsertAt(data_q, i + 1, b) /\ UNCHANGED <<p, swap_data>>
    /\ UNCHANGED <<call, announced>>

k_queue_append(c, b) == queue_insert(c, b, Len(data_q))
k_queue_prepend(c, b) == queue_insert(c, b, 0)

\* prev is an item of the queue
k_queue_insert(c, prev, b) ==
    /\ prev \in ToSet(data_q)
    /\ queue_insert(c, b, CHOOSE i \in DOMAIN data_q : data_q[i] = prev)

\* one round of the loop of k_queue_append_list(): prepare_thread_to_run() of
\* the thread unpended last, which leaves the rest of the items
HandItem(a, b) ==
    IF a.s.waking = NULL THEN [a EXCEPT !.rest = Append(@, b)]
    ELSE LET s == WakeWith(a.s, "OK")
         IN  [s |-> IF s.waitq[queue] = <<>> THEN s ELSE z_unpend_first_thread(s, queue),
              data |-> [a.data EXCEPT ![a.s.waking] = b],
              rest |-> <<>>]

\* k_queue_append_list(), and k_queue_merge_slist(): a waiter is unpended
\* before the next item is looked at, so that with more waiters than items
\* one is unpended and not made ready
k_queue_append_list(c, bs) ==
    LET s0 == IF p.waitq[queue] = <<>> THEN p ELSE z_unpend_first_thread(p, queue)
        a == FoldLeft(HandItem, [s |-> s0, data |-> swap_data, rest |-> <<>>], bs)
    IN  /\ MayCall(c) /\ ToSet(bs) \subseteq held[c]
        /\ held' = [held EXCEPT ![c] = @ \ ToSet(bs)]
        /\ p' = [a.s EXCEPT !.waking = NULL]
        /\ swap_data' = a.data
        /\ data_q' = data_q \o a.rest
        /\ UNCHANGED <<call, announced>>

k_queue_get(c) ==
    /\ MayCall(c) /\ data_q # <<>>
    /\ Owns(c, Head(data_q))
    /\ data_q' = Tail(data_q)
    /\ UNCHANGED <<p, call, swap_data, announced>>

GetPend(t, wait) ==
    /\ data_q = <<>>
    /\ Pends(t, queue, wait, "get")
    /\ UNCHANGED <<data_q, swap_data, held, announced>>

\* the first waiter's k_queue_get() returns NULL
k_queue_cancel_wait(c) ==
    /\ MayCall(c) /\ p.waitq[queue] # <<>>
    /\ GiveFirst(queue, NULL)
    /\ UNCHANGED <<data_q, call, held, announced>>

\* the lists a caller may append at once
Lists(c) == UNION {{bs \in [1 .. n -> held[c]] : IsInjective(bs)} : n \in 1 .. Cardinality(held[c])}

QueueNext ==
    \/ \E c \in Callers, b \in Blocks :
          \/ k_queue_append(c, b)
          \/ k_queue_prepend(c, b)
          \/ \E prev \in Blocks : k_queue_insert(c, prev, b)
    \/ \E c \in Callers :
          \/ \E bs \in Lists(c) : k_queue_append_list(c, bs)
          \/ k_queue_get(c)
          \/ k_queue_cancel_wait(c)
    \/ \E t \in Threads, wait \in Waits : GetPend(t, wait)
=============================================================================
