-------------------------------- MODULE Priq --------------------------------
(***************************************************************************)
(* The "dumb" thread priority queue of kernel/sched.c: one doubly linked   *)
(* list kept in priority order, used for the ready queue                   *)
(* (CONFIG_SCHED_DUMB) and for every wait queue (CONFIG_WAITQ_DUMB).  A    *)
(* queue is the sequence of the threads on the list, head first.  As in    *)
(* the kernel, a numerically smaller priority is a higher one.             *)
(***************************************************************************)
EXTENDS Integers, Sequences

\* link t into the list before the node at place i (at the tail when i is one
\* past the last place)
sys_dlist_insert(q, i, t) ==
    [j \in 1 .. Len(q) + 1 |-> IF j < i THEN q[j]
                               ELSE IF j = i THEN t ELSE q[j - 1]]

\* unlink the node at place i
sys_dlist_remove(q, i) ==
    [j \in 1 .. Len(q) - 1 |-> IF j < i THEN q[j] ELSE q[j + 1]]

\* z_sched_prio_cmp(t, u) > 0: t goes before u
PrioHigher(prio, t, u) == prio[t] < prio[u]

\* where z_priq_dumb_add links t: before the first thread of lower priority,
\* so behind every thread of its own priority
InsertPosition(q, prio, t) ==
    CHOOSE i \in 1 .. Len(q) + 1 :
        /\ i <= Len(q) => PrioHigher(prio, t, q[i])
        /\ \A j \in 1 .. i - 1 : ~PrioHigher(prio, t, q[j])

z_priq_dumb_add(q, prio, t) ==
    sys_dlist_insert(q, InsertPosition(q, prio, t), t)

IndexOf(q, t) == CHOOSE i \in 1 .. Len(q) : q[i] = t

z_priq_dumb_remove(q, t) == sys_dlist_remove(q, IndexOf(q, t))

\* the head of a list that is not empty
z_priq_dumb_best(q) == q[1]

OnQueue(q, t) == \E i \in 1 .. Len(q) : q[i] = t

NoDuplicates(q) == \A i, j \in 1 .. Len(q) : q[i] = q[j] => i = j

InPriorityOrder(q, prio) ==
    \A i, j \in 1 .. Len(q) : i < j => prio[q[i]] <= prio[q[j]]
=============================================================================
