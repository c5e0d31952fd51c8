----------------------------- MODULE PriqProofs -----------------------------
(***************************************************************************)
(* What adding a thread to a priority queue and removing one from it do,   *)
(* for queues of every length.                                             *)
(***************************************************************************)
EXTENDS Priq, TLAPS, WellFoundedInduction

\* A non-empty set of natural numbers has a least element.
LEMMA LeastNatural ==
    ASSUME NEW S \in SUBSET Nat, S # {}
    PROVE  \E n \in S : \A m \in S : n <= m
<1>1. PICK n \in S : \A m \in S : <<m, n>> \notin OpToRel(<, Nat)
  BY WFMin, NatLessThanWellFounded, Zenon
<1>2. \A m \in Nat : m < n => <<m, n>> \in OpToRel(<, Nat)
  BY Zenon DEF OpToRel
<1>3. \A m \in S : ~(m < n)
  BY <1>1, <1>2, Zenon
<1> QED BY <1>3

\* InsertPosition is well defined: some place is the first whose thread has a
\* lower priority, or the walk of z_priq_dumb_add reaches the end of the list.
LEMMA InsertPositionProperties ==
    ASSUME NEW T, NEW q \in Seq(T), NEW t, NEW prio
    PROVE  LET i == InsertPosition(q, prio, t)
           IN  /\ i \in 1 .. Len(q) + 1
               /\ i <= Len(q) => PrioHigher(prio, t, q[i])
               /\ \A j \in 1 .. i - 1 : ~PrioHigher(prio, t, q[j])
<1> DEFINE S == {i \in Nat : i \in 1 .. Len(q) /\ PrioHigher(prio, t, q[i])}
           P(i) == /\ i \in 1 .. Len(q) + 1
                   /\ i <= Len(q) => PrioHigher(prio, t, q[i])
                   /\ \A j \in 1 .. i - 1 : ~PrioHigher(prio, t, q[j])
<1>1. \E i : P(i)
  <2>1. CASE S = {}
    <3>1. P(Len(q) + 1)
      BY <2>1
    <3> QED BY <3>1, Zenon
  <2>2. CASE S # {}
    <3>1. PICK n \in S : \A m \in S : n <= m
      BY <2>2, LeastNatural, Zenon
    <3>2. P(n)
      BY <3>1
    <3> QED BY <3>2, Zenon
  <2> QED BY <2>1, <2>2, Zenon
<1>2. InsertPosition(q, prio, t) = CHOOSE i : P(i)
  BY Zenon DEF InsertPosition
<1> QED BY <1>1, <1>2, Zenon

\* What holds of a list after a thread has been linked in at place i.
LEMMA InsertProperties ==
    ASSUME NEW T, NEW q \in Seq(T), NEW t \in T, NEW i \in 1 .. Len(q) + 1,
           ~OnQueue(q, t), NoDuplicates(q)
    PROVE  LET r == sys_dlist_insert(q, i, t)
           IN  /\ r \in Seq(T)
               /\ Len(r) = Len(q) + 1
               /\ \A u : OnQueue(r, u) <=> OnQueue(q, u) \/ u = t
               /\ NoDuplicates(r)
<1> DEFINE r == sys_dlist_insert(q, i, t)
<1>1. r \in Seq(T) /\ Len(r) = Len(q) + 1
  BY DEF sys_dlist_insert
<1>2. \A j \in 1 .. Len(q) + 1 : /\ j < i => r[j] = q[j]
                                 /\ j = i => r[j] = t
                                 /\ j > i => r[j] = q[j - 1]
  BY DEF sys_dlist_insert
<1>3. \A j \in 1 .. Len(q) : q[j] # t
  BY Zenon DEF OnQueue
<1> HIDE DEF r
<1>4. ASSUME NEW u, OnQueue(r, u) PROVE OnQueue(q, u) \/ u = t
  <2>1. PICK j \in 1 .. Len(q) + 1 : r[j] = u
    BY <1>1, <1>4, Zenon DEF OnQueue
  <2>2. CASE j < i
    <3>1. j \in 1 .. Len(q) /\ q[j] = u
      BY <1>2, <2>1, <2>2
    <3> QED BY <3>1, Zenon DEF OnQueue
  <2>3. CASE j = i
    BY <1>2, <2>1, <2>3, Zenon
  <2>4. CASE j > i
    <3>1. j - 1 \in 1 .. Len(q) /\ q[j - 1] = u
      BY <1>2, <2>1, <2>4
    <3> QED BY <3>1, Zenon DEF OnQueue
  <2> QED BY <2>2, <2>3, <2>4
<1>5. ASSUME NEW u, OnQueue(q, u) PROVE OnQueue(r, u)
  <2>1. PICK j \in 1 .. Len(q) : q[j] = u
    BY <1>5, Zenon DEF OnQueue
  <2>2. CASE j < i
    <3>1. j \in 1 .. Len(r) /\ r[j] = u
      BY <1>1, <1>2, <2>1, <2>2
    <3> QED BY <3>1, Zenon DEF OnQueue
  <2>3. CASE j >= i
    <3>1. j + 1 \in 1 .. Len(q) + 1 /\ j + 1 > i /\ (j + 1) - 1 = j
      BY <2>3
    <3>2. j + 1 \in 1 .. Len(r) /\ r[j + 1] = u
      BY <1>1, <1>2, <2>1, <3>1, Zenon
    <3> QED BY <3>2, Zenon DEF OnQueue
  <2> QED BY <2>2, <2>3
<1>6. OnQueue(r, t)
  <2>1. i \in 1 .. Len(r) /\ r[i] = t
    BY <1>1, <1>2, Zenon
  <2> QED BY <2>1, Zenon DEF OnQueue
<1>7. ASSUME NEW j \in 1 .. Len(q) + 1, NEW k \in 1 .. Len(q) + 1, r[j] = r[k]
      PROVE  j = k
  <2>1. \A m, n \in 1 .. Len(q) : q[m] = q[n] => m = n
    BY Zenon DEF NoDuplicates
  <2>2. j > i => j - 1 \in 1 .. Len(q)
    OBVIOUS
  <2>3. k > i => k - 1 \in 1 .. Len(q)
    OBVIOUS
  <2>4. (j < i => j \in 1 .. Len(q)) /\ (k < i => k \in 1 .. Len(q))
    OBVIOUS
  <2> QED BY <1>2, <1>3, <1>7, <2>1, <2>2, <2>3, <2>4
<1>8. NoDuplicates(r)
  BY <1>1, <1>7, Zenon DEF NoDuplicates
<1> QED BY <1>1, <1>4, <1>5, <1>6, <1>8, Zenon DEF r

\* Linking a thread in where z_priq_dumb_add stops keeps the priority order.
LEMMA InsertKeepsOrder ==
    ASSUME NEW T, NEW q \in Seq(T), NEW t \in T, NEW i \in 1 .. Len(q) + 1,
           NEW prio, \A u \in T : prio[u] \in Int, InPriorityOrder(q, prio),
           i <= Len(q) => prio[t] < prio[q[i]],
           \A j \in 1 .. i - 1 : ~(prio[t] < prio[q[j]])
    PROVE  InPriorityOrder(sys_dlist_insert(q, i, t), prio)
<1> DEFINE r == sys_dlist_insert(q, i, t)
<1>1. r \in Seq(T) /\ Len(r) = Len(q) + 1
  BY DEF sys_dlist_insert
<1>2. \A j \in 1 .. Len(q) + 1 : /\ j < i => r[j] = q[j]
                                 /\ j = i => r[j] = t
                                 /\ j > i => r[j] = q[j - 1]
  BY DEF sys_dlist_insert
<1>3. \A m, n \in 1 .. Len(q) : m < n => prio[q[m]] <= prio[q[n]]
  BY Zenon DEF InPriorityOrder
<1>4. prio[t] \in Int /\ \A m \in 1 .. Len(q) : prio[q[m]] \in Int
  OBVIOUS
<1> HIDE DEF r
<1>5. ASSUME NEW j \in 1 .. Len(q) + 1, NEW k \in 1 .. Len(q) + 1, j < k
      PROVE  prio[r[j]] <= prio[r[k]]
  <2>1. CASE k < i
    <3>1. /\ k \in 1 .. Len(q) /\ j \in 1 .. Len(q) /\ j < k
          /\ r[j] = q[j] /\ r[k] = q[k]
      BY <1>2, <1>5, <2>1
    <3> QED BY <1>3, <3>1, Zenon
  <2>2. CASE k = i
    <3>1. j \in 1 .. i - 1 /\ j \in 1 .. Len(q) /\ r[j] = q[j] /\ r[k] = t
      BY <1>2, <1>5, <2>2
    <3> QED BY <1>4, <3>1
  <2>3. CASE k > i /\ j < i
    <3>1. /\ k - 1 \in 1 .. Len(q) /\ j \in 1 .. Len(q) /\ j < k - 1
          /\ r[j] = q[j] /\ r[k] = q[k - 1]
      BY <1>2, <1>5, <2>3
    <3> QED BY <1>3, <3>1, Zenon
  <2>4. CASE k > i /\ j = i
    <3>1. /\ k - 1 \in 1 .. Len(q) /\ i \in 1 .. Len(q)
          /\ k - 1 = i \/ i < k - 1
          /\ r[j] = t /\ r[k] = q[k - 1]
      BY <1>2, <1>5, <2>4
    <3>2. prio[q[i]] <= prio[q[k - 1]]
      BY <1>3, <1>4, <3>1
    <3>3. prio[t] < prio[q[i]]
      BY <3>1
    <3> QED BY <1>4, <3>1, <3>2, <3>3
  <2>5. CASE k > i /\ j > i
    <3>1. /\ k - 1 \in 1 .. Len(q) /\ j - 1 \in 1 .. Len(q) /\ j - 1 < k - 1
          /\ r[j] = q[j - 1] /\ r[k] = q[k - 1]
      BY <1>2, <1>5, <2>5
    <3> QED BY <1>3, <3>1, Zenon
  <2> QED BY <1>5, <2>1, <2>2, <2>3, <2>4, <2>5
<1>6. InPriorityOrder(r, prio)
  BY <1>1, <1>5, Zenon DEF InPriorityOrder
<1> QED BY <1>6, Zenon DEF r

\* z_priq_dumb_add of a thread that is not on the list adds that thread and
\* nothing else, and keeps the list in priority order.
LEMMA AddProperties ==
    ASSUME NEW T, NEW q \in Seq(T), NEW t \in T, NEW prio, \A u \in T : prio[u] \in Int,
           ~OnQueue(q, t), NoDuplicates(q)
    PROVE  LET r == z_priq_dumb_add(q, prio, t)
           IN  /\ r \in Seq(T)
               /\ \A u : OnQueue(r, u) <=> OnQueue(q, u) \/ u = t
               /\ NoDuplicates(r)
               /\ InPriorityOrder(q, prio) => InPriorityOrder(r, prio)
<1>1. PICK i \in 1 .. Len(q) + 1 :
          /\ i = InsertPosition(q, prio, t)
          /\ i <= Len(q) => prio[t] < prio[q[i]]
          /\ \A j \in 1 .. i - 1 : ~(prio[t] < prio[q[j]])
  BY InsertPositionProperties, Zenon DEF PrioHigher
<1>2. z_priq_dumb_add(q, prio, t) = sys_dlist_insert(q, i, t)
  BY <1>1, Zenon DEF z_priq_dumb_add
<1>3. InPriorityOrder(q, prio) => InPriorityOrder(sys_dlist_insert(q, i, t), prio)
  BY <1>1, InsertKeepsOrder, Zenon
<1> QED BY <1>2, <1>3, InsertProperties

\* z_priq_dumb_remove of a thread that is on the list takes that thread off and
\* no other, and keeps the order of the rest.
LEMMA RemoveProperties ==
    ASSUME NEW T, NEW q \in Seq(T), NEW t, OnQueue(q, t), NoDuplicates(q)
    PROVE  LET r == z_priq_dumb_remove(q, t)
           IN  /\ r \in Seq(T)
               /\ \A u : OnQueue(r, u) <=> OnQueue(q, u) /\ u # t
               /\ NoDuplicates(r)
               /\ \A prio : InPriorityOrder(q, prio) => InPriorityOrder(r, prio)
<1>1. PICK i \in 1 .. Len(q) : q[i] = t /\ z_priq_dumb_remove(q, t) = sys_dlist_remove(q, i)
  BY Zenon DEF OnQueue, IndexOf, z_priq_dumb_remove
<1> DEFINE r == sys_dlist_remove(q, i)
<1>2. r \in Seq(T) /\ Len(r) = Len(q) - 1
  BY DEF sys_dlist_remove
<1>3. \A j \in 1 .. Len(q) - 1 : /\ j < i => r[j] = q[j]
                                 /\ j >= i => r[j] = q[j + 1]
  BY DEF sys_dlist_remove
<1>4. \A m, n \in 1 .. Len(q) : q[m] = q[n] => m = n
  BY Zenon DEF NoDuplicates
<1> HIDE DEF r
<1>5. ASSUME NEW u, OnQueue(r, u) PROVE OnQueue(q, u) /\ u # t
  <2>1. PICK j \in 1 .. Len(q) - 1 : r[j] = u
    BY <1>2, <1>5, Zenon DEF OnQueue
  <2>2. CASE j < i
    <3>1. j \in 1 .. Len(q) /\ q[j] = u /\ j # i
      BY <1>3, <2>1, <2>2
    <3> QED BY <1>1, <1>4, <3>1, Zenon DEF OnQueue
  <2>3. CASE j >= i
    <3>1. j + 1 \in 1 .. Len(q) /\ q[j + 1] = u /\ j + 1 # i
      BY <1>3, <2>1, <2>3
    <3> QED BY <1>1, <1>4, <3>1, Zenon DEF OnQueue
  <2> QED BY <2>2, <2>3
<1>6. ASSUME NEW u, OnQueue(q, u), u # t PROVE OnQueue(r, u)
  <2>1. PICK j \in 1 .. Len(q) : q[j] = u
    BY <1>6, Zenon DEF OnQueue
  <2>2. j # i
    BY <1>1, <1>6, <2>1, Zenon
  <2>3. CASE j < i
    <3>1. j \in 1 .. Len(r) /\ r[j] = u
      BY <1>2, <1>3, <2>1, <2>3
    <3> QED BY <3>1, Zenon DEF OnQueue
  <2>4. CASE j > i
    <3>1. j - 1 \in 1 .. Len(q) - 1 /\ j - 1 >= i /\ (j - 1) + 1 = j
      BY <2>4
    <3>2. j - 1 \in 1 .. Len(r) /\ r[j - 1] = u
      BY <1>2, <1>3, <2>1, <3>1, Zenon
    <3> QED BY <3>2, Zenon DEF OnQueue
  <2> QED BY <2>2, <2>3, <2>4
<1>7. ASSUME NEW j \in 1 .. Len(q) - 1, NEW k \in 1 .. Len(q) - 1, r[j] = r[k]
      PROVE  j = k
  <2>1. /\ j \in 1 .. Len(q) /\ j + 1 \in 1 .. Len(q)
        /\ k \in 1 .. Len(q) /\ k + 1 \in 1 .. Len(q)
    OBVIOUS
  <2> QED BY <1>3, <1>4, <1>7, <2>1
<1>8. NoDuplicates(r)
  BY <1>2, <1>7, Zenon DEF NoDuplicates
<1>9. ASSUME NEW prio, InPriorityOrder(q, prio) PROVE InPriorityOrder(r, prio)
  <2>1. \A m, n \in 1 .. Len(q) : m < n => prio[q[m]] <= prio[q[n]]
    BY <1>9, Zenon DEF InPriorityOrder
  <2>2. ASSUME NEW j \in 1 .. Len(q) - 1, NEW k \in 1 .. Len(q) - 1, j < k
        PROVE  prio[r[j]] <= prio[r[k]]
    <3>1. /\ j \in 1 .. Len(q) /\ j + 1 \in 1 .. Len(q)
          /\ k \in 1 .. Len(q) /\ k + 1 \in 1 .. Len(q)
      OBVIOUS
    <3>2. CASE k < i
      BY <1>3, <2>1, <2>2, <3>1, <3>2, SMTT(40)
    <3>3. CASE j < i /\ k >= i
      <4>1. r[j] = q[j] /\ r[k] = q[k + 1] /\ j < k + 1
        BY <1>3, <2>2, <3>3
      <4> QED BY <2>1, <3>1, <4>1, SMTT(40)
    <3>4. CASE j >= i
      BY <1>3, <2>1, <2>2, <3>1, <3>4, SMTT(40)
    <3> QED BY <2>2, <3>2, <3>3, <3>4
  <2> QED BY <1>2, <2>2, Zenon DEF InPriorityOrder
<1> QED BY <1>1, <1>2, <1>5, <1>6, <1>8, <1>9, Zenon DEF r
=============================================================================
