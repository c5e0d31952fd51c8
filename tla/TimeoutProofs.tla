---------------------------- MODULE TimeoutProofs ---------------------------
(***************************************************************************)
(* The timeout list, for any number of timeouts and any delays.  The       *)
(* first part says what linking, unlinking and announcing do to the deltas *)
(* of a list, the second that they stay exact whatever is added, aborted   *)
(* and announced, on any number of CPUs.  The third is about one CPU: the  *)
(* clock, the alarm and the ticks at which handlers run are right.         *)
(***************************************************************************)
EXTENDS Timeout, PriqProofs

\* A list of timeouts that expire at the ticks when, the first of them dt ticks
\* after tick and each other one dt ticks after the one in front of it.
Deltas(list, dt, tick, when) ==
    /\ list \in Seq(Timeouts) /\ dt \in [Timeouts -> Nat]
    /\ tick \in Int /\ when \in [Timeouts -> Int]
    /\ NoDuplicates(list) /\ InPriorityOrder(list, when)
    /\ \A i \in 1 .. Len(list) :
          dt[list[i]] = when[list[i]] - (IF i = 1 THEN tick ELSE when[list[i - 1]])

\* TicksBefore adds up the ticks of the nodes: what a node's own expiry is past
\* curr_tick, as the walk of z_add_timeout() counts it down.
LEMMA TicksBeforeSum ==
    ASSUME Deltas(timeout_list, dticks, curr_tick, due)
    PROVE  \A i \in 0 .. Len(timeout_list) :
              TicksBefore[i] = IF i = 0 THEN 0 ELSE due[timeout_list[i]] - curr_tick
<1> DEFINE n == Len(timeout_list)
           IsSum(f) == f = [i \in 0 .. n |-> IF i = 0 THEN 0
                                             ELSE f[i - 1] + dticks[timeout_list[i]]]
           T == [i \in 0 .. n |-> IF i = 0 THEN 0 ELSE due[timeout_list[i]] - curr_tick]
<1>1. n \in Nat /\ \A i \in 1 .. n : timeout_list[i] \in Timeouts
  BY DEF Deltas
<1>2. /\ curr_tick \in Int /\ \A t \in Timeouts : dticks[t] \in Int /\ due[t] \in Int
      /\ \A i \in 1 .. n : dticks[timeout_list[i]] =
            due[timeout_list[i]] - (IF i = 1 THEN curr_tick ELSE due[timeout_list[i - 1]])
  BY DEF Deltas
<1> HIDE DEF n
<1>3. ASSUME NEW i \in 1 .. n PROVE T[i] = T[i - 1] + dticks[timeout_list[i]]
  <2>1. CASE i = 1
    BY <1>1, <1>2, <2>1
  <2>2. CASE i # 1
    <3>1. i - 1 \in 1 .. n /\ i - 1 # 0
      BY <1>1, <2>2
    <3> QED BY <1>1, <1>2, <2>2, <3>1
  <2> QED BY <2>1, <2>2, Zenon
<1>4. IsSum(T)
  <2> DEFINE F == [i \in 0 .. n |-> IF i = 0 THEN 0 ELSE T[i - 1] + dticks[timeout_list[i]]]
  <2>1. ASSUME NEW i \in 0 .. n PROVE T[i] = F[i]
    <3>1. CASE i = 0
      BY <3>1, Zenon
    <3>2. CASE i # 0
      <4>1. i \in 1 .. n
        BY <1>1, <3>2
      <4> QED BY <1>3, <3>2, <4>1, Zenon
    <3> QED BY <3>1, <3>2, Zenon
  <2> QED BY <2>1, Zenon
<1>5. IsSum(TicksBefore)
  <2> HIDE DEF T
  <2>1. TicksBefore = CHOOSE f : IsSum(f)
    BY Zenon DEF TicksBefore, n
  <2> QED BY <1>4, <2>1, Zenon
<1>6. /\ TicksBefore[0] = 0
      /\ \A i \in 1 .. n : TicksBefore[i] = TicksBefore[i - 1] + dticks[timeout_list[i]]
  BY <1>1, <1>5
<1>7. T[0] = 0
  BY <1>1
<1>8. \A i \in 0 .. n : TicksBefore[i] = T[i]
  <2> HIDE DEF T
  <2> DEFINE Bad == {i \in Nat : i \in 0 .. n /\ TicksBefore[i] # T[i]}
  <2>1. ASSUME Bad # {} PROVE FALSE
    <3>1. PICK k \in Bad : \A m \in Bad : k <= m
      BY <2>1, LeastNatural, Zenon
    <3>2. k # 0
      BY <1>6, <1>7, <3>1, Zenon
    <3>3. k \in 1 .. n /\ k - 1 \in 0 .. n /\ k - 1 \notin Bad
      BY <1>1, <3>1, <3>2
    <3>4. TicksBefore[k - 1] = T[k - 1]
      BY <1>1, <3>3
    <3>5. TicksBefore[k] = T[k]
      BY <1>3, <1>6, <3>3, <3>4, Zenon
    <3> QED BY <3>1, <3>5, Zenon
  <2>2. 0 .. n \subseteq Nat
    BY <1>1
  <2> QED BY <2>1, <2>2, Zenon
<1> QED BY <1>8, Zenon DEF n

\* AddPosition is well defined: the walk of z_add_timeout() stops at the first
\* node that expires later than d ticks after curr_tick, or at the end.
LEMMA AddPositionProperties ==
    ASSUME Deltas(timeout_list, dticks, curr_tick, due), NEW d \in Int
    PROVE  LET i == AddPosition(d)
           IN  /\ i \in 1 .. Len(timeout_list) + 1
               /\ i <= Len(timeout_list) => curr_tick + d < due[timeout_list[i]]
               /\ \A j \in 1 .. i - 1 : due[timeout_list[j]] <= curr_tick + d
               /\ TicksBefore[i - 1] =
                     IF i = 1 THEN 0 ELSE due[timeout_list[i - 1]] - curr_tick
<1> DEFINE n == Len(timeout_list)
           S == {i \in Nat : i \in 1 .. n /\ TicksBefore[i] > d}
           P(i) == /\ i \in 1 .. n + 1
                   /\ i <= n => TicksBefore[i] > d
                   /\ \A j \in 1 .. i - 1 : TicksBefore[j] <= d
<1>1. /\ n \in Nat /\ curr_tick \in Int
      /\ \A i \in 1 .. n : due[timeout_list[i]] \in Int
  BY DEF Deltas
<1>2. \A i \in 0 .. n : TicksBefore[i] = IF i = 0 THEN 0 ELSE due[timeout_list[i]] - curr_tick
  BY TicksBeforeSum, Zenon
<1> HIDE DEF n
<1>3. \A i \in 1 .. n : TicksBefore[i] = due[timeout_list[i]] - curr_tick
  BY <1>1, <1>2
<1>4. \E i : P(i)
  <2>1. CASE S = {}
    <3>1. \A j \in 1 .. n : TicksBefore[j] <= d
      BY <1>1, <1>3, <2>1
    <3>2. P(n + 1)
      BY <1>1, <3>1
    <3> QED BY <3>2, Zenon
  <2>2. CASE S # {}
    <3>1. PICK k \in S : \A m \in S : k <= m
      BY <2>2, LeastNatural, Zenon
    <3>2. \A j \in 1 .. k - 1 : j \in 1 .. n /\ j \notin S
      BY <1>1, <3>1
    <3>3. P(k)
      BY <1>1, <1>3, <3>1, <3>2
    <3> QED BY <3>3, Zenon
  <2> QED BY <2>1, <2>2, Zenon
<1>5. P(AddPosition(d))
  <2>1. AddPosition(d) = CHOOSE i : P(i)
    BY Zenon DEF AddPosition, n
  <2> QED BY <1>4, <2>1, Zenon
<1> DEFINE i == AddPosition(d)
<1>6. P(i)
  BY <1>5, Zenon
<1> HIDE DEF i
<1>7. /\ i \in 1 .. n + 1
      /\ i <= n => curr_tick + d < due[timeout_list[i]]
      /\ \A j \in 1 .. i - 1 : due[timeout_list[j]] <= curr_tick + d
  BY <1>1, <1>3, <1>6
<1>8. TicksBefore[i - 1] = IF i = 1 THEN 0 ELSE due[timeout_list[i - 1]] - curr_tick
  BY <1>1, <1>2, <1>7
<1> QED BY <1>7, <1>8, Zenon DEF n, i

\* Linking a timeout in at the place AddPosition finds, and taking its ticks
\* from the node behind it, keeps every other node's expiry.
LEMMA InsertDeltas ==
    ASSUME NEW list, NEW dt, NEW tick, NEW when, Deltas(list, dt, tick, when),
           NEW t \in Timeouts, ~OnQueue(list, t), NEW d \in Int, d >= 0,
           NEW i \in 1 .. Len(list) + 1,
           i <= Len(list) => tick + d < when[list[i]],
           \A j \in 1 .. i - 1 : when[list[j]] <= tick + d
    PROVE  LET own == d - (IF i = 1 THEN 0 ELSE when[list[i - 1]] - tick)
           IN  Deltas(sys_dlist_insert(list, i, t),
                      [u \in Timeouts |->
                          IF u = t THEN own
                          ELSE IF i <= Len(list) /\ u = list[i] THEN dt[u] - own
                          ELSE dt[u]],
                      tick, [when EXCEPT ![t] = tick + d])
<1> DEFINE n == Len(list)
           own == d - (IF i = 1 THEN 0 ELSE when[list[i - 1]] - tick)
           r == sys_dlist_insert(list, i, t)
           due1 == [when EXCEPT ![t] = tick + d]
           dt1 == [u \in Timeouts |->
                      IF u = t THEN own
                      ELSE IF i <= n /\ u = list[i] THEN dt[u] - own ELSE dt[u]]
<1>1. /\ list \in Seq(Timeouts) /\ dt \in [Timeouts -> Nat] /\ tick \in Int
      /\ when \in [Timeouts -> Int] /\ NoDuplicates(list) /\ InPriorityOrder(list, when)
      /\ \A j \in 1 .. Len(list) :
            dt[list[j]] = when[list[j]] - (IF j = 1 THEN tick ELSE when[list[j - 1]])
  BY Zenon DEF Deltas
<1>2. n \in Nat /\ tick \in Int /\ \A j \in 1 .. n : list[j] \in Timeouts
  BY <1>1
<1>3. r \in Seq(Timeouts) /\ Len(r) = n + 1 /\ NoDuplicates(r)
  BY <1>1, InsertProperties, Zenon
<1>4. \A j \in 1 .. n + 1 : /\ j < i => r[j] = list[j]
                            /\ j = i => r[j] = t
                            /\ j > i => r[j] = list[j - 1]
  BY <1>1 DEF sys_dlist_insert
<1>5. /\ \A j \in 1 .. n : list[j] # t
      /\ \A j, k \in 1 .. n : list[j] = list[k] => j = k
  BY <1>1, Zenon DEF OnQueue, NoDuplicates
<1>6. /\ due1 \in [Timeouts -> Int] /\ due1[t] = tick + d
      /\ \A u \in Timeouts : u # t => due1[u] = when[u]
  BY <1>1
<1>7. /\ own \in Nat
      /\ i = 1 => own = (tick + d) - tick
      /\ i # 1 => own = (tick + d) - when[list[i - 1]]
  <2>1. CASE i = 1
    BY <1>1, <2>1
  <2>2. CASE i # 1
    <3>1. i - 1 \in 1 .. n /\ i - 1 \in 1 .. i - 1
      BY <1>2, <2>2
    <3>2. when[list[i - 1]] \in Int /\ when[list[i - 1]] <= tick + d
      BY <1>1, <1>2, <3>1, Zenon
    <3> QED BY <1>2, <2>2, <3>2
  <2> QED BY <2>1, <2>2, Zenon
<1> HIDE DEF own
<1>8. i <= n => dt[list[i]] - own = when[list[i]] - (tick + d)
  <2> HAVE i <= n
  <2>1. i \in 1 .. n
    BY <1>2
  <2>2. CASE i = 1
    BY <1>1, <1>2, <1>7, <2>1, <2>2
  <2>3. CASE i # 1
    <3>1. i - 1 \in 1 .. n
      BY <1>2, <2>3
    <3>2. when[list[i - 1]] \in Int /\ when[list[i]] \in Int
      BY <1>1, <1>2, <2>1, <3>1, Zenon
    <3>3. dt[list[i]] = when[list[i]] - when[list[i - 1]]
      BY <1>1, <2>1, <2>3, Zenon
    <3> QED BY <1>2, <1>7, <2>3, <3>2, <3>3
  <2> QED BY <2>2, <2>3, Zenon
<1>9. dt1 \in [Timeouts -> Nat]
  <2>1. i <= n => dt[list[i]] - own \in Nat
    <3> HAVE i <= n
    <3>1. when[list[i]] \in Int /\ tick + d < when[list[i]]
      BY <1>1, <1>2
    <3> QED BY <1>1, <1>8, <3>1
  <2> QED BY <1>1, <1>7, <2>1, Zenon
<1>10. /\ dt1[t] = own
       /\ i <= n => dt1[list[i]] = dt[list[i]] - own
       /\ \A j \in 1 .. n : j # i => dt1[list[j]] = dt[list[j]]
  <2>1. i <= n => i \in 1 .. n
    BY <1>2
  <2> QED BY <1>2, <1>5, <2>1, Zenon
<1> HIDE DEF n, r, due1, dt1
<1>11. InPriorityOrder(r, due1)
  <2>1. \A j \in 1 .. n : due1[list[j]] = when[list[j]]
    BY <1>2, <1>5, <1>6, Zenon
  <2>2. InPriorityOrder(list, due1)
    BY <1>1, <2>1, Zenon DEF InPriorityOrder, n
  <2>3. /\ i <= Len(list) => due1[t] < due1[list[i]]
        /\ \A j \in 1 .. i - 1 : ~(due1[t] < due1[list[j]])
    <3>1. \A j \in 1 .. i - 1 : j \in 1 .. n /\ when[list[j]] \in Int
      BY <1>1, <1>2 DEF n
    <3>2. \A j \in 1 .. i - 1 : due1[list[j]] = when[list[j]] /\ when[list[j]] <= tick + d
      BY <2>1, <3>1, Zenon
    <3>3. \A j \in 1 .. i - 1 : ~(due1[t] < due1[list[j]])
      BY <1>2, <1>6, <3>1, <3>2
    <3>4. i <= Len(list) => i \in 1 .. n
      BY <1>2 DEF n
    <3> QED BY <1>6, <2>1, <3>3, <3>4, Zenon
  <2>4. \A u \in Timeouts : due1[u] \in Int
    BY <1>6, Zenon
  <2> QED BY <1>1, <2>2, <2>3, <2>4, InsertKeepsOrder, Zenon DEF r
<1>12. ASSUME NEW j \in 1 .. n + 1
       PROVE  dt1[r[j]] = due1[r[j]] - (IF j = 1 THEN tick ELSE due1[r[j - 1]])
  <2>1. CASE j < i
    <3>1. j \in 1 .. n /\ j # i /\ r[j] = list[j]
      BY <1>2, <1>4, <2>1 DEF n
    <3>2. dt1[r[j]] = dt[list[j]] /\ due1[r[j]] = when[list[j]]
      BY <1>2, <1>5, <1>6, <1>10, <3>1, Zenon
    <3>3. CASE j = 1
      BY <1>1, <3>1, <3>2, <3>3, Zenon DEF n
    <3>4. CASE j # 1
      <4>1. j - 1 \in 1 .. n /\ r[j - 1] = list[j - 1]
        BY <1>2, <1>4, <2>1, <3>1, <3>4
      <4>2. due1[r[j - 1]] = when[list[j - 1]]
        BY <1>2, <1>5, <1>6, <4>1, Zenon
      <4> QED BY <1>1, <3>1, <3>2, <3>4, <4>2, Zenon DEF n
    <3> QED BY <3>3, <3>4, Zenon
  <2>2. CASE j = i
    <3>1. r[j] = t /\ dt1[r[j]] = own /\ due1[r[j]] = tick + d
      BY <1>4, <1>6, <1>10, <2>2, Zenon
    <3>2. CASE j = 1
      BY <1>7, <2>2, <3>1, <3>2, Zenon
    <3>3. CASE j # 1
      <4>1. j - 1 \in 1 .. n /\ r[j - 1] = list[j - 1]
        BY <1>2, <1>4, <2>2, <3>3
      <4>2. due1[r[j - 1]] = when[list[j - 1]]
        BY <1>2, <1>5, <1>6, <4>1, Zenon
      <4> QED BY <1>7, <2>2, <3>1, <3>3, <4>2, Zenon
    <3> QED BY <3>2, <3>3, Zenon
  <2>3. CASE j > i
    <3>1. j - 1 \in 1 .. n /\ r[j] = list[j - 1] /\ j # 1
      BY <1>2, <1>4, <2>3
    <3>2. due1[r[j]] = when[list[j - 1]]
      BY <1>2, <1>5, <1>6, <3>1, Zenon
    <3>3. CASE j - 1 = i
      <4>1. i <= n /\ r[j - 1] = t
        BY <1>2, <1>4, <3>1, <3>3
      <4> QED BY <1>6, <1>8, <1>10, <3>1, <3>2, <3>3, <4>1, Zenon
    <3>4. CASE j - 1 # i
      <4>1. j - 2 \in 1 .. n /\ r[j - 1] = list[j - 2] /\ j - 1 # 1
        BY <1>2, <1>4, <2>3, <3>1, <3>4
      <4>2. due1[r[j - 1]] = when[list[j - 2]]
        BY <1>2, <1>5, <1>6, <4>1, Zenon
      <4>3. dt1[r[j]] = dt[list[j - 1]]
        BY <1>10, <3>1, <3>4, Zenon
      <4>4. (j - 1) - 1 = j - 2
        OBVIOUS
      <4>5. dt[list[j - 1]] = when[list[j - 1]] - when[list[j - 2]]
        BY <1>1, <3>1, <4>1, <4>4, Zenon DEF n
      <4> QED BY <3>1, <3>2, <4>2, <4>3, <4>5, Zenon
    <3> QED BY <3>3, <3>4, Zenon
  <2> QED BY <1>2, <2>1, <2>2, <2>3
<1>13. Deltas(r, dt1, tick, due1)
  BY <1>1, <1>3, <1>6, <1>9, <1>11, <1>12, Zenon DEF Deltas
<1> QED BY <1>13, Zenon DEF n, r, due1, dt1, own

\* A timeout's place on the list is the one IndexOf gives.
LEMMA PlaceOnList ==
    ASSUME NEW list, NoDuplicates(list), NEW i \in 1 .. Len(list)
    PROVE  IndexOf(list, list[i]) = i
BY Zenon DEF IndexOf, NoDuplicates

\* Unlinking a timeout and leaving its ticks to the node behind it keeps every
\* other node's expiry.
LEMMA RemoveDeltas ==
    ASSUME NEW list, NEW dt, NEW tick, NEW when, Deltas(list, dt, tick, when),
           NEW t \in Timeouts, OnQueue(list, t)
    PROVE  Deltas(z_priq_dumb_remove(list, t), remove_timeout(list, dt, t), tick,
                  [when EXCEPT ![t] = 0])
<1> DEFINE n == Len(list)
           r == z_priq_dumb_remove(list, t)
           due1 == [when EXCEPT ![t] = 0]
           dt1 == remove_timeout(list, dt, t)
<1>1. /\ list \in Seq(Timeouts) /\ dt \in [Timeouts -> Nat] /\ tick \in Int
      /\ when \in [Timeouts -> Int] /\ NoDuplicates(list) /\ InPriorityOrder(list, when)
      /\ \A j \in 1 .. Len(list) :
            dt[list[j]] = when[list[j]] - (IF j = 1 THEN tick ELSE when[list[j - 1]])
  BY Zenon DEF Deltas
<1>2. n \in Nat /\ \A j \in 1 .. n : list[j] \in Timeouts
  BY <1>1
<1>3. PICK i \in 1 .. n : list[i] = t
  BY Zenon DEF OnQueue
<1>4. IndexOf(list, t) = i
  BY <1>1, <1>3, PlaceOnList, Zenon
<1>5. \A j, k \in 1 .. n : list[j] = list[k] => j = k
  BY <1>1, Zenon DEF NoDuplicates
<1>6. /\ r \in Seq(Timeouts) /\ NoDuplicates(r) /\ InPriorityOrder(r, when)
      /\ \A u : OnQueue(r, u) <=> OnQueue(list, u) /\ u # t
  BY <1>1, RemoveProperties, Zenon
<1>7. /\ Len(r) = n - 1
      /\ \A j \in 1 .. n - 1 : /\ j < i => r[j] = list[j]
                               /\ j >= i => r[j] = list[j + 1]
  BY <1>2, <1>4 DEF z_priq_dumb_remove, sys_dlist_remove
<1>8. /\ due1 \in [Timeouts -> Int]
      /\ \A u \in Timeouts : u # t => due1[u] = when[u]
  BY <1>1
<1>9. /\ dt1 \in [Timeouts -> Nat]
      /\ \A j \in 1 .. n : dt1[list[j]] = IF j = i + 1 THEN dt[list[j]] + dt[t] ELSE dt[list[j]]
  <2>1. dt1 = [u \in Timeouts |-> IF i < n /\ u = list[i + 1] THEN dt[u] + dt[t] ELSE dt[u]]
    BY <1>4, Zenon DEF remove_timeout
  <2> HIDE DEF dt1
  <2>2. dt1 \in [Timeouts -> Nat]
    <3>1. dt \in [Timeouts -> Nat]
      BY <1>1, Zenon
    <3> QED BY <2>1, <3>1
  <2>3. \A j \in 1 .. n : i < n /\ list[j] = list[i + 1] <=> j = i + 1
    BY <1>2, <1>5
  <2> QED BY <1>2, <2>1, <2>2, <2>3, Zenon
<1> HIDE DEF n, r, due1, dt1
<1>10. \A j \in 1 .. n - 1 : r[j] \in Timeouts /\ due1[r[j]] = when[r[j]]
  <2>1. \A j \in 1 .. n - 1 : OnQueue(r, r[j])
    BY <1>7, Zenon DEF OnQueue
  <2>2. \A j \in 1 .. n - 1 : r[j] \in Timeouts
    BY <1>6, <1>7
  <2> QED BY <1>6, <1>8, <2>1, <2>2, Zenon
<1>11. InPriorityOrder(r, due1)
  BY <1>6, <1>7, <1>10, Zenon DEF InPriorityOrder
<1>12. ASSUME NEW j \in 1 .. n - 1
       PROVE  dt1[r[j]] = when[r[j]] - (IF j = 1 THEN tick ELSE when[r[j - 1]])
  <2>1. CASE j < i
    <3>1. j \in 1 .. n /\ j # i + 1 /\ r[j] = list[j]
      BY <1>2, <1>7, <2>1
    <3>2. j # 1 => r[j - 1] = list[j - 1]
      BY <1>2, <1>7, <2>1
    <3>3. dt1[r[j]] = dt[list[j]]
      BY <1>9, <3>1, SMT
    <3> QED BY <1>1, <3>1, <3>2, <3>3, Zenon DEF n
  <2>2. CASE j = i
    <3>1. i + 1 \in 1 .. n /\ i + 1 # 1 /\ (i + 1) - 1 = i /\ r[j] = list[i + 1]
      BY <1>2, <1>7, <2>2
    <3>2. dt1[r[j]] = dt[list[i + 1]] + dt[list[i]]
      BY <1>3, <1>9, <3>1, Zenon
    <3>3. /\ dt[list[i + 1]] = when[list[i + 1]] - when[list[i]]
          /\ dt[list[i]] = when[list[i]] - (IF i = 1 THEN tick ELSE when[list[i - 1]])
      BY <1>1, <3>1, Zenon DEF n
    <3>4. when[list[i]] \in Int /\ when[list[i + 1]] \in Int
      BY <1>1, <1>2, <3>1, Zenon
    <3>5. CASE i = 1
      BY <1>1, <2>2, <3>1, <3>2, <3>3, <3>4, <3>5, SMTT(40)
    <3>6. CASE i # 1
      <4>1. i - 1 \in 1 .. n /\ r[j - 1] = list[i - 1]
        BY <1>2, <1>7, <2>2, <3>6
      <4>2. when[list[i - 1]] \in Int
        BY <1>1, <1>2, <4>1, Zenon
      <4> QED BY <2>2, <3>1, <3>2, <3>3, <3>4, <3>6, <4>1, <4>2
    <3> QED BY <3>5, <3>6, Zenon
  <2>3. CASE j > i
    <3>1. /\ j + 1 \in 1 .. n /\ j + 1 # i + 1 /\ r[j] = list[j + 1] /\ j # 1
          /\ r[j - 1] = list[j] /\ (j + 1) - 1 = j /\ j + 1 # 1
      BY <1>2, <1>7, <2>3
    <3>2. dt1[r[j]] = dt[list[j + 1]]
      BY <1>9, <3>1, Zenon
    <3>3. dt[list[j + 1]] = when[list[j + 1]] - when[list[j]]
      BY <1>1, <3>1, Zenon DEF n
    <3> QED BY <3>1, <3>2, <3>3, Zenon
  <2> QED BY <1>2, <2>1, <2>2, <2>3
<1>13. ASSUME NEW j \in 1 .. n - 1
       PROVE  dt1[r[j]] = due1[r[j]] - (IF j = 1 THEN tick ELSE due1[r[j - 1]])
  <2>1. j # 1 => j - 1 \in 1 .. n - 1
    BY <1>2
  <2> QED BY <1>10, <1>12, <2>1, Zenon
<1>14. Deltas(r, dt1, tick, due1)
  BY <1>1, <1>6, <1>7, <1>8, <1>9, <1>11, <1>13, Zenon DEF Deltas
<1> QED BY <1>14, Zenon DEF r, due1, dt1

\* Unlinking the first timeout and moving curr_tick to its expiry keeps every
\* other node's expiry.
LEMMA HeadDeltas ==
    ASSUME NEW list, NEW dt, NEW tick, NEW when, Deltas(list, dt, tick, when),
           list # <<>>
    PROVE  LET t == Head(list)
           IN  /\ Deltas(Tail(list), remove_timeout(list, [dt EXCEPT ![t] = 0], t),
                         tick + dt[t], [when EXCEPT ![t] = 0])
               /\ t \in Timeouts /\ tick + dt[t] = when[t]
               /\ \A i \in 1 .. Len(list) : when[t] <= when[list[i]]
<1> DEFINE n == Len(list)
           t == Head(list)
           r == Tail(list)
           due1 == [when EXCEPT ![t] = 0]
           dt0 == [dt EXCEPT ![t] = 0]
           dt1 == remove_timeout(list, dt0, t)
<1>1. /\ list \in Seq(Timeouts) /\ dt \in [Timeouts -> Nat] /\ tick \in Int
      /\ when \in [Timeouts -> Int] /\ NoDuplicates(list) /\ InPriorityOrder(list, when)
      /\ \A j \in 1 .. Len(list) :
            dt[list[j]] = when[list[j]] - (IF j = 1 THEN tick ELSE when[list[j - 1]])
  BY Zenon DEF Deltas
<1>2. n \in Nat /\ n > 0 /\ 1 \in 1 .. n /\ t = list[1]
  BY <1>1
<1>3. \A j \in 1 .. n : list[j] \in Timeouts
  BY <1>1
<1>4. r \in Seq(Timeouts) /\ Len(r) = n - 1 /\ \A j \in 1 .. n - 1 : r[j] = list[j + 1]
  BY <1>1
<1>5. \A j, k \in 1 .. n : list[j] = list[k] => j = k
  BY <1>1, Zenon DEF NoDuplicates
<1>6. IndexOf(list, t) = 1
  BY <1>1, <1>2, PlaceOnList, Zenon
<1> HIDE DEF n, t, r
<1>7. t \in Timeouts /\ tick + dt[t] = when[t]
  <2>1. t \in Timeouts
    BY <1>2, <1>3, Zenon
  <2>2. dt[t] = when[t] - tick
    BY <1>1, <1>2, Zenon DEF n
  <2> QED BY <1>1, <2>1, <2>2
<1>8. \A i \in 1 .. n : when[t] <= when[list[i]]
  <2> TAKE i \in 1 .. n
  <2>1. when[t] \in Int
    BY <1>1, <1>7, Zenon
  <2>2. CASE i = 1
    BY <1>2, <2>1, <2>2
  <2>3. CASE i # 1
    <3>1. 1 < i
      BY <1>2, <2>3
    <3> QED BY <1>1, <1>2, <3>1, Zenon DEF InPriorityOrder, n
  <2> QED BY <2>2, <2>3, Zenon
<1>9. /\ due1 \in [Timeouts -> Int]
      /\ \A u \in Timeouts : u # t => due1[u] = when[u]
  BY <1>1, <1>7
<1>10. /\ dt1 \in [Timeouts -> Nat]
       /\ \A u \in Timeouts : u # t => dt1[u] = dt[u]
  <2>1. dt1 = [u \in Timeouts |-> IF 1 < n /\ u = list[1 + 1] THEN dt0[u] + dt0[t] ELSE dt0[u]]
    BY <1>6, SMT DEF remove_timeout, n
  <2>2. /\ dt0[t] = 0
        /\ \A u \in Timeouts : dt0[u] \in Nat /\ (u # t => dt0[u] = dt[u])
    BY <1>1, <1>7, Zenon
  <2> HIDE DEF dt0, dt1
  <2> QED BY <2>1, <2>2
<1> HIDE DEF due1, dt0, dt1
<1>11. \A j \in 1 .. n - 1 : /\ j + 1 \in 1 .. n /\ r[j] = list[j + 1]
                             /\ r[j] \in Timeouts /\ r[j] # t
  <2>1. \A j \in 1 .. n - 1 : j + 1 \in 1 .. n /\ j + 1 # 1
    BY <1>2
  <2> QED BY <1>2, <1>3, <1>4, <1>5, <2>1, Zenon
<1>12. \A j \in 1 .. n - 1 : due1[r[j]] = when[r[j]] /\ dt1[r[j]] = dt[r[j]]
  BY <1>9, <1>10, <1>11, Zenon
<1>13. NoDuplicates(r)
  <2>1. \A j, k \in 1 .. n - 1 : j + 1 = k + 1 => j = k
    BY <1>2
  <2> QED BY <1>4, <1>5, <1>11, <2>1, SMT DEF NoDuplicates
<1>14. InPriorityOrder(r, due1)
  <2>1. \A j, k \in 1 .. n - 1 : j < k => j + 1 < k + 1
    BY <1>2
  <2>2. \A j, k \in 1 .. n - 1 : j < k => when[r[j]] <= when[r[k]]
    BY <1>1, <1>11, <2>1, Zenon DEF InPriorityOrder, n
  <2> QED BY <1>4, <1>12, <2>2, Zenon DEF InPriorityOrder
<1>15. ASSUME NEW j \in 1 .. n - 1
       PROVE  dt1[r[j]] = due1[r[j]] - (IF j = 1 THEN tick + dt[t] ELSE due1[r[j - 1]])
  <2>1. j + 1 \in 1 .. n /\ j + 1 # 1 /\ (j + 1) - 1 = j
    BY <1>2
  <2>2. dt[list[j + 1]] = when[list[j + 1]] - when[list[j]]
    BY <1>1, <2>1, Zenon DEF n
  <2>3. CASE j = 1
    BY <1>2, <1>7, <1>11, <1>12, <2>2, <2>3, Zenon
  <2>4. CASE j # 1
    <3>1. j - 1 \in 1 .. n - 1 /\ (j - 1) + 1 = j
      BY <1>2, <2>4
    <3>2. due1[r[j - 1]] = when[list[j]]
      BY <1>11, <1>12, <3>1, Zenon
    <3> QED BY <1>11, <1>12, <2>2, <2>4, <3>2, Zenon
  <2> QED BY <2>3, <2>4, Zenon
<1>16. tick + dt[t] \in Int
  BY <1>1, <1>7
<1>17. Deltas(r, dt1, tick + dt[t], due1)
  BY <1>4, <1>9, <1>10, <1>13, <1>14, <1>15, <1>16, Zenon DEF Deltas
<1> QED BY <1>7, <1>8, <1>17, Zenon DEF n, t, r, due1, dt0, dt1

\* Moving curr_tick on, not past the first timeout, and taking the ticks from
\* that one keeps every node's expiry.
LEMMA AdvanceDeltas ==
    ASSUME NEW list, NEW dt, NEW tick, NEW when, Deltas(list, dt, tick, when),
           NEW ticks \in Int, list # <<>> => dt[Head(list)] >= ticks
    PROVE  Deltas(list, IF list = <<>> THEN dt ELSE [dt EXCEPT ![Head(list)] = @ - ticks],
                  tick + ticks, when)
<1>1. /\ list \in Seq(Timeouts) /\ dt \in [Timeouts -> Nat] /\ tick \in Int
      /\ when \in [Timeouts -> Int] /\ NoDuplicates(list) /\ InPriorityOrder(list, when)
      /\ \A j \in 1 .. Len(list) :
            dt[list[j]] = when[list[j]] - (IF j = 1 THEN tick ELSE when[list[j - 1]])
  BY Zenon DEF Deltas
<1>2. CASE list = <<>>
  <2>1. 1 .. Len(list) = {} /\ tick + ticks \in Int
    BY <1>1, <1>2
  <2> QED BY <1>1, <1>2, <2>1, Zenon DEF Deltas
<1>3. CASE list # <<>>
  <2> DEFINE t == Head(list)
             n == Len(list)
             dt1 == [dt EXCEPT ![t] = @ - ticks]
  <2>1. n \in Nat /\ 1 \in 1 .. n /\ t = list[1] /\ t \in Timeouts
    BY <1>1, <1>3
  <2>2. /\ dt1 \in [Timeouts -> Nat] /\ dt1[t] = dt[t] - ticks
        /\ \A u \in Timeouts : u # t => dt1[u] = dt[u]
    BY <1>1, <1>3, <2>1
  <2> HIDE DEF t, n, dt1
  <2>3. ASSUME NEW j \in 1 .. n
        PROVE  dt1[list[j]] = when[list[j]] - (IF j = 1 THEN tick + ticks ELSE when[list[j - 1]])
    <3>1. CASE j = 1
      <4>1. dt[t] = when[t] - tick /\ when[t] \in Int
        BY <1>1, <2>1, Zenon DEF n
      <4> QED BY <1>1, <2>1, <2>2, <3>1, <4>1
    <3>2. CASE j # 1
      <4>1. list[j] \in Timeouts /\ list[j] # t
        BY <1>1, <2>1, <3>2 DEF NoDuplicates, n
      <4> QED BY <1>1, <2>2, <3>2, <4>1, Zenon DEF n
    <3> QED BY <3>1, <3>2, Zenon
  <2>4. tick + ticks \in Int
    BY <1>1
  <2>5. Deltas(list, dt1, tick + ticks, when)
    BY <1>1, <2>2, <2>3, <2>4, Zenon DEF Deltas, n
  <2> QED BY <1>3, <2>5, Zenon DEF dt1, t
<1> QED BY <1>2, <1>3, Zenon

-----------------------------------------------------------------------------
\* The inductive invariant for any number of CPUs.  Where several of them are
\* in the loop of sys_clock_announce() the ticks left to announce, and so
\* curr_tick, can be anything, but the list stays exact.
DeltaInv ==
    /\ Deltas(timeout_list, dticks, curr_tick, due)
    /\ announce_remaining \in Int /\ now \in Nat /\ announced \in 0 .. now
    /\ handling \in [Cpus -> [timeout : Timeouts \cup {NULL}, dt : Nat]]

\* What adding a timeout d ticks after curr_tick does.
LEMMA AddStep ==
    ASSUME Deltas(timeout_list, dticks, curr_tick, due), NEW t \in Timeouts, ~Linked(t),
           NEW d \in Int, d >= 0, AddTicks(t, d)
    PROVE  /\ Deltas(timeout_list', dticks', curr_tick', due')
           /\ \E i \in 1 .. Len(timeout_list) + 1 :
                 /\ timeout_list' = sys_dlist_insert(timeout_list, i, t)
                 /\ i <= Len(timeout_list) => curr_tick + d < due[timeout_list[i]]
                 /\ \A j \in 1 .. i - 1 : due[timeout_list[j]] <= curr_tick + d
           /\ due' = [due EXCEPT ![t] = curr_tick + d]
           /\ UNCHANGED <<curr_tick, announce_remaining, handling, now, announced>>
           /\ alarm' = IF Head(timeout_list') = t
                       THEN now + next_timeout(timeout_list', dticks', elapsed) ELSE alarm
<1> DEFINE i == AddPosition(d)
           own == d - (IF i = 1 THEN 0 ELSE due[timeout_list[i - 1]] - curr_tick)
           dt == [u \in Timeouts |->
                     IF u = t THEN own
                     ELSE IF i <= Len(timeout_list) /\ u = timeout_list[i] THEN dticks[u] - own
                     ELSE dticks[u]]
<1>1. /\ i \in 1 .. Len(timeout_list) + 1
      /\ i <= Len(timeout_list) => curr_tick + d < due[timeout_list[i]]
      /\ \A j \in 1 .. i - 1 : due[timeout_list[j]] <= curr_tick + d
      /\ TicksBefore[i - 1] = IF i = 1 THEN 0 ELSE due[timeout_list[i - 1]] - curr_tick
  BY AddPositionProperties, Zenon
<1>2. /\ timeout_list' = sys_dlist_insert(timeout_list, i, t)
      /\ dticks' = [u \in Timeouts |->
                       IF u = t THEN d - TicksBefore[i - 1]
                       ELSE IF i <= Len(timeout_list) /\ u = timeout_list[i]
                       THEN dticks[u] - (d - TicksBefore[i - 1]) ELSE dticks[u]]
      /\ due' = [due EXCEPT ![t] = curr_tick + d]
      /\ UNCHANGED <<curr_tick, announce_remaining, handling, now, announced>>
  BY Zenon DEF AddTicks, TicksOfNext, clock
<1>3. alarm' = IF Head(timeout_list') = t
               THEN now + next_timeout(timeout_list', dticks', elapsed) ELSE alarm
  BY Zenon DEF AddTicks
<1> HIDE DEF i
<1>4. dticks' = dt
  BY <1>1, <1>2, Zenon
<1>5. Deltas(sys_dlist_insert(timeout_list, i, t), dt, curr_tick,
             [due EXCEPT ![t] = curr_tick + d])
  BY <1>1, InsertDeltas, SMT DEF Linked
<1> HIDE DEF dt
<1>6. Deltas(timeout_list', dticks', curr_tick', due')
  BY <1>2, <1>4, <1>5, Zenon
<1> QED BY <1>1, <1>2, <1>3, <1>6, Zenon

\* What z_abort_timeout() does.
LEMMA AbortStep ==
    ASSUME Deltas(timeout_list, dticks, curr_tick, due), NEW t \in Timeouts,
           z_abort_timeout(t)
    PROVE  Deltas(timeout_list', dticks', curr_tick', due')
<1>1. Deltas(z_priq_dumb_remove(timeout_list, t), remove_timeout(timeout_list, dticks, t),
             curr_tick, [due EXCEPT ![t] = 0])
  BY RemoveDeltas, Zenon DEF z_abort_timeout, Linked
<1> QED BY <1>1, Zenon DEF z_abort_timeout

\* What a turn of the loop of sys_clock_announce() does: it starts the handler
\* of the first timeout, at the tick it is set for, or ends.
LEMMA LoopStep ==
    ASSUME Deltas(timeout_list, dticks, curr_tick, due), NEW c \in Cpus,
           NEW remaining \in Int, AnnounceLoop(c, remaining)
    PROVE  /\ Deltas(timeout_list', dticks', curr_tick', due')
           /\ \/ /\ AnnounceOne(c, remaining) /\ Expired(remaining)
                 /\ Head(timeout_list) \in Timeouts
                 /\ curr_tick' = due[Head(timeout_list)]
                 /\ \A i \in 1 .. Len(timeout_list) :
                       due[Head(timeout_list)] <= due[timeout_list[i]]
              \/ AnnounceEnd(c, remaining) /\ ~Expired(remaining)
<1>1. CASE Expired(remaining)
  <2> DEFINE t == Head(timeout_list)
  <2>1. AnnounceOne(c, remaining) /\ timeout_list # <<>>
    BY <1>1, Zenon DEF AnnounceLoop, Expired
  <2>2. /\ Deltas(Tail(timeout_list),
                  remove_timeout(timeout_list, [dticks EXCEPT ![t] = 0], t),
                  curr_tick + dticks[t], [due EXCEPT ![t] = 0])
        /\ t \in Timeouts /\ curr_tick + dticks[t] = due[t]
        /\ \A i \in 1 .. Len(timeout_list) : due[t] <= due[timeout_list[i]]
    BY <2>1, HeadDeltas, Zenon
  <2> QED BY <1>1, <2>1, <2>2, Zenon DEF AnnounceOne
<1>2. CASE ~Expired(remaining)
  <2>1. AnnounceEnd(c, remaining)
    BY <1>2, Zenon DEF AnnounceLoop
  <2>2. timeout_list # <<>> => dticks[Head(timeout_list)] >= remaining
    <3> HAVE timeout_list # <<>>
    <3>1. dticks[Head(timeout_list)] \in Nat
      BY DEF Deltas
    <3> QED BY <1>2, <3>1 DEF Expired
  <2>3. Deltas(timeout_list,
               IF timeout_list = <<>> THEN dticks
               ELSE [dticks EXCEPT ![Head(timeout_list)] = @ - remaining],
               curr_tick + remaining, due)
    BY <2>2, AdvanceDeltas, Zenon
  <2> QED BY <1>2, <2>1, <2>3, Zenon DEF AnnounceEnd
<1> QED BY <1>1, <1>2, Zenon

\* The delays a timeout is given are ticks from curr_tick, one or more of them.
LEMMA Delay ==
    ASSUME DeltaInv, NEW t \in Timeouts
    PROVE  /\ \A ticks \in Delays : z_add_timeout(t, ticks) =>
                 \E d \in Int : d >= 0 /\ ~Linked(t) /\ AddTicks(t, d)
           /\ \A tick \in Deadlines : AddAbsolute(t, tick) =>
                 \E d \in Int : d >= 0 /\ ~Linked(t) /\ AddTicks(t, d)
<1>1. elapsed \in Nat
  BY DEF DeltaInv, elapsed, sys_clock_elapsed
<1>2. ASSUME NEW ticks \in Delays, z_add_timeout(t, ticks)
      PROVE  \E d \in Int : d >= 0 /\ ~Linked(t) /\ AddTicks(t, d)
  <2>1. ticks + 1 + elapsed \in Int /\ ticks + 1 + elapsed >= 0
    BY <1>1, TimeoutAssumption
  <2> QED BY <1>2, <2>1, Zenon DEF z_add_timeout
<1>3. ASSUME NEW tick \in Deadlines, AddAbsolute(t, tick)
      PROVE  \E d \in Int : d >= 0 /\ ~Linked(t) /\ AddTicks(t, d)
  <2>1. MAX(1, tick - curr_tick) \in Int /\ MAX(1, tick - curr_tick) >= 0
    BY TimeoutAssumption DEF MAX, DeltaInv, Deltas
  <2> QED BY <1>3, <2>1, Zenon DEF AddAbsolute
<1> QED BY <1>2, <1>3, Zenon

\* timeout_list, curr_tick and announce_remaining start empty and zero.
LEMMA DeltaInitial == Init => DeltaInv
BY DEF Init, DeltaInv, Deltas, Idle, NoDuplicates, InPriorityOrder

\* Every step keeps the list exact, on any number of CPUs.
LEMMA DeltaInductive == DeltaInv /\ [Next]_vars => DeltaInv'
<1> SUFFICES ASSUME DeltaInv, [Next]_vars PROVE DeltaInv'
  BY Zenon
<1>1. /\ Deltas(timeout_list, dticks, curr_tick, due) /\ announce_remaining \in Int
      /\ now \in Nat /\ announced \in 0 .. now
      /\ handling \in [Cpus -> [timeout : Timeouts \cup {NULL}, dt : Nat]]
  BY Zenon DEF DeltaInv
<1>2. ASSUME NEW t \in Timeouts, NEW d \in Int, d >= 0, ~Linked(t), AddTicks(t, d)
      PROVE  DeltaInv'
  BY <1>1, <1>2, AddStep, Zenon DEF DeltaInv
<1>3. ASSUME NEW t \in Timeouts, z_abort_timeout(t) PROVE DeltaInv'
  BY <1>1, <1>3, AbortStep, Zenon DEF DeltaInv, z_abort_timeout, clock
<1>4. ASSUME NEW c \in Cpus, NEW remaining \in Int, AnnounceLoop(c, remaining),
             now' = now, announced' \in 0 .. now
      PROVE  DeltaInv'
  <2>1. Deltas(timeout_list', dticks', curr_tick', due')
    BY <1>1, <1>4, LoopStep, Zenon
  <2>2. /\ announce_remaining' \in Int
        /\ handling' \in [Cpus -> [timeout : Timeouts \cup {NULL}, dt : Nat]]
    <3>1. CASE AnnounceOne(c, remaining) /\ Head(timeout_list) \in Timeouts
      <4>1. dticks[Head(timeout_list)] \in Nat
        BY <1>1, <3>1, Zenon DEF Deltas
      <4> QED BY <1>1, <1>4, <3>1, <4>1, Zenon DEF AnnounceOne
    <3>2. CASE AnnounceEnd(c, remaining)
      BY <1>1, <3>2 DEF AnnounceEnd, Idle
    <3> QED BY <1>1, <1>4, <3>1, <3>2, LoopStep, Zenon
  <2> QED BY <1>1, <1>4, <2>1, <2>2, Zenon DEF DeltaInv
<1>5. ASSUME NEW c \in Cpus, sys_clock_announce(c) PROVE DeltaInv'
  <2>1. /\ now' = now /\ announced' = now
        /\ \/ /\ announce_remaining' = announce_remaining + sys_clock_elapsed
              /\ UNCHANGED <<timeout_list, dticks, curr_tick, handling, due>>
           \/ AnnounceLoop(c, sys_clock_elapsed)
    BY <1>5, Zenon DEF sys_clock_announce
  <2>2. sys_clock_elapsed \in Int /\ now \in 0 .. now
    BY <1>1 DEF sys_clock_elapsed
  <2>3. CASE /\ announce_remaining' = announce_remaining + sys_clock_elapsed
             /\ UNCHANGED <<timeout_list, dticks, curr_tick, handling, due>>
    <3>1. announce_remaining' \in Int
      BY <1>1, <2>2, <2>3
    <3> QED BY <1>1, <2>1, <2>2, <2>3, <3>1, Zenon DEF DeltaInv
  <2>4. CASE AnnounceLoop(c, sys_clock_elapsed)
    BY <1>4, <2>1, <2>2, <2>4, Zenon
  <2> QED BY <2>1, <2>3, <2>4, Zenon
<1>6. ASSUME NEW c \in Cpus, HandlerReturns(c) PROVE DeltaInv'
  <2>1. announce_remaining - handling[c].dt \in Int
    BY <1>1
  <2> QED BY <1>1, <1>4, <1>6, <2>1, Zenon DEF HandlerReturns, clock
<1>7. CASE Tick
  <2>1. now + 1 \in Nat /\ announced \in 0 .. now + 1
    BY <1>1
  <2> QED BY <1>1, <1>7, <2>1, Zenon DEF DeltaInv, Tick
<1>8. CASE UNCHANGED vars
  BY <1>1, <1>8, Zenon DEF DeltaInv, vars, clock
<1> QED BY <1>2, <1>3, <1>5, <1>6, <1>7, <1>8, Delay, Zenon DEF Next

\* The list of timeouts is exact in every reachable state, on any number of
\* CPUs, whatever is added, aborted and announced from inside handlers.
THEOREM TimeoutInvariant == Spec => []DeltaInv
BY DeltaInitial, DeltaInductive, PTL DEF Spec

\* However timeouts are added, aborted and announced, on any number of CPUs and
\* from inside handlers too, the deltas add up to each timeout's own expiry.
THEOREM TimeoutDeltasExact == Spec => []DeltasExact
<1>1. DeltaInv => DeltasExact
  <2> SUFFICES ASSUME DeltaInv, NEW i \in DOMAIN timeout_list
               PROVE  curr_tick + TicksBefore[i] = due[timeout_list[i]]
    BY Zenon DEF DeltasExact
  <2>1. Deltas(timeout_list, dticks, curr_tick, due)
    BY Zenon DEF DeltaInv
  <2>2. /\ i \in 0 .. Len(timeout_list) /\ i # 0
        /\ curr_tick \in Int /\ due[timeout_list[i]] \in Int
    BY <2>1 DEF Deltas
  <2>3. TicksBefore[i] = due[timeout_list[i]] - curr_tick
    BY <2>1, <2>2, TicksBeforeSum, Zenon
  <2> QED BY <2>2, <2>3
<1> QED BY <1>1, TimeoutInvariant, PTL

\* A timeout that z_add_timeout() links goes behind those due no later and in
\* front of the others.
LEMMA AddedBehind ==
    ASSUME Deltas(timeout_list, dticks, curr_tick, due), NEW t \in Timeouts, ~Linked(t),
           NEW d \in Int, d >= 0, AddTicks(t, d), NEW u \in Timeouts, Linked(u)
    PROVE  IndexOf(timeout_list', t) < IndexOf(timeout_list', u) <=> due'[t] < due[u]
<1> DEFINE n == Len(timeout_list)
<1>1. PICK i \in 1 .. n + 1 :
          /\ timeout_list' = sys_dlist_insert(timeout_list, i, t)
          /\ i <= n => curr_tick + d < due[timeout_list[i]]
          /\ \A j \in 1 .. i - 1 : due[timeout_list[j]] <= curr_tick + d
  BY AddStep, Zenon
<1>2. PICK j \in 1 .. n : timeout_list[j] = u
  BY Zenon DEF Linked, OnQueue
<1>3. /\ n \in Nat /\ curr_tick \in Int /\ due \in [Timeouts -> Int]
      /\ \A k \in 1 .. n : timeout_list[k] \in Timeouts
      /\ InPriorityOrder(timeout_list, due)
  BY DEF Deltas
<1>4. due'[t] = curr_tick + d
  <2>1. due' = [due EXCEPT ![t] = curr_tick + d]
    BY AddStep, Zenon
  <2> QED BY <1>3, <2>1, Zenon
<1>5. /\ timeout_list' \in Seq(Timeouts) /\ Len(timeout_list') = n + 1
      /\ NoDuplicates(timeout_list')
  <2>1. timeout_list \in Seq(Timeouts) /\ NoDuplicates(timeout_list)
    BY Zenon DEF Deltas
  <2> QED BY <1>1, <2>1, InsertProperties, Zenon DEF Linked
<1>6. \A k \in 1 .. n + 1 : /\ k < i => timeout_list'[k] = timeout_list[k]
                            /\ k = i => timeout_list'[k] = t
                            /\ k > i => timeout_list'[k] = timeout_list[k - 1]
  BY <1>1, <1>3 DEF sys_dlist_insert
<1>7. IndexOf(timeout_list', t) = i
  BY <1>5, <1>6, PlaceOnList, Zenon
<1> HIDE DEF n
<1>8. CASE j < i
  <2>1. j \in 1 .. n + 1 /\ j \in 1 .. i - 1 /\ timeout_list'[j] = u
    BY <1>2, <1>3, <1>6, <1>8
  <2>2. IndexOf(timeout_list', u) = j
    BY <1>5, <2>1, PlaceOnList, Zenon
  <2>3. due[u] <= curr_tick + d /\ due[u] \in Int
    BY <1>1, <1>2, <1>3, <2>1, Zenon
  <2> QED BY <1>3, <1>4, <1>7, <1>8, <2>2, <2>3
<1>9. CASE j >= i
  <2>1. j + 1 \in 1 .. n + 1 /\ timeout_list'[j + 1] = u /\ i \in 1 .. n /\ i < j + 1
    <3>1. j + 1 \in 1 .. n + 1 /\ j + 1 > i /\ (j + 1) - 1 = j /\ i \in 1 .. n
      BY <1>3, <1>9
    <3> QED BY <1>2, <1>3, <1>6, <1>9, <3>1, Zenon
  <2>2. IndexOf(timeout_list', u) = j + 1
    BY <1>5, <2>1, PlaceOnList, Zenon
  <2>3. curr_tick + d < due[timeout_list[i]] /\ due[timeout_list[i]] \in Int /\ due[u] \in Int
    BY <1>1, <1>3, <2>1
  <2>4. due[timeout_list[i]] <= due[u]
    <3>1. CASE i = j
      BY <1>2, <2>3, <3>1
    <3>2. CASE i # j
      <4>1. i < j
        BY <1>3, <1>9, <3>2
      <4> QED BY <1>2, <1>3, <2>1, <4>1, Zenon DEF InPriorityOrder, n
    <3> QED BY <3>1, <3>2, Zenon
  <2>5. due'[t] < due[u]
    BY <1>3, <1>4, <2>3, <2>4
  <2> QED BY <1>7, <2>1, <2>2, <2>5, Zenon
<1> QED BY <1>3, <1>8, <1>9

\* Only z_add_timeout() links a timeout.
LEMMA OnlyAddLinks ==
    ASSUME DeltaInv, [Next]_vars, NEW t \in Timeouts, ~Linked(t), Linked(t)'
    PROVE  \E d \in Int : d >= 0 /\ AddTicks(t, d)
<1>1. Deltas(timeout_list, dticks, curr_tick, due) /\ timeout_list \in Seq(Timeouts)
  BY Zenon DEF DeltaInv, Deltas
<1>2. timeout_list' # timeout_list
  BY Zenon DEF Linked
<1>3. ASSUME NEW u \in Timeouts, NEW d \in Int, d >= 0, ~Linked(u), AddTicks(u, d)
      PROVE  u = t
  <2>1. PICK i \in 1 .. Len(timeout_list) + 1 :
            timeout_list' = sys_dlist_insert(timeout_list, i, u)
    BY <1>1, <1>3, AddStep, Zenon
  <2>2. NoDuplicates(timeout_list)
    BY <1>1, Zenon DEF Deltas
  <2> QED BY <1>1, <1>3, <2>1, <2>2, InsertProperties, Zenon DEF Linked
<1>4. ASSUME NEW u \in Timeouts PROVE ~z_abort_timeout(u)
  <2> SUFFICES ASSUME z_abort_timeout(u) PROVE FALSE
    BY Zenon
  <2>1. timeout_list' = z_priq_dumb_remove(timeout_list, u) /\ OnQueue(timeout_list, u)
    BY Zenon DEF z_abort_timeout, Linked
  <2>2. NoDuplicates(timeout_list)
    BY <1>1, Zenon DEF Deltas
  <2> QED BY <1>1, <2>1, <2>2, RemoveProperties, Zenon DEF Linked
<1>5. ASSUME NEW c \in Cpus, NEW remaining PROVE ~AnnounceLoop(c, remaining)
  <2>1. ~AnnounceEnd(c, remaining)
    BY <1>2, Zenon DEF AnnounceEnd
  <2>2. ~(AnnounceOne(c, remaining) /\ Expired(remaining))
    <3> SUFFICES ASSUME timeout_list' = Tail(timeout_list), timeout_list # <<>> PROVE FALSE
      BY Zenon DEF AnnounceOne, Expired
    <3>1. PICK j \in 1 .. Len(timeout_list') : timeout_list'[j] = t
      BY Zenon DEF Linked, OnQueue
    <3>2. j + 1 \in 1 .. Len(timeout_list) /\ timeout_list[j + 1] = t
      BY <1>1, <3>1
    <3> QED BY <3>2, Zenon DEF Linked, OnQueue
  <2> QED BY <2>1, <2>2, Zenon DEF AnnounceLoop
<1>6. ASSUME NEW c \in Cpus PROVE ~sys_clock_announce(c) /\ ~HandlerReturns(c)
  BY <1>2, <1>5, Zenon DEF sys_clock_announce, HandlerReturns
<1>7. ~Tick /\ ~UNCHANGED vars
  BY <1>2, Zenon DEF Tick, vars
<1>8. PICK u \in Timeouts : \/ \E d \in Delays : z_add_timeout(u, d)
                            \/ \E d \in Deadlines : AddAbsolute(u, d)
  BY <1>4, <1>6, <1>7, Zenon DEF Next
<1> QED BY <1>3, <1>8, Delay, Zenon

\* z_add_timeout() keeps the order in which timeouts of one tick were set, on
\* any number of CPUs.
THEOREM TimeoutAddedInOrder == Spec => AddedInOrder
<1>1. ASSUME DeltaInv, [Next]_vars, NEW t \in Timeouts, NEW u \in Timeouts,
             ~Linked(t), Linked(t)', Linked(u)
      PROVE  IndexOf(timeout_list', t) < IndexOf(timeout_list', u) <=> due'[t] < due[u]
  <2>1. PICK d \in Int : d >= 0 /\ AddTicks(t, d)
    BY <1>1, OnlyAddLinks, Zenon
  <2>2. Deltas(timeout_list, dticks, curr_tick, due)
    BY <1>1, Zenon DEF DeltaInv
  <2> QED BY <1>1, <2>1, <2>2, AddedBehind, Zenon
<1>2. DeltaInv /\ [Next]_vars =>
      [\A t, u \in Timeouts : ~Linked(t) /\ Linked(t)' /\ Linked(u) =>
          (IndexOf(timeout_list', t) < IndexOf(timeout_list', u) <=> due'[t] < due[u])]_vars
  BY <1>1, Zenon
<1> QED BY <1>2, TimeoutInvariant, PTL DEF Spec, AddedInOrder

-----------------------------------------------------------------------------
\* The inductive invariant for one CPU: the ticks left to announce are never
\* fewer than those of the timeout being handled, and with no handler running
\* there are none.
ClockInv ==
    /\ DeltaInv /\ TypeOK /\ ClockExact /\ AlarmInTime
    /\ \A c \in Cpus : /\ handling[c].dt <= announce_remaining
                       /\ handling[c] = Idle => announce_remaining = 0

\* With one CPU that is not in the loop of sys_clock_announce(), curr_tick is
\* what the driver announced.
LEMMA QuietClock ==
    ASSUME ~SMP, ClockInv, ~Announcing
    PROVE  announce_remaining = 0 /\ curr_tick = announced
<1>1. PICK c \in Cpus : TRUE
  BY TimeoutAssumption, Zenon
<1>2. handling[c] = Idle /\ announce_remaining = 0
  BY Zenon DEF Announcing, ClockInv
<1>3. curr_tick + announce_remaining - handling[c].dt = announced
  BY Zenon DEF ClockInv, ClockExact
<1>4. handling[c].dt = 0
  BY <1>2 DEF Idle
<1>5. curr_tick \in Nat /\ announced \in Int
  BY DEF ClockInv, TypeOK
<1> QED BY <1>2, <1>3, <1>4, <1>5

\* next_timeout() tells the driver when the first timeout is due, or that it
\* already is.
LEMMA NextTimeout ==
    ASSUME NEW list, NEW dt, NEW tick, NEW when, Deltas(list, dt, tick, when),
           NEW time \in Int
    PROVE  /\ list # <<>> => time + next_timeout(list, dt, time - tick) = MAX(time, when[Head(list)])
           /\ \A e \in Int : next_timeout(list, dt, e) \in Nat
<1>1. tick \in Int /\ MAX_WAIT \in Nat
  BY TimeoutAssumption, Zenon DEF Deltas
<1>2. CASE list = <<>>
  BY <1>1, <1>2, Zenon DEF next_timeout
<1>3. CASE list # <<>>
  <2> DEFINE t == Head(list)
  <2>1. dt[t] = when[t] - tick /\ when[t] \in Int /\ dt[t] \in Nat
    <3>1. 1 \in 1 .. Len(list) /\ t = list[1] /\ t \in Timeouts
      BY <1>3 DEF Deltas
    <3>2. dt[list[1]] = when[list[1]] - tick
      BY <3>1, Zenon DEF Deltas
    <3>3. dt \in [Timeouts -> Nat] /\ when \in [Timeouts -> Int]
      BY Zenon DEF Deltas
    <3> HIDE DEF t
    <3> QED BY <3>1, <3>2, <3>3, Zenon
  <2>2. \A e : next_timeout(list, dt, e) = MAX(0, dt[t] - e)
    BY <1>3, Zenon DEF next_timeout
  <2> HIDE DEF t
  <2>3. time + MAX(0, dt[t] - (time - tick)) = MAX(time, when[t])
    BY <1>1, <2>1 DEF MAX
  <2>4. \A e \in Int : MAX(0, dt[t] - e) \in Nat
    BY <2>1 DEF MAX
  <2> QED BY <1>3, <2>2, <2>3, <2>4, Zenon DEF t
<1> QED BY <1>2, <1>3, Zenon

\* ... and so does the clock, with no handler running.
LEMMA ClockInitial == ~SMP /\ Init => ClockInv
<1> SUFFICES ASSUME Init PROVE ClockInv
  BY Zenon
<1>1. DeltaInv
  BY DeltaInitial, Zenon
<1>2. TypeOK /\ AlarmInTime
  BY TimeoutAssumption DEF Init, TypeOK, AlarmInTime, Idle
<1>3. \A c \in Cpus : handling[c].dt = 0
  BY Zenon DEF Init, Idle
<1>4. ClockExact /\ \A c \in Cpus : handling[c].dt <= announce_remaining
  BY <1>3 DEF Init, ClockExact
<1>5. announce_remaining = 0
  BY Zenon DEF Init
<1> QED BY <1>1, <1>2, <1>4, <1>5, Zenon DEF ClockInv

\* Adding a timeout keeps the clock exact and, where it is the first now, sets
\* the alarm for it.
LEMMA ClockAdd ==
    ASSUME ~SMP, ClockInv, DeltaInv', NEW t \in Timeouts, ~Linked(t),
           NEW d \in Int, d >= 0, AddTicks(t, d)
    PROVE  ClockInv'
<1>1. /\ Deltas(timeout_list, dticks, curr_tick, due)
      /\ Deltas(timeout_list', dticks', curr_tick', due')
  BY Zenon DEF ClockInv, DeltaInv
<1>2. /\ due' = [due EXCEPT ![t] = curr_tick + d]
      /\ UNCHANGED <<curr_tick, announce_remaining, handling, now, announced>>
      /\ alarm' = IF Head(timeout_list') = t
                  THEN now + next_timeout(timeout_list', dticks', elapsed) ELSE alarm
  BY <1>1, AddStep, Zenon
<1>3. PICK i \in 1 .. Len(timeout_list) + 1 :
          timeout_list' = sys_dlist_insert(timeout_list, i, t)
  BY <1>1, AddStep, Zenon
<1>4. /\ curr_tick \in Nat /\ due \in [Timeouts -> Nat] /\ now \in Nat /\ announced \in Nat
      /\ alarm \in Nat /\ announce_remaining \in Nat
  BY DEF ClockInv, TypeOK
<1>5. TypeOK'
  <2>1. due' \in [Timeouts -> Nat]
    BY <1>2, <1>4
  <2>2. alarm' \in Nat
    <3>1. elapsed \in Int
      BY <1>4 DEF elapsed, sys_clock_elapsed
    <3>2. next_timeout(timeout_list', dticks', elapsed) \in Nat
      BY <1>1, <1>4, <3>1, NextTimeout, Zenon
    <3>3. now + next_timeout(timeout_list', dticks', elapsed) \in Nat
      BY <1>4, <3>2
    <3> QED BY <1>2, <1>4, <3>3, Zenon
  <2>3. timeout_list' \in Seq(Timeouts) /\ dticks' \in [Timeouts -> Nat]
    BY <1>1, Zenon DEF Deltas
  <2> QED BY <1>2, <2>1, <2>2, <2>3, Zenon DEF ClockInv, TypeOK
<1>6. AlarmInTime'
  <2> SUFFICES ASSUME ~Announcing, timeout_list' # <<>>
               PROVE  alarm' <= MAX(now, due'[Head(timeout_list')])
    BY <1>2, Zenon DEF AlarmInTime, Announcing
  <2>1. elapsed = now - curr_tick
    BY QuietClock, Zenon DEF elapsed, sys_clock_elapsed
  <2>2. now + next_timeout(timeout_list', dticks', elapsed) = MAX(now, due'[Head(timeout_list')])
    <3>1. Deltas(timeout_list', dticks', curr_tick, due') /\ now \in Int
      BY <1>1, <1>2, <1>4
    <3>2. now + next_timeout(timeout_list', dticks', now - curr_tick)
             = MAX(now, due'[Head(timeout_list')])
      BY <3>1, NextTimeout, SMT
    <3> QED BY <2>1, <3>2, Zenon
  <2>3. due'[Head(timeout_list')] \in Int
    <3>1. timeout_list' \in Seq(Timeouts) /\ due' \in [Timeouts -> Int]
      BY <1>1, Zenon DEF Deltas
    <3> QED BY <3>1
  <2>4. CASE Head(timeout_list') = t
    BY <1>2, <1>4, <2>2, <2>3, <2>4 DEF MAX
  <2>5. CASE Head(timeout_list') # t
    <3>1. timeout_list # <<>> /\ Head(timeout_list') = Head(timeout_list)
      <4>1. timeout_list \in Seq(Timeouts)
        BY <1>1, Zenon DEF Deltas
      <4>2. i # 1 /\ Head(timeout_list') = timeout_list'[1]
        BY <1>3, <2>5, <4>1 DEF sys_dlist_insert
      <4> QED BY <1>3, <4>1, <4>2 DEF sys_dlist_insert
    <3>2. Head(timeout_list) \in Timeouts
      BY <1>1, <3>1 DEF Deltas
    <3>3. due'[Head(timeout_list)] = due[Head(timeout_list)]
      BY <1>2, <1>4, <2>5, <3>1, <3>2, Zenon
    <3> QED BY <1>2, <2>5, <3>1, <3>3, Zenon DEF ClockInv, AlarmInTime
  <2> QED BY <2>4, <2>5, Zenon
<1> QED BY <1>2, <1>5, <1>6, Zenon DEF ClockInv, ClockExact

\* Aborting a timeout leaves the alarm too early at worst.
LEMMA ClockAbort ==
    ASSUME ClockInv, DeltaInv', NEW t \in Timeouts, z_abort_timeout(t)
    PROVE  ClockInv'
<1>1. /\ OnQueue(timeout_list, t) /\ due' = [due EXCEPT ![t] = 0]
      /\ timeout_list' = z_priq_dumb_remove(timeout_list, t)
      /\ UNCHANGED <<curr_tick, announce_remaining, handling, now, announced, alarm>>
  BY Zenon DEF z_abort_timeout, Linked, clock
<1>2. /\ timeout_list \in Seq(Timeouts) /\ NoDuplicates(timeout_list)
      /\ InPriorityOrder(timeout_list, due)
      /\ timeout_list' \in Seq(Timeouts) /\ dticks' \in [Timeouts -> Nat]
  BY Zenon DEF ClockInv, DeltaInv, Deltas
<1>3. due \in [Timeouts -> Nat] /\ now \in Nat /\ alarm \in Nat
  BY DEF ClockInv, TypeOK
<1>4. TypeOK'
  <2>1. due' \in [Timeouts -> Nat]
    BY <1>1, <1>3, Zenon
  <2> QED BY <1>1, <1>2, <2>1, Zenon DEF ClockInv, TypeOK
<1>5. AlarmInTime'
  <2> SUFFICES ASSUME ~Announcing, timeout_list' # <<>>
               PROVE  alarm <= MAX(now, due'[Head(timeout_list')])
    BY <1>1, Zenon DEF AlarmInTime, Announcing
  <2> DEFINE u == Head(timeout_list')
  <2>1. OnQueue(timeout_list', u)
    <3>1. 1 \in 1 .. Len(timeout_list') /\ u = timeout_list'[1]
      BY <1>2
    <3> QED BY <3>1, Zenon DEF OnQueue
  <2>2. OnQueue(timeout_list, u) /\ u # t
    BY <1>1, <1>2, <2>1, RemoveProperties, Zenon
  <2> HIDE DEF u
  <2>3. PICK j \in 1 .. Len(timeout_list) : timeout_list[j] = u
    BY <2>2, Zenon DEF OnQueue
  <2>4. /\ timeout_list # <<>> /\ Head(timeout_list) = timeout_list[1]
        /\ 1 \in 1 .. Len(timeout_list) /\ timeout_list[1] \in Timeouts /\ u \in Timeouts
    BY <1>2, <2>3
  <2>5. due[u] \in Int /\ due[timeout_list[1]] \in Int /\ due'[u] = due[u]
    BY <1>1, <1>3, <2>2, <2>4
  <2>6. due[timeout_list[1]] <= due[u]
    <3>1. CASE j = 1
      BY <2>3, <2>5, <3>1
    <3>2. CASE j # 1
      <4>1. 1 < j
        BY <1>2, <3>2
      <4> QED BY <1>2, <2>3, <2>4, <4>1, Zenon DEF InPriorityOrder
    <3> QED BY <3>1, <3>2, Zenon
  <2>7. alarm <= MAX(now, due[timeout_list[1]])
    BY <2>4, Zenon DEF ClockInv, AlarmInTime
  <2>8. alarm <= MAX(now, due'[u])
    BY <1>3, <2>5, <2>6, <2>7 DEF MAX
  <2> QED BY <2>8, Zenon DEF u
<1> QED BY <1>1, <1>4, <1>5, Zenon DEF ClockInv, ClockExact

\* A turn of the loop of sys_clock_announce() on the one CPU takes the ticks of
\* the timeout it handles from those announced, or ends the announcement and
\* sets the alarm.
LEMMA ClockLoop ==
    ASSUME ~SMP, ClockInv, DeltaInv', NEW c \in Cpus, NEW remaining \in Nat,
           AnnounceLoop(c, remaining), now' = now, announced' \in 0 .. now,
           curr_tick + remaining = announced'
    PROVE  ClockInv'
<1>1. /\ Deltas(timeout_list, dticks, curr_tick, due)
      /\ Deltas(timeout_list', dticks', curr_tick', due')
  BY Zenon DEF ClockInv, DeltaInv
<1>2. /\ curr_tick \in Nat /\ due \in [Timeouts -> Nat] /\ dticks \in [Timeouts -> Nat]
      /\ now \in Nat /\ announced' \in Nat /\ now \in 0 .. MaxNow
      /\ alarm \in Nat /\ handling \in [Cpus -> [timeout : Timeouts \cup {NULL}, dt : Nat]]
  BY DEF ClockInv, TypeOK
<1>3. /\ timeout_list' \in Seq(Timeouts) /\ dticks' \in [Timeouts -> Nat]
      /\ handling' \in [Cpus -> [timeout : Timeouts \cup {NULL}, dt : Nat]]
  BY Zenon DEF DeltaInv, Deltas
<1>4. \A x \in Cpus : x = c
  BY Zenon DEF SMP
<1>5. CASE AnnounceOne(c, remaining) /\ Expired(remaining) /\ Head(timeout_list) \in Timeouts
  <2> DEFINE t == Head(timeout_list)
  <2>1. /\ curr_tick' = curr_tick + dticks[t] /\ due' = [due EXCEPT ![t] = 0]
        /\ handling' = [handling EXCEPT ![c] = [timeout |-> t, dt |-> dticks[t]]]
        /\ announce_remaining' = remaining /\ alarm' = alarm /\ dticks[t] <= remaining
        /\ t \in Timeouts
    BY <1>5, Zenon DEF AnnounceOne, Expired
  <2> HIDE DEF t
  <2>2. dticks[t] \in Nat
    BY <1>2, <2>1, Zenon
  <2>3. handling'[c].dt = dticks[t] /\ handling'[c] # Idle
    <3>1. handling'[c] = [timeout |-> t, dt |-> dticks[t]]
      BY <1>2, <2>1, Zenon
    <3>2. t # NULL
      BY <2>1, TimeoutAssumption, Zenon
    <3> QED BY <3>1, <3>2 DEF Idle
  <2>4. TypeOK'
    <3>1. due' \in [Timeouts -> Nat]
      BY <1>2, <2>1, Zenon
    <3>2. curr_tick' \in Nat /\ announce_remaining' \in Nat /\ alarm' \in Nat
      BY <1>2, <2>1, <2>2
    <3> QED BY <1>2, <1>3, <3>1, <3>2, Zenon DEF TypeOK
  <2>5. ClockExact'
    <3>1. curr_tick' + announce_remaining' - handling'[c].dt = announced'
      BY <1>2, <2>1, <2>2, <2>3, SMTT(40)
    <3> QED BY <1>4, <3>1, Zenon DEF ClockExact
  <2>6. AlarmInTime'
    BY <2>3, Zenon DEF AlarmInTime, Announcing
  <2> QED BY <1>4, <2>1, <2>3, <2>4, <2>5, <2>6, Zenon DEF ClockInv
<1>6. CASE AnnounceEnd(c, remaining)
  <2>1. /\ curr_tick' = curr_tick + remaining /\ announce_remaining' = 0
        /\ handling' = [handling EXCEPT ![c] = Idle] /\ due' = due
        /\ timeout_list' = timeout_list
        /\ alarm' = now + next_timeout(timeout_list, dticks', elapsed')
    BY <1>6, Zenon DEF AnnounceEnd
  <2>2. handling'[c].dt = 0
    BY <1>2, <2>1, Zenon DEF Idle
  <2>3. elapsed' = now - curr_tick' /\ curr_tick' \in Nat /\ curr_tick' = announced'
    BY <1>2, <2>1, Zenon DEF elapsed, sys_clock_elapsed
  <2>4. now \in Int /\ now - curr_tick' \in Int
    BY <1>2, <2>3
  <2>5. /\ next_timeout(timeout_list, dticks', elapsed') \in Nat
        /\ timeout_list # <<>> => alarm' = MAX(now, due'[Head(timeout_list)])
    <3>1. Deltas(timeout_list, dticks', curr_tick', due')
      BY <1>1, <2>1, Zenon
    <3>2. /\ timeout_list # <<>> => now + next_timeout(timeout_list, dticks', now - curr_tick')
                                       = MAX(now, due'[Head(timeout_list)])
          /\ next_timeout(timeout_list, dticks', now - curr_tick') \in Nat
      BY <2>4, <3>1, NextTimeout, SMT
    <3> QED BY <2>1, <2>3, <3>2, Zenon
  <2>6. TypeOK'
    <3>1. alarm' \in Nat /\ announce_remaining' \in Nat
      BY <1>2, <2>1, <2>5
    <3> QED BY <1>2, <1>3, <2>1, <2>3, <3>1, Zenon DEF TypeOK
  <2>7. ClockExact'
    <3>1. curr_tick' + announce_remaining' - handling'[c].dt = announced'
      BY <2>1, <2>2, <2>3
    <3> QED BY <1>4, <3>1, Zenon DEF ClockExact
  <2>8. AlarmInTime'
    <3>1. timeout_list # <<>> => alarm' <= MAX(now, due'[Head(timeout_list)])
      <4> HAVE timeout_list # <<>>
      <4>1. due'[Head(timeout_list)] \in Int
        BY <1>1, <2>1 DEF Deltas
      <4> QED BY <2>4, <2>5, <4>1 DEF MAX
    <3> QED BY <2>1, <3>1, Zenon DEF AlarmInTime
  <2>9. \A x \in Cpus : handling'[x].dt <= announce_remaining'
    BY <1>4, <2>1, <2>2
  <2> QED BY <2>1, <2>6, <2>7, <2>8, <2>9, Zenon DEF ClockInv
<1> QED BY <1>1, <1>5, <1>6, LoopStep

\* The loop of sys_clock_announce() goes on with what is left of the ticks the
\* driver announced.
LEMMA LoopTicks ==
    ASSUME ~SMP, ClockInv, NEW c \in Cpus, sys_clock_announce(c) \/ HandlerReturns(c)
    PROVE  \E remaining \in Nat :
              /\ AnnounceLoop(c, remaining) /\ now' = now /\ announced' \in 0 .. now
              /\ curr_tick + remaining = announced'
<1>1. /\ curr_tick \in Nat /\ announce_remaining \in Nat /\ now \in Nat
      /\ announced \in 0 .. now /\ handling[c].dt \in Nat
  BY DEF ClockInv, TypeOK
<1>2. CASE sys_clock_announce(c)
  <2>1. \A x \in Cpus : x = c
    BY Zenon DEF SMP
  <2>2. ~Announcing
    BY <1>2, <2>1, Zenon DEF Announcing, sys_clock_announce
  <2>3. curr_tick = announced
    BY <2>2, QuietClock, Zenon
  <2>4. AnnounceLoop(c, sys_clock_elapsed) /\ now' = now /\ announced' = now
    BY <1>2, Zenon DEF sys_clock_announce
  <2>5. sys_clock_elapsed \in Nat /\ now \in 0 .. now /\ curr_tick + sys_clock_elapsed = now
    BY <1>1, <2>3 DEF sys_clock_elapsed
  <2> QED BY <2>4, <2>5, Zenon
<1>3. CASE HandlerReturns(c)
  <2> DEFINE remaining == announce_remaining - handling[c].dt
  <2>1. AnnounceLoop(c, remaining) /\ now' = now /\ announced' = announced
    BY <1>3, Zenon DEF HandlerReturns, clock
  <2>2. /\ curr_tick + announce_remaining - handling[c].dt = announced
        /\ handling[c].dt <= announce_remaining
    BY Zenon DEF ClockInv, ClockExact
  <2>3. remaining \in Nat /\ curr_tick + remaining = announced
    BY <1>1, <2>2
  <2> QED BY <1>1, <2>1, <2>3, Zenon
<1> QED BY <1>2, <1>3, Zenon

\* Every step keeps the clock exact on one CPU.
LEMMA ClockInductive == ~SMP /\ ClockInv /\ [Next]_vars => ClockInv'
<1> SUFFICES ASSUME ~SMP, ClockInv, [Next]_vars PROVE ClockInv'
  BY Zenon
<1>1. DeltaInv /\ DeltaInv'
  BY DeltaInductive, Zenon DEF ClockInv
<1>2. ASSUME NEW t \in Timeouts, NEW d \in Int, d >= 0, ~Linked(t), AddTicks(t, d)
      PROVE  ClockInv'
  BY <1>1, <1>2, ClockAdd, Zenon
<1>3. ASSUME NEW t \in Timeouts, z_abort_timeout(t) PROVE ClockInv'
  BY <1>1, <1>3, ClockAbort, Zenon
<1>4. ASSUME NEW c \in Cpus, sys_clock_announce(c) \/ HandlerReturns(c) PROVE ClockInv'
  <2>1. PICK remaining \in Nat :
            /\ AnnounceLoop(c, remaining) /\ now' = now /\ announced' \in 0 .. now
            /\ curr_tick + remaining = announced'
    BY <1>4, LoopTicks, Zenon
  <2> QED BY <1>1, <2>1, ClockLoop, Zenon
<1>5. CASE Tick
  <2>1. /\ now < MaxNow /\ now' = now + 1
        /\ UNCHANGED <<timeout_list, dticks, curr_tick, announce_remaining, handling,
                       announced, alarm, due>>
    BY <1>5, Zenon DEF Tick
  <2>2. now \in 0 .. MaxNow /\ announced \in 0 .. now /\ alarm \in Nat
    BY Zenon DEF ClockInv, TypeOK
  <2>3. now' \in 0 .. MaxNow /\ announced' \in 0 .. now'
    BY <2>1, <2>2, TimeoutAssumption
  <2>4. TypeOK'
    BY <2>1, <2>3, Zenon DEF ClockInv, TypeOK
  <2>5. AlarmInTime'
    <3> SUFFICES ASSUME ~Announcing, timeout_list # <<>>
                 PROVE  alarm <= MAX(now', due[Head(timeout_list)])
      BY <2>1, Zenon DEF AlarmInTime, Announcing
    <3>1. alarm <= MAX(now, due[Head(timeout_list)])
      BY Zenon DEF ClockInv, AlarmInTime
    <3>2. due[Head(timeout_list)] \in Int
      BY <1>1 DEF DeltaInv, Deltas
    <3> QED BY <2>1, <2>2, <3>1, <3>2 DEF MAX
  <2> QED BY <1>1, <2>1, <2>4, <2>5, Zenon DEF ClockInv, ClockExact
<1>6. CASE UNCHANGED vars
  <2>1. UNCHANGED <<timeout_list, dticks, curr_tick, announce_remaining, handling, now,
                    announced, alarm, due>>
    BY <1>6, Zenon DEF vars, clock
  <2> QED BY <1>1, <2>1, Zenon DEF ClockInv, TypeOK, ClockExact, AlarmInTime, Announcing
<1> QED BY <1>1, <1>2, <1>3, <1>4, <1>5, <1>6, Delay, Zenon DEF Next

\* On one CPU the clock and the alarm are right in every reachable state.
THEOREM ClockInvariant == ASSUME ~SMP PROVE Spec => []ClockInv
BY ClockInitial, ClockInductive, PTL DEF Spec

\* On one CPU the ticks of a node, curr_tick and the ticks left to announce are
\* never negative, and the driver never announces more than it has counted.
THEOREM TimeoutTypeCorrect == ASSUME ~SMP PROVE Spec => []TypeOK
<1>1. ClockInv => TypeOK
  BY Zenon DEF ClockInv
<1> QED BY <1>1, ClockInvariant, PTL

\* On one CPU sys_clock_announce() loses no tick and counts none twice, whatever
\* the handlers it runs do.
THEOREM TimeoutClockExact == ASSUME ~SMP PROVE Spec => []ClockExact
<1>1. ClockInv => ClockExact
  BY Zenon DEF ClockInv
<1> QED BY <1>1, ClockInvariant, PTL

\* On one CPU the driver is never left to sleep past the first timeout.
THEOREM TimeoutAlarmInTime == ASSUME ~SMP PROVE Spec => []AlarmInTime
<1>1. ClockInv => AlarmInTime
  BY Zenon DEF ClockInv
<1> QED BY <1>1, ClockInvariant, PTL

\* Only the loop of sys_clock_announce() starts handlers.
LEMMA OnlyLoopHandles ==
    ASSUME DeltaInv, [Next]_vars, handling' # handling
    PROVE  \E c \in Cpus : sys_clock_announce(c) \/ HandlerReturns(c)
<1>1. \A t \in Timeouts : \A d : ~AddTicks(t, d) /\ ~z_abort_timeout(t)
  BY Zenon DEF AddTicks, z_abort_timeout
<1>2. ~Tick /\ ~UNCHANGED vars
  BY Zenon DEF Tick, vars
<1> QED BY <1>1, <1>2, Delay, Zenon DEF Next

\* On one CPU a handler runs at the tick its timeout was set for, not before
\* the hardware has counted it, and none that is due earlier is left.
THEOREM TimeoutExpiresWhenDue == ASSUME ~SMP PROVE Spec => ExpiresWhenDue
<1>1. ASSUME ~SMP, ClockInv, [Next]_vars, NEW c \in Cpus,
             handling'[c] # handling[c], handling'[c] # Idle
      PROVE  LET t == handling'[c].timeout
             IN  /\ curr_tick' = due[t] /\ due[t] <= now
                 /\ \A u \in Timeouts : Linked(u) => due[t] <= due[u]
  <2>1. DeltaInv /\ Deltas(timeout_list, dticks, curr_tick, due)
    BY <1>1, Zenon DEF ClockInv, DeltaInv
  <2>2. PICK x \in Cpus : sys_clock_announce(x) \/ HandlerReturns(x)
    BY <1>1, <2>1, OnlyLoopHandles, Zenon
  <2>3. x = c
    BY <1>1, Zenon DEF SMP
  <2>4. PICK remaining \in Nat :
            /\ AnnounceLoop(c, remaining) /\ announced' \in 0 .. now
            /\ curr_tick + remaining = announced'
    BY <1>1, <2>2, <2>3, LoopTicks, Zenon
  <2>5. /\ handling \in [Cpus -> [timeout : Timeouts \cup {NULL}, dt : Nat]]
        /\ curr_tick \in Nat /\ now \in Nat
    BY <1>1, <2>1, Zenon DEF ClockInv, DeltaInv, TypeOK
  <2>6. ~AnnounceEnd(c, remaining)
    BY <1>1, <2>5, Zenon DEF AnnounceEnd
  <2>7. remaining \in Int
    BY <2>4
  <2> DEFINE t == Head(timeout_list)
  <2>8. /\ AnnounceOne(c, remaining) /\ Expired(remaining) /\ t \in Timeouts
        /\ curr_tick' = due[t]
        /\ \A i \in 1 .. Len(timeout_list) : due[t] <= due[timeout_list[i]]
    BY <2>1, <2>4, <2>6, <2>7, LoopStep, Zenon
  <2>9. /\ handling' = [handling EXCEPT ![c] = [timeout |-> t, dt |-> dticks[t]]]
        /\ curr_tick' = curr_tick + dticks[t] /\ dticks[t] <= remaining
    BY <2>8, Zenon DEF AnnounceOne, Expired
  <2> HIDE DEF t
  <2>10. handling'[c].timeout = t
    BY <2>5, <2>9, Zenon
  <2>11. due[t] <= now
    <3>1. dticks[t] \in Nat
      BY <2>1, <2>8, Zenon DEF Deltas
    <3> QED BY <2>4, <2>5, <2>8, <2>9, <3>1
  <2>12. \A u \in Timeouts : Linked(u) => due[t] <= due[u]
    BY <2>8, Zenon DEF Linked, OnQueue
  <2> QED BY <2>8, <2>10, <2>11, <2>12, Zenon
<1>2. ~SMP /\ ClockInv /\ [Next]_vars =>
      [\A c \in Cpus : handling'[c] # handling[c] /\ handling'[c] # Idle =>
          LET t == handling'[c].timeout
          IN  /\ curr_tick' = due[t] /\ due[t] <= now
              /\ \A u \in Timeouts : Linked(u) => due[t] <= due[u]]_vars
  BY <1>1, Zenon
<1> QED BY <1>2, ClockInvariant, PTL DEF Spec, ExpiresWhenDue
=============================================================================
