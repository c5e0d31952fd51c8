--------------------------- MODULE CountingProofs ---------------------------
(***************************************************************************)
(* The two counters of the project, proved by counting finite sets: the    *)
(* tokens of a semaphore and the references of an on-off manager.  The two *)
(* share lemmas on finite sets and nothing else.                           *)
(*                                                                         *)
(* The semaphore on one CPU, for any number of threads, any priorities and *)
(* any limit: no token is lost or made up and nobody is stranded, whatever *)
(* gives, resets, timeouts and priority changes come in whatever order.    *)
(* The first part says whom the primitives of Pend give the semaphore, the *)
(* second what the semaphore does with them.                               *)
(*                                                                         *)
(* The on-off manager, for any number of clients: what its operations on   *)
(* lists do, that the calls of clients and of the service and the rounds   *)
(* of process_event() keep the invariant, and the properties of OnOff that *)
(* follow from it.                                                         *)
(***************************************************************************)
EXTENDS Sem, OnOff, PendProofs, FiniteSetTheorems

-----------------------------------------------------------------------------
(* The semaphore                                                           *)

\* threads that have been given the semaphore, if they are among the takers
GivenTo(s) ==
    {t \in Threads : s.pended_on[t] = NULL /\ s.waking # t /\ s.swap_retval[t] = "OK"}

\* the inductive invariant
SemInv ==
    /\ TypeOK /\ Sound(p) /\ TokensConserved
    /\ \A t \in Threads : t \notin p.ready => t \in taking
    /\ op = "none" => p.waking = NULL
    /\ op = "give" => p.waking # NULL
    /\ count > 0 => p.waitq[sem] = <<>>

\* A thread is pended on the semaphore's wait queue or on nothing.
LEMMA SemTypes ==
    ASSUME NEW s, Sound(s)
    PROVE  /\ sem \in Objects /\ sem # NULL
           /\ \A t \in Threads : s.pended_on[t] \in {sem, NULL}
BY SemAssumption, PendTypes, Zenon DEF Sound

\* A thread that goes to wait has been given nothing.
LEMMA PendGiven ==
    ASSUME NEW s, Sound(s), NEW t \in Threads, t \in s.ready, s.expired = NULL,
           NEW wait
    PROVE  LET r == z_pend_curr(s, t, sem, wait)
           IN  /\ Sound(r) /\ GivenTo(r) = GivenTo(s) \ {t}
               /\ r.ready = s.ready \ {t} /\ r.waking = s.waking
<1> DEFINE r == z_pend_curr(s, t, sem, wait)
<1>1. /\ Sound(r) /\ r.ready = s.ready \ {t} /\ r.waking = s.waking
      /\ \A u \in Threads :
            /\ r.pended_on[u] = IF u = t THEN sem ELSE s.pended_on[u]
            /\ r.swap_retval[u] = IF u = t THEN "EAGAIN" ELSE s.swap_retval[u]
  BY SemTypes, PendSound
<1> HIDE DEF r
<1>2. GivenTo(r) = GivenTo(s) \ {t}
  BY <1>1, SemTypes DEF GivenTo
<1> QED BY <1>1, <1>2, Zenon DEF r

\* The thread that is being woken has been given nothing yet.
LEMMA UnpendGiven ==
    ASSUME NEW s, Sound(s), s.waking = NULL, s.waitq[sem] # <<>>
    PROVE  LET r == z_unpend_first_thread(s, sem)
           IN  /\ Sound(r) /\ GivenTo(r) = GivenTo(s)
               /\ r.ready = s.ready /\ r.waking # NULL
<1> DEFINE r == z_unpend_first_thread(s, sem)
           t == z_priq_dumb_best(s.waitq[sem])
<1>1. /\ Sound(r) /\ t \in Threads /\ s.pended_on[t] = sem /\ r.waking = t
      /\ r.ready = s.ready /\ r.swap_retval = s.swap_retval
      /\ \A u \in Threads : r.pended_on[u] = IF u = t THEN NULL ELSE s.pended_on[u]
  BY SemTypes, UnpendFirstSound
<1> HIDE DEF r, t
<1>2. GivenTo(r) = GivenTo(s)
  BY <1>1, SemTypes DEF GivenTo, Sound
<1>3. t # NULL
  BY <1>1, PendTypes, Zenon DEF Sound
<1> QED BY <1>1, <1>2, <1>3, Zenon DEF r

\* A thread that is woken with 0 has been given the semaphore.
LEMMA WakeGiven ==
    ASSUME NEW s, Sound(s), s.waking # NULL, NEW ret \in {"OK", "EAGAIN"}
    PROVE  LET r == WakeWith(s, ret)
           IN  /\ Sound(r) /\ r.waking = NULL
               /\ s.waking \in Threads /\ s.waking \notin s.ready
               /\ s.waking \notin GivenTo(s)
               /\ GivenTo(r) = IF ret = "OK" THEN GivenTo(s) \cup {s.waking} ELSE GivenTo(s)
               /\ r.ready = s.ready \cup {s.waking} /\ r.waitq = s.waitq
<1> DEFINE r == WakeWith(s, ret)
<1>1. ret \in Retvals
  BY Zenon DEF Retvals
<1>2. /\ Sound(r) /\ s.waking \in Threads /\ s.waking \notin s.ready
      /\ r.ready = s.ready \cup {s.waking} /\ r.waking = NULL
      /\ r.waitq = s.waitq /\ r.pended_on = s.pended_on
      /\ \A u \in Threads :
            r.swap_retval[u] = IF u = s.waking THEN ret ELSE s.swap_retval[u]
  BY <1>1, WakeSound
<1> HIDE DEF r
<1>3. NULL \notin Threads /\ s.pended_on[s.waking] = NULL
  BY <1>2, PendTypes, Zenon DEF Sound
<1>4. GivenTo(r) = IF ret = "OK" THEN GivenTo(s) \cup {s.waking} ELSE GivenTo(s)
  BY <1>2, <1>3 DEF GivenTo
<1> QED BY <1>2, <1>4, Zenon DEF GivenTo, r

\* The handler of a timeout gives its thread nothing.
LEMMA TimeoutGiven ==
    ASSUME NEW s, Sound(s), s.waking = NULL, s.expired # NULL
    PROVE  LET r == z_thread_timeout(s)
           IN  /\ Sound(r) /\ GivenTo(r) = GivenTo(s)
               /\ s.ready \subseteq r.ready /\ r.waking = NULL
               /\ s.waitq[sem] = <<>> => r.waitq[sem] = <<>>
<1> DEFINE r == z_thread_timeout(s)
<1>1. /\ Sound(r) /\ s.expired \in Threads /\ r.ready = s.ready \cup {s.expired}
      /\ r.waking = NULL /\ r.swap_retval = s.swap_retval
      /\ \A u \in Threads :
            r.pended_on[u] = IF u = s.expired THEN NULL ELSE s.pended_on[u]
  BY TimeoutSound, Zenon
<1> HIDE DEF r
<1>2. GivenTo(r) = GivenTo(s)
  BY <1>1 DEF GivenTo, Sound
<1>3. s.waitq[sem] = <<>> => r.waitq[sem] = <<>>
  BY <1>1, SemTypes, WaitqEmpty
<1> QED BY <1>1, <1>2, <1>3, Zenon DEF r

\* Unlinking a timeout or changing a priority gives nobody anything.
LEMMA QuietGiven ==
    ASSUME NEW s, Sound(s), NEW t \in Threads, NEW r,
           \/ r = Expire(s, t)
           \/ \E prio \in Prios : r = z_set_prio(s, t, prio)
    PROVE  /\ Sound(r) /\ GivenTo(r) = GivenTo(s) /\ r.ready = s.ready
           /\ r.waking = s.waking /\ r.waitq = s.waitq
<1>1. /\ Sound(r) /\ r.ready = s.ready /\ r.waking = s.waking /\ r.waitq = s.waitq
      /\ r.pended_on = s.pended_on /\ r.swap_retval = s.swap_retval
  BY ExpireSound, PrioSound
<1> QED BY <1>1, Zenon DEF GivenTo

-----------------------------------------------------------------------------
(* The semaphore                                                           *)

\* Those who have been given the semaphore are finitely many takers.
LEMMA GrantedTakers ==
    ASSUME TypeOK
    PROVE  /\ Granted = taking \cap GivenTo(p)
           /\ IsFiniteSet(Granted) /\ Cardinality(Granted) \in Nat
<1>1. Granted = taking \cap GivenTo(p) /\ Granted \in SUBSET Threads
  BY Zenon DEF TypeOK, Granted, GivenTo
<1>2. IsFiniteSet(Granted)
  BY <1>1, SemAssumption, FS_Subset, Zenon
<1> QED BY <1>1, <1>2, FS_CardinalityType, Zenon

\* The tokens, with the types of the numbers.
LEMMA Account ==
    ASSUME SemInv
    PROVE  /\ TypeOK /\ Granted = taking \cap GivenTo(p) /\ Granted \in SUBSET Threads
           /\ IsFiniteSet(Granted) /\ Cardinality(Granted) \in Nat
           /\ Limit \in Nat \ {0} /\ count \in 0 .. Limit /\ credit \in Nat
           /\ op # "give" => credit = count + Cardinality(Granted)
           /\ op = "give" => credit = count + Cardinality(Granted) + 1
<1>1. TypeOK /\ TokensConserved
  BY Zenon DEF SemInv
<1>2. count \in 0 .. Limit /\ credit \in Nat /\ taking \in SUBSET Threads
  BY <1>1, Zenon DEF TypeOK
<1>3. /\ Granted = taking \cap GivenTo(p)
      /\ IsFiniteSet(Granted) /\ Cardinality(Granted) \in Nat
  BY <1>1, GrantedTakers, Zenon
<1> QED BY <1>1, <1>2, <1>3, SemAssumption DEF TokensConserved

\* What is to be shown of a step after which the takers in G have been given the
\* semaphore.
LEMMA StepInv ==
    ASSUME NEW G \in SUBSET Threads, taking' \cap GivenTo(p') = G,
           credit' = count' + Cardinality(G) + (IF op' = "give" THEN 1 ELSE 0),
           Sound(p'), count' \in 0 .. Limit, op' \in {"none", "give", "reset"},
           taking' \subseteq Threads,
           \A t \in Threads : t \notin p'.ready => t \in taking',
           op' = "none" => p'.waking = NULL, op' = "give" => p'.waking # NULL,
           count' > 0 => p'.waitq[sem] = <<>>
    PROVE  SemInv'
<1>1. Granted' = G
  BY Zenon DEF Granted, GivenTo
<1>2. TokensConserved'
  BY <1>1, Zenon DEF TokensConserved
<1>3. Cardinality(G) \in Nat
  BY SemAssumption, FS_Subset, FS_CardinalityType, Zenon
<1>4. credit' \in Nat
  BY <1>3, SemAssumption
<1>5. TypeOK'
  BY <1>4, Zenon DEF TypeOK, Sound
<1> QED BY <1>2, <1>5, Zenon DEF SemInv

\* The initial states.
LEMMA InitInv == Init => SemInv
<1> SUFFICES ASSUME Init PROVE SemInv
  BY Zenon
<1>1. PICK prio \in [Threads -> Prios] : p = PendInit(prio)
  BY Zenon DEF Init
<1>2. /\ Sound(p) /\ p.ready = Threads /\ p.waking = NULL
      /\ p.waitq[sem] = <<>> /\ p \in Pending
  BY <1>1, InitSound, SemAssumption, Zenon DEF Sound
<1>5. TypeOK /\ Granted = {}
  BY <1>2, SemAssumption DEF Init, TypeOK, Granted
<1>6. TokensConserved
  BY <1>5, FS_EmptySet DEF Init, TypeOK, TokensConserved
<1> QED BY <1>2, <1>5, <1>6, Zenon DEF Init, SemInv

\* k_sem_give() adds a token to the count, or sets out to hand it over.
LEMMA GiveInv ==
    ASSUME SemInv, k_sem_give PROVE SemInv'
<1>1. /\ TypeOK /\ Granted = taking \cap GivenTo(p) /\ Granted \in SUBSET Threads
      /\ Cardinality(Granted) \in Nat /\ Limit \in Nat /\ count \in 0 .. Limit
      /\ credit \in Nat /\ op = "none"
  BY Account, Zenon DEF k_sem_give
<1>2. credit = count + Cardinality(Granted)
  BY <1>1, Account, Zenon
<1>3. CASE p.waitq[sem] # <<>>
  <2>1. p' = z_unpend_first_thread(p, sem) /\ op' = "give" /\ credit' = credit + 1
        /\ count' = count /\ taking' = taking /\ op = "none"
    BY <1>3, Zenon DEF k_sem_give
  <2>2. Sound(p') /\ GivenTo(p') = GivenTo(p) /\ p'.ready = p.ready /\ p'.waking # NULL
    BY <1>3, <2>1, UnpendGiven, Zenon DEF SemInv
  <2>3. count' = 0
    BY <1>3, <2>1, SemAssumption DEF SemInv, TypeOK
  <2>4. credit' = count' + Cardinality(Granted) + 1
    BY <1>1, <1>2, <2>1, Zenon
  <2> QED BY <1>1, <2>1, <2>2, <2>3, <2>4, StepInv DEF SemInv, TypeOK
<1>4. CASE p.waitq[sem] = <<>>
  <2>1. p' = p /\ op' = "none" /\ op = "none" /\ taking' = taking
        /\ credit' = credit + count' - count
        /\ count' = IF count # Limit THEN count + 1 ELSE count
    BY <1>4, Zenon DEF k_sem_give
  <2>2. count' \in 0 .. Limit
    BY <1>1, <2>1
  <2>3. credit' = count' + Cardinality(Granted) + 0
    BY <1>1, <1>2, <2>1, <2>2
  <2> QED BY <1>1, <1>4, <2>1, <2>2, <2>3, StepInv, Zenon DEF SemInv, TypeOK
<1> QED BY <1>3, <1>4, Zenon

\* The thread that is being woken has the token when it is ready.
LEMMA GiveWakeInv ==
    ASSUME SemInv, GiveWake PROVE SemInv'
<1>1. /\ op = "give" /\ p' = WakeWith(p, "OK") /\ op' = "none"
      /\ count' = count /\ taking' = taking /\ credit' = credit
  BY Zenon DEF GiveWake
<1> DEFINE t == p.waking
<1>2. /\ Sound(p') /\ p'.waking = NULL /\ t \in Threads /\ t \notin p.ready
      /\ t \notin GivenTo(p) /\ GivenTo(p') = GivenTo(p) \cup {t}
      /\ p'.ready = p.ready \cup {t} /\ p'.waitq = p.waitq
  BY <1>1, WakeGiven, Zenon DEF SemInv
<1> HIDE DEF t
<1>3. t \in taking
  BY <1>2, Zenon DEF SemInv
<1>4. Granted \cup {t} = taking' \cap GivenTo(p') /\ t \notin Granted
  BY <1>1, <1>2, <1>3, Account, Zenon
<1>5. Cardinality(Granted \cup {t}) = Cardinality(Granted) + 1
  BY <1>4, Account, FS_AddElement, Zenon
<1>6. credit = count + Cardinality(Granted) + 1 /\ Cardinality(Granted) \in Nat /\ count \in Int
  BY <1>1, Account
<1>7. credit' = count' + Cardinality(Granted \cup {t}) + 0
  BY <1>1, <1>5, <1>6
<1>8. Granted \cup {t} \in SUBSET Threads /\ count' \in 0 .. Limit /\ taking' \subseteq Threads
  BY <1>1, <1>2, Account, Zenon DEF TypeOK
<1> QED BY <1>1, <1>2, <1>4, <1>7, <1>8, StepInv, Zenon DEF SemInv

\* k_sem_take() takes a token from the count.
LEMMA TakeInv ==
    ASSUME SemInv, NEW t \in Threads, k_sem_take(t) PROVE SemInv'
<1>1. /\ op = "none" /\ op' = op /\ count > 0 /\ count' = count - 1
      /\ credit' = credit - 1 /\ p' = p /\ taking' = taking
  BY Zenon DEF k_sem_take
<1>2. /\ credit = count + Cardinality(Granted) /\ Cardinality(Granted) \in Nat
      /\ Limit \in Nat /\ count \in 0 .. Limit
  BY <1>1, Account, Zenon
<1>3. count' \in 0 .. Limit /\ credit' = count' + Cardinality(Granted) + 0
  BY <1>1, <1>2
<1>4. Granted = taking' \cap GivenTo(p') /\ Granted \in SUBSET Threads /\ taking' \subseteq Threads
  BY <1>1, Account, Zenon DEF TypeOK
<1> QED BY <1>1, <1>3, <1>4, StepInv, Zenon DEF SemInv

\* k_sem_take() waits for a token.
LEMMA TakePendInv ==
    ASSUME SemInv, ~SMP, NEW t \in Threads, NEW wait, TakePend(t, wait) PROVE SemInv'
<1>1. /\ op = "none" /\ op' = op /\ t \in p.ready /\ p.expired = NULL /\ t \notin taking
      /\ count = 0 /\ count' = count /\ credit' = credit
      /\ p' = z_pend_curr(p, t, sem, wait) /\ taking' = taking \cup {t}
  BY Zenon DEF TakePend, Runs
<1>2. /\ Sound(p') /\ GivenTo(p') = GivenTo(p) \ {t}
      /\ p'.ready = p.ready \ {t} /\ p'.waking = p.waking
  BY <1>1, PendGiven DEF SemInv
<1>3. /\ Granted = taking' \cap GivenTo(p') /\ Granted \in SUBSET Threads
      /\ taking' \subseteq Threads /\ count' \in 0 .. Limit
  BY <1>1, <1>2, Account, Zenon DEF TypeOK
<1>4. credit' = count' + Cardinality(Granted) + 0
  BY <1>1, Account
<1> QED BY <1>1, <1>2, <1>3, <1>4, StepInv DEF SemInv

\* k_sem_take() that has waited returns, with the token it was given if it was.
LEMMA TakeReturnInv ==
    ASSUME SemInv, NEW t \in Threads, TakeReturn(t) PROVE SemInv'
<1>1. /\ t \in taking /\ t \in p.ready /\ taking' = taking \ {t}
      /\ credit' = IF p.swap_retval[t] = "OK" THEN credit - 1 ELSE credit
      /\ p' = p /\ count' = count /\ op' = op
  BY Zenon DEF TakeReturn, Runs
<1>2. t \in Granted <=> p.swap_retval[t] = "OK"
  BY <1>1, Zenon DEF SemInv, Sound, Granted
<1>3. /\ Granted \ {t} = taking' \cap GivenTo(p') /\ Granted \ {t} \in SUBSET Threads
      /\ taking' \subseteq Threads /\ count' \in 0 .. Limit
  BY <1>1, Account, Zenon DEF TypeOK
<1>4. Cardinality(Granted \ {t}) = IF t \in Granted THEN Cardinality(Granted) - 1
                                   ELSE Cardinality(Granted)
  BY Account, FS_RemoveElement, ZenonT(40)
<1>5. /\ Cardinality(Granted) \in Nat /\ count \in Int /\ credit \in Int
      /\ credit = count + Cardinality(Granted) + (IF op = "give" THEN 1 ELSE 0)
  BY Account
<1>6. credit' = count' + Cardinality(Granted \ {t}) + (IF op' = "give" THEN 1 ELSE 0)
  BY <1>1, <1>2, <1>4, <1>5
<1>7. op' \in {"none", "give", "reset"}
  BY <1>1, Zenon DEF SemInv, TypeOK
<1> QED BY <1>1, <1>3, <1>6, <1>7, StepInv, Zenon DEF SemInv

\* A step that gives nobody anything and wakes only threads keeps the account.
LEMMA QuietInv ==
    ASSUME SemInv, Sound(p'), GivenTo(p') = GivenTo(p), p.ready \subseteq p'.ready,
           count' = count, taking' = taking, credit' = credit, op' = op,
           op = "none" => p'.waking = NULL, op # "give",
           count > 0 => p'.waitq[sem] = <<>>
    PROVE  SemInv'
<1>1. /\ Granted = taking' \cap GivenTo(p') /\ Granted \in SUBSET Threads
      /\ taking' \subseteq Threads /\ count' \in 0 .. Limit
      /\ op' \in {"none", "give", "reset"}
  BY Account, Zenon DEF TypeOK
<1>2. credit' = count' + Cardinality(Granted) + 0
  BY Account
<1> QED BY <1>1, <1>2, StepInv, Zenon DEF SemInv

\* k_sem_reset() wakes the waiters one by one with -EAGAIN and clears the count.
LEMMA ResetInv ==
    ASSUME SemInv, k_sem_reset \/ ResetUnpend \/ ResetWake \/ ResetDone
    PROVE  SemInv'
<1>1. CASE k_sem_reset
  <2>1. op = "none" /\ op' = "reset" /\ p' = p /\ count' = count
        /\ taking' = taking /\ credit' = credit
    BY <1>1, Zenon DEF k_sem_reset
  <2>2. /\ Granted = taking' \cap GivenTo(p') /\ Granted \in SUBSET Threads
        /\ taking' \subseteq Threads /\ count' \in 0 .. Limit
    BY <2>1, Account, Zenon DEF TypeOK
  <2>3. credit' = count' + Cardinality(Granted) + 0
    BY <2>1, Account
  <2> QED BY <2>1, <2>2, <2>3, StepInv, Zenon DEF SemInv
<1>2. CASE ResetUnpend
  <2>1. /\ op = "reset" /\ op' = op /\ p.waking = NULL /\ p.waitq[sem] # <<>>
        /\ p' = z_unpend_first_thread(p, sem)
        /\ count' = count /\ taking' = taking /\ credit' = credit
    BY <1>2, Zenon DEF ResetUnpend
  <2>2. Sound(p') /\ GivenTo(p') = GivenTo(p) /\ p'.ready = p.ready
    BY <2>1, UnpendGiven, Zenon DEF SemInv
  <2> QED BY <2>1, <2>2, QuietInv, Zenon DEF SemInv
<1>3. CASE ResetWake
  <2>1. /\ op = "reset" /\ op' = op /\ p.waking # NULL /\ p' = WakeWith(p, "EAGAIN")
        /\ count' = count /\ taking' = taking /\ credit' = credit
    BY <1>3, Zenon DEF ResetWake
  <2>2. /\ Sound(p') /\ GivenTo(p') = GivenTo(p) /\ p.ready \subseteq p'.ready
        /\ p'.waitq = p.waitq
    BY <2>1, WakeGiven, Zenon DEF SemInv
  <2> QED BY <2>1, <2>2, QuietInv, Zenon DEF SemInv
<1>4. CASE ResetDone
  <2>1. /\ op = "reset" /\ op' = "none" /\ p.waking = NULL /\ p' = p
        /\ count' = 0 /\ credit' = credit - count /\ taking' = taking
    BY <1>4, Zenon DEF ResetDone
  <2>2. /\ credit = count + Cardinality(Granted) /\ Cardinality(Granted) \in Nat
        /\ Limit \in Nat /\ count \in 0 .. Limit
    BY <2>1, Account, Zenon
  <2>3. count' \in 0 .. Limit /\ credit' = count' + Cardinality(Granted) + 0
    BY <2>1, <2>2
  <2>4. /\ Granted = taking' \cap GivenTo(p') /\ Granted \in SUBSET Threads
        /\ taking' \subseteq Threads
    BY <2>1, Account, Zenon DEF TypeOK
  <2> QED BY <2>1, <2>3, <2>4, StepInv DEF SemInv
<1> QED BY <1>1, <1>2, <1>3, <1>4, Zenon

\* On one CPU priority changes, the timer interrupt and the handlers of timeouts
\* come when no operation holds the lock.
LEMMA InterruptInv ==
    ASSUME SemInv, ~SMP,
           \/ TimeoutHandler
           \/ \E t \in Threads : sys_clock_announce(t) \/ \E prio \in Prios : SetPrio(t, prio)
    PROVE  SemInv'
<1>1. CASE TimeoutHandler
  <2>1. /\ op = "none" /\ op' = op /\ p.expired # NULL /\ p' = z_thread_timeout(p)
        /\ count' = count /\ taking' = taking /\ credit' = credit
    BY <1>1, Zenon DEF TimeoutHandler
  <2>2. /\ Sound(p') /\ GivenTo(p') = GivenTo(p) /\ p.ready \subseteq p'.ready
        /\ p'.waking = NULL /\ (p.waitq[sem] = <<>> => p'.waitq[sem] = <<>>)
    BY <2>1, TimeoutGiven, Zenon DEF SemInv
  <2> QED BY <2>1, <2>2, QuietInv, Zenon DEF SemInv
<1>2. ASSUME NEW t \in Threads, sys_clock_announce(t) PROVE SemInv'
  <2>1. /\ op = "none" /\ op' = op /\ p' = Expire(p, t)
        /\ count' = count /\ taking' = taking /\ credit' = credit
    BY <1>2, Zenon DEF sys_clock_announce
  <2>2. /\ Sound(p') /\ GivenTo(p') = GivenTo(p) /\ p'.ready = p.ready
        /\ p'.waking = p.waking /\ p'.waitq = p.waitq
    BY <2>1, QuietGiven, Zenon DEF SemInv
  <2> QED BY <2>1, <2>2, QuietInv, Zenon DEF SemInv
<1>3. ASSUME NEW t \in Threads, NEW prio \in Prios, SetPrio(t, prio) PROVE SemInv'
  <2>1. /\ op = "none" /\ op' = op /\ p' = z_set_prio(p, t, prio)
        /\ count' = count /\ taking' = taking /\ credit' = credit
    BY <1>3, Zenon DEF SetPrio
  <2>2. /\ Sound(p') /\ GivenTo(p') = GivenTo(p) /\ p'.ready = p.ready
        /\ p'.waking = p.waking /\ p'.waitq = p.waitq
    BY <2>1, QuietGiven, Zenon DEF SemInv
  <2> QED BY <2>1, <2>2, QuietInv, Zenon DEF SemInv
<1> QED BY <1>1, <1>2, <1>3, Zenon

\* Every step keeps the invariant.
LEMMA NextInv ==
    ASSUME ~SMP, SemInv, [Next]_vars PROVE SemInv'
<1>1. CASE UNCHANGED vars
  BY <1>1 DEF vars, SemInv, TypeOK, Sound, TokensConserved, Granted
<1>2. CASE k_sem_give \/ k_sem_reset \/ Finish \/ TimeoutHandler
  BY <1>2, GiveInv, GiveWakeInv, ResetInv, InterruptInv, Zenon DEF Finish
<1>3. ASSUME NEW t \in Threads,
             \/ k_sem_take(t) \/ (\E wait \in Waits : TakePend(t, wait)) \/ TakeReturn(t)
             \/ (\E prio \in Prios : SetPrio(t, prio)) \/ sys_clock_announce(t)
      PROVE  SemInv'
  BY <1>3, TakeInv, TakePendInv, TakeReturnInv, InterruptInv, Zenon
<1> QED BY <1>1, <1>2, <1>3, Zenon DEF Next

\* On one CPU the invariant of the semaphore holds in every reachable state.
THEOREM SemInvariant ==
    ASSUME ~SMP
    PROVE  Spec => []SemInv
<1>1. Init => SemInv
  BY InitInv, Zenon
<1>2. SemInv /\ [Next]_vars => SemInv'
  BY NextInv, Zenon
<1> QED BY <1>1, <1>2, PTL DEF Spec

\* The count of a semaphore stays between zero and its limit, and the threads'
\* state is well formed.
THEOREM SemTypeCorrect ==
    ASSUME ~SMP
    PROVE  Spec => []TypeOK
<1>1. SemInv => TypeOK
  BY Zenon DEF SemInv
<1> QED BY <1>1, SemInvariant, PTL

\* k_sem_give() and k_sem_take() lose no token and make none up, whichever of
\* give, reset and timeout comes first for a waiting thread.
THEOREM TokensConservedCorrect ==
    ASSUME ~SMP
    PROVE  Spec => []TokensConserved
<1>1. SemInv => TokensConserved
  BY Zenon DEF SemInv
<1> QED BY <1>1, SemInvariant, PTL

\* No thread is left blocked in k_sem_take() off the wait queue, and none on it
\* while the semaphore is available.
THEOREM NobodyStrandedCorrect ==
    ASSUME ~SMP
    PROVE  Spec => []NobodyStranded
<1>1. ASSUME SemInv PROVE NobodyStranded
  <2>1. p \in Pending /\ Sound(p) /\ (count > 0 => p.waitq[sem] = <<>>)
    BY <1>1, Zenon DEF SemInv, Sound
  <2> QED BY <2>1, SemTypes, Zenon DEF Sound, NobodyStranded
<1> QED BY <1>1, SemInvariant, PTL

-----------------------------------------------------------------------------
(* The on-off manager                                                      *)

\* the clients that have got the service
Holders == {c \in Clients : cli[c] = "on" \/ GotService(c)}

\* The clients on the manager's list wait for the state that the service leaves,
\* and those being notified have reached theirs.
Kinds ==
    \A c \in Clients :
        /\ OnQueue(mgr.clients, c) =>
              /\ mgr.state # "ON"
              /\ cli[c] = "resetting" <=> mgr.state \in {"ERROR", "RESETTING"}
        /\ OnQueue(proc.clients, c) =>
              mgr.state = IF proc.res = "ERROR" THEN "ERROR"
                          ELSE IF cli[c] = "requested" THEN "ON" ELSE "OFF"

\* refs counts the holders, and there are none unless the service is on.
Counts ==
    /\ mgr.refs = Cardinality(Holders)
    /\ mgr.state # "ON" => mgr.refs = 0

\* What process_event() relies on at each place: with the lock, it has one event
\* and no flag but RECHECK; without, it has PROCESSING set, or is not active.
\* A transition is in one of four places, and nowhere in a stable state.
Control ==
    /\ ~Unlocked => /\ proc.evt \in {"EVT_COMPLETE", "EVT_RECHECK"}
                    /\ proc = RoundOf(proc.evt)
                    /\ mgr.flags \subseteq {"RECHECK"}
                    /\ proc.evt = "EVT_RECHECK" => mgr.flags = {}
    /\ Unlocked /\ "PROCESSING" \notin mgr.flags => mgr.flags = {} /\ proc = NoProc
    /\ proc.clients # <<>> => ~proc.transit
    /\ mgr.state \in Transitions <=>
          proc.transit \/ transition \/ "COMPLETE" \in mgr.flags \/ proc.evt = "EVT_COMPLETE"
    /\ transition => proc.evt # "EVT_COMPLETE"
    /\ ~(transition /\ "COMPLETE" \in mgr.flags)
    /\ proc.transit => ~transition /\ "COMPLETE" \notin mgr.flags

\* Waiting clients, and a service that is on for nobody, are not forgotten.
Wanted ==
    /\ mgr.clients # <<>> => \/ mgr.state \in Transitions
                             \/ "RECHECK" \in mgr.flags \/ proc.evt = "EVT_RECHECK"
    /\ mgr.state = "ON" /\ mgr.refs = 0 =>
          "RECHECK" \in mgr.flags \/ proc.evt = "EVT_RECHECK"

OnOffInv == OnOffTypeOK /\ ClientsKept /\ Kinds /\ Counts /\ Control /\ Wanted

-----------------------------------------------------------------------------
(* Lists of clients                                                        *)

\* An empty list has nobody on it, and only an empty list.
LEMMA EmptyProperties ==
    /\ <<>> \in Seq(Clients) /\ NoDuplicates(<<>>) /\ \A c : ~OnQueue(<<>>, c)
    /\ \A q \in Seq(Clients) : q # <<>> => \E c \in Clients : OnQueue(q, c)
    /\ \A q \in Seq(Clients) : \A c : OnQueue(q, c) => c \in Clients /\ q # <<>>
<1>1. ASSUME NEW q \in Seq(Clients), q # <<>>
      PROVE  \E c \in Clients : OnQueue(q, c)
  <2>1. 1 \in 1 .. Len(q) /\ q[1] \in Clients
    BY <1>1
  <2> QED BY <2>1, Zenon DEF OnQueue
<1>2. ASSUME NEW q \in Seq(Clients), NEW c, OnQueue(q, c)
      PROVE  c \in Clients /\ q # <<>>
  BY <1>2 DEF OnQueue
<1> QED BY <1>1, <1>2 DEF OnQueue, NoDuplicates

\* sys_slist_append() of a client that is not on the list.
LEMMA AppendProperties ==
    ASSUME NEW q \in Seq(Clients), NEW c \in Clients, ~OnQueue(q, c), NoDuplicates(q)
    PROVE  /\ Append(q, c) \in Seq(Clients) /\ Append(q, c) # <<>>
           /\ \A d : OnQueue(Append(q, c), d) <=> OnQueue(q, d) \/ d = c
           /\ NoDuplicates(Append(q, c))
<1> DEFINE r == Append(q, c)
<1>1. /\ r \in Seq(Clients) /\ Len(r) = Len(q) + 1 /\ Len(q) \in Nat
      /\ \A i \in 1 .. Len(q) : r[i] = q[i]
      /\ r[Len(q) + 1] = c
  OBVIOUS
<1>2. r # <<>>
  BY <1>1
<1> HIDE DEF r
<1>3. \A d : OnQueue(r, d) <=> OnQueue(q, d) \/ d = c
  BY <1>1 DEF OnQueue
<1>4. NoDuplicates(r)
  BY <1>1 DEF OnQueue, NoDuplicates
<1> QED BY <1>1, <1>2, <1>3, <1>4, Zenon DEF r

\* sys_slist_get() of the first client to notify.
LEMMA TailProperties ==
    ASSUME NEW q \in Seq(Clients), q # <<>>, NoDuplicates(q)
    PROVE  /\ Head(q) \in Clients /\ OnQueue(q, Head(q)) /\ Tail(q) \in Seq(Clients)
           /\ \A d : OnQueue(Tail(q), d) <=> OnQueue(q, d) /\ d # Head(q)
           /\ NoDuplicates(Tail(q))
<1> DEFINE r == Tail(q)
<1>1. /\ r \in Seq(Clients) /\ Len(q) \in Nat /\ Len(q) >= 1 /\ Len(r) = Len(q) - 1
      /\ \A i \in 1 .. Len(r) : r[i] = q[i + 1]
      /\ Head(q) = q[1] /\ q[1] \in Clients
  OBVIOUS
<1> HIDE DEF r
<1>2. OnQueue(q, Head(q))
  BY <1>1 DEF OnQueue
<1>3. ASSUME NEW d, OnQueue(q, d), d # Head(q)
      PROVE  OnQueue(r, d)
  <2>1. PICK i \in 1 .. Len(q) : q[i] = d
    BY <1>3, Zenon DEF OnQueue
  <2>2. i - 1 \in 1 .. Len(r) /\ r[i - 1] = d
    BY <1>1, <1>3, <2>1
  <2> QED BY <2>2, Zenon DEF OnQueue
<1>4. ASSUME NEW d, OnQueue(r, d)
      PROVE  OnQueue(q, d) /\ d # Head(q)
  <2>1. PICK i \in 1 .. Len(r) : r[i] = d
    BY <1>4, Zenon DEF OnQueue
  <2>2. i + 1 \in 1 .. Len(q) /\ q[i + 1] = d /\ 1 \in 1 .. Len(q) /\ i + 1 # 1
    BY <1>1, <2>1
  <2> QED BY <1>1, <2>2, Zenon DEF OnQueue, NoDuplicates
<1>5. NoDuplicates(r)
  BY <1>1 DEF NoDuplicates
<1> QED BY <1>1, <1>2, <1>3, <1>4, <1>5, Zenon DEF r

\* sys_slist_find_and_remove() of a client that is on the list.
LEMMA SlistRemoveProperties ==
    ASSUME NEW q \in Seq(Clients), NEW i \in 1 .. Len(q), NoDuplicates(q)
    PROVE  /\ sys_slist_remove(q, i) \in Seq(Clients)
           /\ \A d : OnQueue(sys_slist_remove(q, i), d) <=> OnQueue(q, d) /\ d # q[i]
           /\ NoDuplicates(sys_slist_remove(q, i))
<1> DEFINE r == sys_slist_remove(q, i)
<1>1. /\ r \in Seq(Clients) /\ Len(q) \in Nat /\ Len(r) = Len(q) - 1
      /\ \A j \in 1 .. Len(r) : r[j] = IF j < i THEN q[j] ELSE q[j + 1]
  BY DEF sys_slist_remove
<1> HIDE DEF r
<1>2. ASSUME NEW d, OnQueue(q, d), d # q[i]
      PROVE  OnQueue(r, d)
  <2>1. PICK j \in 1 .. Len(q) : q[j] = d
    BY <1>2, Zenon DEF OnQueue
  <2>2. CASE j < i
    BY <1>1, <2>1, <2>2, SMTT(40) DEF OnQueue
  <2>3. CASE j > i
    <3>1. j - 1 \in 1 .. Len(r) /\ r[j - 1] = d
      BY <1>1, <2>1, <2>3
    <3> QED BY <3>1, Zenon DEF OnQueue
  <2> QED BY <1>2, <2>1, <2>2, <2>3
<1>3. ASSUME NEW d, OnQueue(r, d)
      PROVE  OnQueue(q, d) /\ d # q[i]
  <2>1. PICK j \in 1 .. Len(r) : r[j] = d
    BY <1>3, Zenon DEF OnQueue
  <2>2. PICK k \in 1 .. Len(q) : q[k] = d /\ k # i
    BY <1>1, <2>1, SMTT(40)
  <2> QED BY <2>2, Zenon DEF OnQueue, NoDuplicates
<1>4. NoDuplicates(r)
  BY <1>1 DEF NoDuplicates
<1> QED BY <1>1, <1>2, <1>3, <1>4, Zenon DEF r

\* A list without duplicates is as long as there are clients on it, so refs, a
\* uint16_t, does not wrap when process_complete() adds its length to zero.
LEMMA LengthProperties ==
    ASSUME NEW q \in Seq(Clients), NoDuplicates(q)
    PROVE  /\ Cardinality({c \in Clients : OnQueue(q, c)}) = Len(q)
           /\ Len(q) \in 0 .. SERVICE_REFS_MAX
<1> DEFINE S == {c \in Clients : OnQueue(q, c)}
<1>1. Len(q) \in Nat /\ q \in [1 .. Len(q) -> Clients]
  OBVIOUS
<1>2. q \in Bijection(1 .. Len(q), S)
  BY <1>1, Zenon DEF Bijection, Injection, Surjection, IsInjective, OnQueue, NoDuplicates
<1>3. Cardinality(S) = Len(q)
  BY <1>1, <1>2, FS_CountingElements, Zenon DEF ExistsBijection
<1>4. Cardinality(S) <= Cardinality(Clients)
  BY OnOffAssumption, FS_Subset, Zenon
<1>5. Cardinality(Clients) \in Nat
  BY OnOffAssumption, FS_CardinalityType, Zenon
<1> QED BY <1>1, <1>3, <1>4, <1>5, OnOffAssumption
-----------------------------------------------------------------------------
(* The invariant is inductive                                              *)

\* onoff_manager_init() establishes the invariant.
LEMMA OnOffInitial == OnOffInit => OnOffInv
<1> SUFFICES ASSUME OnOffInit PROVE OnOffInv
  BY Zenon
<1>1. OnOffTypeOK
  <2>1. mgr \in Managers
    BY OnOffAssumption DEF OnOffInit, Managers, States, Results
  <2>2. proc \in Procs
    BY DEF OnOffInit, Procs, NoProc, RoundOf, Events, Results
  <2> QED BY <2>1, <2>2, ZenonT(40) DEF OnOffInit, OnOffTypeOK
<1>2. Holders = {}
  BY EmptyProperties, Zenon DEF OnOffInit, Holders, GotService, NoProc, RoundOf
<1>3. Counts
  BY <1>2, FS_EmptySet, Zenon DEF OnOffInit, Counts
<1>4. ClientsKept /\ Kinds
  BY EmptyProperties, Zenon DEF OnOffInit, ClientsKept, Kinds, NoProc, RoundOf
<1>5. Control /\ Wanted
  BY Zenon DEF OnOffInit, Control, Wanted, NoProc, RoundOf, Unlocked, Transitions
<1> QED BY <1>1, <1>3, <1>4, <1>5, Zenon DEF OnOffInv

\* Steps that change no list and not what clients have got: a monitor comes or
\* goes or is called, the service is asked for a transition.
LEMMA QuietSteps ==
    ASSUME OnOffInv,
           \/ notify_monitors \/ Transit
           \/ \E registered \in BOOLEAN : onoff_monitor(registered)
    PROVE  OnOffInv'
<1> USE DEF OnOffInv
<1>1. /\ OnOffTypeOK' /\ UNCHANGED cli /\ mgr'.clients = mgr.clients
      /\ proc'.clients = proc.clients /\ proc'.res = proc.res /\ mgr'.state = mgr.state
      /\ mgr'.refs = mgr.refs /\ mgr'.flags = mgr.flags /\ proc'.evt = proc.evt
  <2>1. CASE notify_monitors
    BY <2>1, ZenonT(40) DEF OnOffTypeOK, Procs, notify_monitors
  <2>2. CASE Transit
    BY <2>2, ZenonT(40) DEF OnOffTypeOK, Procs, Transit
  <2>3. CASE \E registered \in BOOLEAN : onoff_monitor(registered)
    BY <2>3 DEF OnOffTypeOK, Managers, onoff_monitor
  <2> QED BY <2>1, <2>2, <2>3, Zenon
<1>2. Holders' = Holders
  BY <1>1, Zenon DEF Holders, GotService
<1>3. Control'
  <2>1. CASE notify_monitors
    BY <2>1, Zenon DEF Control, notify_monitors, Processing, Unlocked, OnOffTypeOK, Managers, Procs, RoundOf, NoProc
  <2>2. CASE Transit
    BY <2>2, Zenon DEF Control, Transit, Processing, Unlocked, OnOffTypeOK, Managers, Procs, RoundOf, NoProc
  <2>3. CASE \E registered \in BOOLEAN : onoff_monitor(registered)
    BY <2>3 DEF Control, onoff_monitor, Unlocked, OnOffTypeOK, Managers, Procs, RoundOf, NoProc
  <2> QED BY <2>1, <2>2, <2>3, Zenon
<1> QED BY <1>1, <1>2, <1>3, Zenon DEF ClientsKept, Kinds, Counts, Wanted

\* process_event() with the lock held in the state m, which keeps every part of
\* the invariant but that an event is to be recorded: it is, in proc or in flags.
LEMMA EventRecorded ==
    ASSUME OnOffTypeOK, Control, Unlocked, NEW m \in Managers, m.state = mgr.state, m.flags = mgr.flags,
           NEW evt \in {"EVT_COMPLETE", "EVT_RECHECK"}, process_event(m, evt)
    PROVE  /\ mgr' \in Managers /\ proc' \in Procs
           /\ mgr'.state = m.state /\ mgr'.clients = m.clients /\ mgr'.refs = m.refs
           /\ proc'.clients = proc.clients /\ proc'.res = proc.res
           /\ proc'.transit = proc.transit
           /\ IF "PROCESSING" \in mgr.flags
              THEN /\ mgr'.flags = mgr.flags \cup {IF evt = "EVT_COMPLETE" THEN "COMPLETE"
                                                   ELSE "RECHECK"}
                   /\ proc' = proc
              ELSE /\ mgr'.flags = {} /\ mgr.flags = {} /\ proc = NoProc
                   /\ proc' = RoundOf(evt)
<1>1. CASE "PROCESSING" \in mgr.flags
  <2>1. mgr' = [m EXCEPT !.flags = @ \cup {IF evt = "EVT_COMPLETE" THEN "COMPLETE"
                                            ELSE "RECHECK"}] /\ proc' = proc
    BY <1>1, Zenon DEF process_event
  <2>2. mgr' \in Managers
    BY <2>1, ZenonT(40) DEF Managers
  <2> QED BY <1>1, <2>1, <2>2, Zenon DEF OnOffTypeOK, Managers
<1>2. CASE "PROCESSING" \notin mgr.flags
  <2>1. mgr' = m /\ proc' = RoundOf(evt) /\ mgr.flags = {} /\ proc = NoProc
    BY <1>2, Zenon DEF process_event, Control
  <2>2. RoundOf(evt) \in Procs
    BY DEF RoundOf, Procs, Events, Results
  <2> QED BY <1>2, <2>1, <2>2, Zenon DEF NoProc, RoundOf
<1> QED BY <1>1, <1>2, Zenon
\* The service completes its transition.
LEMMA CompleteStep ==
    ASSUME OnOffInv, NEW res \in Results, transition_complete(res)
    PROVE  OnOffInv'
<1> USE DEF OnOffInv
<1> DEFINE m == [mgr EXCEPT !.last_res = res]
<1>1. m \in Managers /\ m.state = mgr.state /\ m.flags = mgr.flags /\ m.refs = mgr.refs
      /\ m.clients = mgr.clients
  BY Zenon DEF OnOffTypeOK, Managers
<1>2. Unlocked /\ transition /\ transition' = FALSE /\ process_event(m, "EVT_COMPLETE")
      /\ UNCHANGED cli
  BY Zenon DEF transition_complete
<1> HIDE DEF m
<1>3. /\ mgr' \in Managers /\ proc' \in Procs
      /\ mgr'.state = mgr.state /\ mgr'.clients = mgr.clients /\ mgr'.refs = mgr.refs
      /\ proc'.clients = proc.clients /\ proc'.res = proc.res /\ proc'.transit = proc.transit
      /\ IF "PROCESSING" \in mgr.flags
         THEN mgr'.flags = mgr.flags \cup {"COMPLETE"} /\ proc' = proc
         ELSE /\ mgr'.flags = {} /\ mgr.flags = {} /\ proc = NoProc
              /\ proc' = RoundOf("EVT_COMPLETE")
  BY <1>1, <1>2, EventRecorded, Zenon
<1>4. OnOffTypeOK' /\ Holders' = Holders
  BY <1>2, <1>3, ZenonT(40) DEF OnOffTypeOK, Holders, GotService
<1>5. Control'
  <2>1. CASE "PROCESSING" \in mgr.flags
    BY <1>2, <1>3, <2>1, Zenon DEF Control, Unlocked
  <2>2. CASE "PROCESSING" \notin mgr.flags
    BY <1>2, <1>3, <2>2 DEF Control, Unlocked, NoProc, RoundOf
  <2> QED BY <2>1, <2>2, Zenon
<1>6. ClientsKept' /\ Kinds' /\ Counts' /\ Wanted'
  BY <1>2, <1>3, <1>4, Zenon DEF ClientsKept, Kinds, Counts, Wanted, Control, Unlocked
<1> QED BY <1>4, <1>5, <1>6, Zenon

\* A client that asks for something in a state in which it has to wait: request
\* and reset.  The event is recorded unless a transition is under way.
LEMMA WaitStep ==
    ASSUME OnOffInv, NEW c \in Clients, Unlocked, cli[c] = "none",
           NEW asked \in {"requested", "resetting"},
           mgr.state # "ON", asked = "resetting" <=> mgr.state \in {"ERROR", "RESETTING"},
           cli' = [cli EXCEPT ![c] = asked], UNCHANGED transition,
           NEW m, m = [mgr EXCEPT !.clients = Append(@, c)],
           IF mgr.state \in {"OFF", "ERROR"} THEN process_event(m, "EVT_RECHECK")
           ELSE mgr' = m /\ UNCHANGED proc
    PROVE  OnOffInv'
<1> USE DEF OnOffInv
<1>1. ~OnQueue(mgr.clients, c) /\ ~OnQueue(proc.clients, c)
  BY Zenon DEF ClientsKept
<1>2. /\ Append(mgr.clients, c) \in Seq(Clients) /\ Append(mgr.clients, c) # <<>>
      /\ \A d : OnQueue(Append(mgr.clients, c), d) <=> OnQueue(mgr.clients, d) \/ d = c
      /\ NoDuplicates(Append(mgr.clients, c))
  <2>1. mgr.clients \in Seq(Clients) /\ NoDuplicates(mgr.clients)
    BY Zenon DEF OnOffTypeOK, Managers, ClientsKept
  <2> QED BY <1>1, <2>1, AppendProperties, Zenon
<1>3. m \in Managers /\ m.state = mgr.state /\ m.flags = mgr.flags /\ m.refs = mgr.refs
      /\ m.clients = Append(mgr.clients, c)
  BY <1>2, ZenonT(40) DEF OnOffTypeOK, Managers
<1>4. /\ mgr' \in Managers /\ proc' \in Procs
      /\ mgr'.state = mgr.state /\ mgr'.clients = m.clients /\ mgr'.refs = mgr.refs
      /\ proc'.clients = proc.clients /\ proc'.res = proc.res /\ proc'.transit = proc.transit
      /\ IF mgr.state \notin {"OFF", "ERROR"} THEN mgr'.flags = mgr.flags /\ proc' = proc
         ELSE IF "PROCESSING" \in mgr.flags
         THEN mgr'.flags = mgr.flags \cup {"RECHECK"} /\ proc' = proc
         ELSE /\ mgr'.flags = {} /\ mgr.flags = {} /\ proc = NoProc
              /\ proc' = RoundOf("EVT_RECHECK")
  <2>1. CASE mgr.state \in {"OFF", "ERROR"}
    BY <1>3, <2>1, EventRecorded, ZenonT(40)
  <2>2. CASE mgr.state \notin {"OFF", "ERROR"}
    BY <1>3, <2>2, ZenonT(40) DEF OnOffTypeOK
  <2> QED BY <2>1, <2>2, Zenon
<1>5. OnOffTypeOK'
  BY <1>4, Zenon DEF OnOffTypeOK
<1>6. Holders' = Holders
  <2>1. \A d \in Clients : d # c => cli'[d] = cli[d]
    BY Zenon DEF OnOffTypeOK
  <2>2. cli'[c] = asked
    BY Zenon DEF OnOffTypeOK
  <2> QED BY <1>1, <1>4, <2>1, <2>2 DEF Holders, GotService
<1>7. Counts'
  BY <1>4, <1>6, Zenon DEF Counts
<1>8. ClientsKept' /\ Kinds'
  <2>1. \A d \in Clients : cli'[d] = IF d = c THEN asked ELSE cli[d]
    BY Zenon DEF OnOffTypeOK
  <2>2. ClientsKept'
    BY <1>1, <1>2, <1>3, <1>4, <2>1 DEF ClientsKept
  <2>3. Kinds'
    BY <1>1, <1>2, <1>3, <1>4, <2>1 DEF Kinds
  <2> QED BY <2>2, <2>3, Zenon
<1>9. Control' /\ Wanted'
  <2>1. CASE mgr.state \notin {"OFF", "ERROR"}
    <3>1. mgr.state \in Transitions
      BY <2>1, Zenon DEF OnOffTypeOK, Managers, States, Transitions
    <3> QED BY <1>4, <2>1, <3>1, Zenon DEF Control, Wanted, Unlocked
  <2>2. CASE mgr.state \in {"OFF", "ERROR"} /\ "PROCESSING" \in mgr.flags
    BY <1>4, <2>2 DEF Control, Wanted, Unlocked
  <2>3. CASE mgr.state \in {"OFF", "ERROR"} /\ "PROCESSING" \notin mgr.flags
    BY <1>4, <2>3 DEF Control, Wanted, Unlocked, NoProc, RoundOf
  <2> QED BY <2>1, <2>2, <2>3, Zenon
<1> QED BY <1>5, <1>7, <1>8, <1>9, Zenon
\* Any set of clients is finite.
LEMMA FiniteHolders ==
    \A S \in SUBSET Clients : IsFiniteSet(S) /\ Cardinality(S) \in Nat
BY OnOffAssumption, FS_Subset, FS_CardinalityType, Zenon

\* onoff_request() counts a client that finds the service on, and makes others wait.
LEMMA RequestStep ==
    ASSUME OnOffInv, NEW c \in Clients, onoff_request(c)
    PROVE  OnOffInv'
<1> USE DEF OnOffInv
<1>1. CASE mgr.state = "ON"
  <2>1. /\ Unlocked /\ cli[c] = "none" /\ mgr.refs # SERVICE_REFS_MAX
        /\ mgr' = [mgr EXCEPT !.refs = @ + 1] /\ cli' = [cli EXCEPT ![c] = "on"]
        /\ UNCHANGED <<proc, transition>>
    BY <1>1, Zenon DEF onoff_request
  <2>2. /\ mgr' \in Managers /\ mgr'.refs = mgr.refs + 1 /\ mgr'.state = mgr.state
        /\ mgr'.flags = mgr.flags /\ mgr'.clients = mgr.clients /\ mgr.refs \in Nat
    BY <2>1, OnOffAssumption DEF OnOffTypeOK, Managers
  <2>3. \A d \in Clients : cli'[d] = IF d = c THEN "on" ELSE cli[d]
    BY <2>1, Zenon DEF OnOffTypeOK
  <2>4. OnOffTypeOK'
    BY <2>1, <2>2, Zenon DEF OnOffTypeOK
  <2>5. c \notin Holders /\ ~OnQueue(mgr.clients, c) /\ ~OnQueue(proc.clients, c)
    BY <2>1, Zenon DEF Holders, GotService, ClientsKept
  <2>6. Holders' = Holders \cup {c}
    BY <2>1, <2>3, <2>5, Zenon DEF Holders, GotService
  <2>7. Counts'
    <3>1. Cardinality(Holders \cup {c}) = Cardinality(Holders) + 1
      BY <2>5, FiniteHolders, FS_AddElement, Zenon DEF Holders
    <3> QED BY <1>1, <2>2, <2>6, <3>1, Zenon DEF Counts
  <2>8. ClientsKept' /\ Kinds'
    BY <2>1, <2>2, <2>3, <2>5 DEF ClientsKept, Kinds
  <2>9. Control' /\ Wanted'
    BY <2>1, <2>2 DEF Control, Wanted, Unlocked
  <2> QED BY <2>4, <2>7, <2>8, <2>9, Zenon
<1>2. CASE mgr.state # "ON"
  <2> DEFINE m == [mgr EXCEPT !.clients = Append(@, c)]
  <2>1. /\ Unlocked /\ cli[c] = "none" /\ mgr.state \in {"OFF", "TO_OFF", "TO_ON"}
        /\ cli' = [cli EXCEPT ![c] = "requested"] /\ UNCHANGED transition
        /\ IF mgr.state = "OFF" THEN process_event(m, "EVT_RECHECK")
           ELSE mgr' = m /\ UNCHANGED proc
    BY <1>2, Zenon DEF onoff_request
  <2> HIDE DEF m
  <2>2. IF mgr.state \in {"OFF", "ERROR"} THEN process_event(m, "EVT_RECHECK")
        ELSE mgr' = m /\ UNCHANGED proc
    BY <2>1, Zenon
  <2>3. m = [mgr EXCEPT !.clients = Append(@, c)]
    BY Zenon DEF m
  <2>4. "requested" = "resetting" <=> mgr.state \in {"ERROR", "RESETTING"}
    BY <2>1, Zenon
  <2> QED BY <1>2, <2>1, <2>2, <2>3, <2>4, WaitStep, ZenonT(40)
<1> QED BY <1>1, <1>2, Zenon

\* onoff_reset() makes its client wait for the service to be off.
LEMMA ResetStep ==
    ASSUME OnOffInv, NEW c \in Clients, onoff_reset(c)
    PROVE  OnOffInv'
<1> DEFINE m == [mgr EXCEPT !.clients = Append(@, c)]
<1>1. /\ Unlocked /\ cli[c] = "none" /\ mgr.state \in {"ERROR", "RESETTING"}
      /\ cli' = [cli EXCEPT ![c] = "resetting"] /\ UNCHANGED transition
      /\ IF mgr.state = "ERROR" THEN process_event(m, "EVT_RECHECK")
         ELSE mgr' = m /\ UNCHANGED proc
  BY Zenon DEF onoff_reset
<1>2. m = [mgr EXCEPT !.clients = Append(@, c)]
  BY Zenon
<1> HIDE DEF m
<1>3. IF mgr.state \in {"OFF", "ERROR"} THEN process_event(m, "EVT_RECHECK")
      ELSE mgr' = m /\ UNCHANGED proc
  BY <1>1, Zenon
<1> QED BY <1>1, <1>2, <1>3, WaitStep, ZenonT(40)

\* The last release leaves an event, so that the service is stopped.
LEMMA ReleaseStep ==
    ASSUME OnOffInv, NEW c \in Clients, onoff_release(c)
    PROVE  OnOffInv'
<1> USE DEF OnOffInv
<1> DEFINE m == [mgr EXCEPT !.refs = @ - 1]
<1>1. /\ Unlocked /\ cli[c] = "on" /\ mgr.state = "ON"
      /\ cli' = [cli EXCEPT ![c] = "none"] /\ UNCHANGED transition
      /\ IF m.refs = 0 THEN process_event(m, "EVT_RECHECK") ELSE mgr' = m /\ UNCHANGED proc
  BY Zenon DEF onoff_release
<1>2. \A d \in Clients : cli'[d] = IF d = c THEN "none" ELSE cli[d]
  BY <1>1, Zenon DEF OnOffTypeOK
<1>3. c \in Holders /\ ~OnQueue(mgr.clients, c) /\ ~OnQueue(proc.clients, c)
  BY <1>1, Zenon DEF Holders, ClientsKept
<1>4. /\ Cardinality(Holders \ {c}) = Cardinality(Holders) - 1
      /\ Cardinality(Holders \ {c}) \in Nat
  BY <1>3, FiniteHolders, FS_RemoveElement, ZenonT(40) DEF Holders
<1>5. /\ m \in Managers /\ m.refs = mgr.refs - 1 /\ m.state = mgr.state
      /\ m.flags = mgr.flags /\ m.clients = mgr.clients
  BY <1>4, OnOffAssumption DEF OnOffTypeOK, Managers, Counts
<1> HIDE DEF m
<1>6. /\ mgr' \in Managers /\ proc' \in Procs
      /\ mgr'.state = mgr.state /\ mgr'.clients = mgr.clients /\ mgr'.refs = m.refs
      /\ proc'.clients = proc.clients /\ proc'.res = proc.res /\ proc'.transit = proc.transit
      /\ IF m.refs # 0 THEN mgr'.flags = mgr.flags /\ proc' = proc
         ELSE IF "PROCESSING" \in mgr.flags
         THEN mgr'.flags = mgr.flags \cup {"RECHECK"} /\ proc' = proc
         ELSE /\ mgr'.flags = {} /\ mgr.flags = {} /\ proc = NoProc
              /\ proc' = RoundOf("EVT_RECHECK")
  <2>1. CASE m.refs = 0
    BY <1>1, <1>5, <2>1, EventRecorded, ZenonT(40)
  <2>2. CASE m.refs # 0
    BY <1>1, <1>5, <2>2, Zenon DEF OnOffTypeOK
  <2> QED BY <2>1, <2>2, Zenon
<1>7. OnOffTypeOK'
  BY <1>1, <1>6, Zenon DEF OnOffTypeOK
<1>8. Holders' = Holders \ {c}
  BY <1>2, <1>3, <1>6, Zenon DEF Holders, GotService
<1>9. Counts'
  BY <1>1, <1>4, <1>5, <1>6, <1>8, Zenon DEF Counts
<1>10. ClientsKept' /\ Kinds'
  BY <1>2, <1>3, <1>6 DEF ClientsKept, Kinds
<1>11. Control' /\ Wanted'
  <2>1. CASE m.refs # 0
    BY <1>1, <1>6, <2>1, Zenon DEF Control, Wanted, Unlocked
  <2>2. CASE m.refs = 0 /\ "PROCESSING" \in mgr.flags
    BY <1>1, <1>6, <2>2 DEF Control, Wanted, Unlocked
  <2>3. CASE m.refs = 0 /\ "PROCESSING" \notin mgr.flags
    BY <1>1, <1>6, <2>3 DEF Control, Wanted, Unlocked, NoProc, RoundOf
  <2> QED BY <2>1, <2>2, <2>3, Zenon
<1> QED BY <1>7, <1>9, <1>10, <1>11, Zenon
\* A cancelled client leaves the manager's list, and nobody else is touched.
LEMMA CancelStep ==
    ASSUME OnOffInv, NEW c \in Clients, onoff_cancel(c)
    PROVE  OnOffInv'
<1> USE DEF OnOffInv
<1>1. PICK i \in 1 .. Len(mgr.clients) :
        mgr.clients[i] = c /\ mgr' = [mgr EXCEPT !.clients = sys_slist_remove(@, i)]
  BY Zenon DEF onoff_cancel
<1>2. Unlocked /\ cli' = [cli EXCEPT ![c] = "none"] /\ UNCHANGED <<proc, transition>>
  BY Zenon DEF onoff_cancel
<1> DEFINE r == sys_slist_remove(mgr.clients, i)
<1>3. mgr.clients \in Seq(Clients) /\ NoDuplicates(mgr.clients)
  BY Zenon DEF OnOffTypeOK, Managers, ClientsKept
<1>4. /\ r \in Seq(Clients) /\ NoDuplicates(r)
      /\ \A d : OnQueue(r, d) <=> OnQueue(mgr.clients, d) /\ d # c
  BY <1>1, <1>3, SlistRemoveProperties, Zenon
<1>5. OnQueue(mgr.clients, c) /\ mgr.clients # <<>> /\ ~OnQueue(proc.clients, c)
  <2>1. OnQueue(mgr.clients, c)
    BY <1>1, Zenon DEF OnQueue
  <2> QED BY <1>3, <2>1, EmptyProperties, Zenon DEF ClientsKept
<1>6. /\ mgr' \in Managers /\ mgr'.clients = r /\ mgr'.state = mgr.state
      /\ mgr'.flags = mgr.flags /\ mgr'.refs = mgr.refs
  BY <1>1, <1>4, ZenonT(40) DEF OnOffTypeOK, Managers
<1> HIDE DEF r
<1>7. \A d \in Clients : cli'[d] = IF d = c THEN "none" ELSE cli[d]
  BY <1>2, Zenon DEF OnOffTypeOK
<1>8. OnOffTypeOK'
  BY <1>2, <1>6, Zenon DEF OnOffTypeOK
<1>9. Holders' = Holders
  <2>1. cli[c] \in {"requested", "resetting"}
    BY <1>5, Zenon DEF ClientsKept
  <2> QED BY <1>2, <1>5, <1>6, <1>7, <2>1 DEF Holders, GotService
<1>10. Counts'
  BY <1>6, <1>9, Zenon DEF Counts
<1>11. ClientsKept' /\ Kinds'
  BY <1>2, <1>4, <1>5, <1>6, <1>7 DEF ClientsKept, Kinds
<1>12. Control' /\ Wanted'
  BY <1>2, <1>5, <1>6, Zenon DEF Control, Wanted, Unlocked
<1> QED BY <1>8, <1>10, <1>11, <1>12, Zenon

\* A client that is told is no longer on a list; it has the service exactly if
\* it was counted.
LEMMA NotifyStep ==
    ASSUME OnOffInv, notify_all
    PROVE  OnOffInv'
<1> USE DEF OnOffInv
<1> DEFINE c == Head(proc.clients)
           r == Tail(proc.clients)
<1>1. /\ Unlocked /\ "PROCESSING" \in mgr.flags /\ proc.clients # <<>>
      /\ cli' = [cli EXCEPT ![c] = IF @ = "requested" /\ proc.res = "OK" THEN "on" ELSE "none"]
      /\ proc' = [proc EXCEPT !.clients = r] /\ UNCHANGED <<mgr, transition>>
  BY Zenon DEF notify_all, notify_one, Processing
<1>2. proc.clients \in Seq(Clients) /\ NoDuplicates(proc.clients)
  BY Zenon DEF OnOffTypeOK, Procs, ClientsKept
<1>3. /\ c \in Clients /\ OnQueue(proc.clients, c) /\ r \in Seq(Clients) /\ NoDuplicates(r)
      /\ \A d : OnQueue(r, d) <=> OnQueue(proc.clients, d) /\ d # c
  BY <1>1, <1>2, TailProperties, Zenon
<1> HIDE DEF c, r
<1>4. /\ proc' \in Procs /\ proc'.clients = r /\ proc'.res = proc.res /\ proc'.evt = proc.evt
      /\ proc'.transit = proc.transit
  BY <1>1, <1>3, Zenon DEF OnOffTypeOK, Procs
<1>5. \A d \in Clients : cli'[d] = IF d # c THEN cli[d]
                                   ELSE IF cli[c] = "requested" /\ proc.res = "OK"
                                   THEN "on" ELSE "none"
  BY <1>1, <1>3, Zenon DEF OnOffTypeOK
<1>6. OnOffTypeOK'
  BY <1>1, <1>3, <1>4, Zenon DEF OnOffTypeOK
<1>7. cli[c] \in {"requested", "resetting"} /\ ~OnQueue(mgr.clients, c)
  BY <1>3, Zenon DEF ClientsKept
<1>8. Holders' = Holders
  BY <1>3, <1>4, <1>5, <1>7, Zenon DEF Holders, GotService
<1>9. Counts'
  BY <1>1, <1>8, Zenon DEF Counts
<1>10. ClientsKept' /\ Kinds'
  BY <1>1, <1>3, <1>4, <1>5, <1>7 DEF ClientsKept, Kinds
<1>11. Control' /\ Wanted'
  BY <1>1, <1>4, Zenon DEF Control, Wanted, Unlocked
<1> QED BY <1>6, <1>9, <1>10, <1>11, Zenon

-----------------------------------------------------------------------------
(* The rounds of process_event().                                          *)

\* The deferred event that the loop takes up is no longer in the flags.
LEMMA RoundTaken ==
    ASSUME NEW m \in Managers, m.flags \subseteq {"COMPLETE", "RECHECK"}, NextRound(m)
    PROVE  /\ mgr' \in Managers /\ proc' \in Procs
           /\ mgr'.state = m.state /\ mgr'.clients = m.clients /\ mgr'.refs = m.refs
           /\ proc' = RoundOf(proc'.evt) /\ proc'.clients = <<>> /\ ~proc'.transit
           /\ \/ /\ "COMPLETE" \in m.flags /\ proc'.evt = "EVT_COMPLETE"
                 /\ mgr'.flags = m.flags \ {"COMPLETE"}
              \/ /\ m.flags = {"RECHECK"} /\ proc'.evt = "EVT_RECHECK" /\ mgr'.flags = {}
              \/ m.flags = {} /\ proc'.evt = "EVT_NOP" /\ mgr'.flags = {}
<1>1. \A e \in Events : RoundOf(e) \in Procs /\ RoundOf(e).evt = e /\ RoundOf(e).clients = <<>>
                        /\ ~RoundOf(e).transit
  BY DEF RoundOf, Procs, Results
<1>2. CASE "COMPLETE" \in m.flags
  <2>1. mgr' = [m EXCEPT !.flags = @ \ {"COMPLETE"}] /\ proc' = RoundOf("EVT_COMPLETE")
    BY <1>2, Zenon DEF NextRound
  <2> QED BY <1>1, <1>2, <2>1, Zenon DEF Managers, Events
<1>3. CASE "COMPLETE" \notin m.flags /\ "RECHECK" \in m.flags
  <2>1. mgr' = [m EXCEPT !.flags = @ \ {"RECHECK"}] /\ proc' = RoundOf("EVT_RECHECK")
    BY <1>3, Zenon DEF NextRound
  <2> QED BY <1>1, <1>3, <2>1 DEF Managers, Events
<1>4. CASE m.flags = {}
  <2>1. mgr' = [m EXCEPT !.flags = @ \ {"RECHECK"}] /\ proc' = RoundOf("EVT_NOP")
    BY <1>4, Zenon DEF NextRound
  <2> QED BY <1>1, <1>4, <2>1, Zenon DEF Managers, Events
<1> QED BY <1>2, <1>3, <1>4, Zenon
\* process_event() takes the lock again and goes on with what came meanwhile.
LEMMA RelockStep ==
    ASSUME OnOffInv, Relock
    PROVE  OnOffInv'
<1> USE DEF OnOffInv
<1> DEFINE m == [mgr EXCEPT !.flags = @ \ {"PROCESSING"}]
<1>1. /\ Unlocked /\ "PROCESSING" \in mgr.flags /\ proc.clients = <<>> /\ ~proc.transit
      /\ NextRound(m) /\ UNCHANGED <<transition, cli>>
  BY Zenon DEF Relock, Processing
<1>2. /\ m \in Managers /\ m.state = mgr.state /\ m.refs = mgr.refs /\ m.clients = mgr.clients
      /\ m.flags = mgr.flags \ {"PROCESSING"} /\ m.flags \subseteq {"COMPLETE", "RECHECK"}
  BY Zenon DEF OnOffTypeOK, Managers
<1> HIDE DEF m
<1>3. /\ mgr' \in Managers /\ proc' \in Procs
      /\ mgr'.state = m.state /\ mgr'.clients = m.clients /\ mgr'.refs = m.refs
      /\ proc' = RoundOf(proc'.evt) /\ proc'.clients = <<>> /\ ~proc'.transit
      /\ \/ /\ "COMPLETE" \in m.flags /\ proc'.evt = "EVT_COMPLETE"
            /\ mgr'.flags = m.flags \ {"COMPLETE"}
         \/ m.flags = {"RECHECK"} /\ proc'.evt = "EVT_RECHECK" /\ mgr'.flags = {}
         \/ m.flags = {} /\ proc'.evt = "EVT_NOP" /\ mgr'.flags = {}
  BY <1>1, <1>2, RoundTaken, Zenon
<1>4. OnOffTypeOK'
  BY <1>1, <1>3, Zenon DEF OnOffTypeOK
<1>5. Holders' = Holders
  BY <1>1, <1>3, EmptyProperties, Zenon DEF Holders, GotService
<1>6. ClientsKept' /\ Kinds' /\ Counts'
  BY <1>1, <1>2, <1>3, <1>5, EmptyProperties DEF ClientsKept, Kinds, Counts
<1>7. Control'
  BY <1>1, <1>2, <1>3 DEF Control, Unlocked, NoProc
<1>8. Wanted'
  BY <1>1, <1>2, <1>3, SMTT(40) DEF Wanted, Unlocked, Control
<1> QED BY <1>4, <1>6, <1>7, <1>8, Zenon

\* A number that fits in the width of refs is not changed by the wrap.
LEMMA NoWrap ==
    ASSUME NEW n \in Nat, NEW size \in Nat, n < size
    PROVE  n % size = n
BY SMTT(40)

\* What process_complete() makes of a manager whose transition has ended: a stable
\* state, the clients to tell, the references, and RECHECK if there is more to do.
LEMMA CompleteProperties ==
    ASSUME OnOffInv, proc.evt = "EVT_COMPLETE",
           NEW m, m = process_complete(mgr)
    PROVE  /\ m \in Managers /\ mgr.flags \subseteq m.flags /\ m.flags \subseteq {"RECHECK"}
           /\ m.monitors = mgr.monitors
           /\ m.clients # <<>> => "RECHECK" \in m.flags
           /\ m.state = "ON" /\ m.refs = 0 => "RECHECK" \in m.flags
           /\ \/ /\ mgr.last_res = "ERROR" /\ m.state = "ERROR" /\ m.clients = <<>>
                 /\ m.refs = mgr.refs /\ Completed(mgr) = mgr.clients
              \/ /\ mgr.last_res = "OK" /\ mgr.state = "TO_ON" /\ m.state = "ON"
                 /\ m.clients = <<>> /\ m.refs = Len(mgr.clients)
                 /\ Completed(mgr) = mgr.clients
              \/ /\ mgr.last_res = "OK" /\ mgr.state = "RESETTING" /\ m.state = "OFF"
                 /\ m.clients = <<>> /\ m.refs = mgr.refs /\ Completed(mgr) = mgr.clients
              \/ /\ mgr.last_res = "OK" /\ mgr.state = "TO_OFF" /\ m.state = "OFF"
                 /\ m.clients = mgr.clients /\ m.refs = mgr.refs /\ Completed(mgr) = <<>>
<1> USE DEF OnOffInv
<1>1. /\ mgr \in Managers /\ mgr.flags \subseteq {"RECHECK"} /\ mgr.state \in Transitions
      /\ mgr.refs = 0 /\ mgr.last_res \in {"OK", "ERROR"}
  BY Zenon DEF OnOffTypeOK, Managers, Results, Control, Unlocked, Counts, Transitions
<1>2. ASSUME NEW k \in Managers, k.flags \subseteq {"RECHECK"}, k.state \in {"ON", "OFF"},
             k.state = "ON" => k.clients = <<>>
      PROVE  /\ Rechecks(k) \in Managers /\ k.flags \subseteq Rechecks(k).flags
             /\ Rechecks(k).flags \subseteq {"RECHECK"}
             /\ Rechecks(k).monitors = k.monitors /\ Rechecks(k).state = k.state
             /\ Rechecks(k).refs = k.refs /\ Rechecks(k).clients = k.clients
             /\ k.clients # <<>> => "RECHECK" \in Rechecks(k).flags
             /\ k.state = "ON" /\ k.refs = 0 => "RECHECK" \in Rechecks(k).flags
  <2>1. CASE process_recheck(k) = "EVT_NOP"
    BY <1>2, <2>1, Zenon DEF Rechecks, process_recheck
  <2>2. CASE process_recheck(k) # "EVT_NOP"
    <3>1. Rechecks(k) = [k EXCEPT !.flags = @ \cup {"RECHECK"}]
      BY <2>2, Zenon DEF Rechecks
    <3> QED BY <1>2, <3>1 DEF Managers
  <2> QED BY <2>1, <2>2, Zenon
<1>3. <<>> \in Seq(Clients) /\ "ON" \in States /\ "OFF" \in States /\ "ERROR" \in States
  BY DEF States
<1>4. CASE mgr.last_res = "ERROR"
  <2>1. m = [mgr EXCEPT !.state = "ERROR", !.clients = <<>>] /\ Completed(mgr) = mgr.clients
    BY <1>4, Zenon DEF process_complete, Completed
  <2>2. /\ m \in Managers /\ m.flags = mgr.flags /\ m.state = "ERROR" /\ m.clients = <<>>
        /\ m.refs = mgr.refs /\ m.monitors = mgr.monitors
    BY <1>1, <1>3, <2>1, ZenonT(40) DEF Managers
  <2> QED BY <1>1, <1>4, <2>1, <2>2, Zenon
<1>5. CASE mgr.last_res = "OK" /\ mgr.state = "TO_ON"
  <2> DEFINE n == (mgr.refs + Len(mgr.clients)) % (SERVICE_REFS_MAX + 1)
             k == [mgr EXCEPT !.state = "ON", !.clients = <<>>, !.refs = n]
  <2>1. mgr.clients \in Seq(Clients) /\ NoDuplicates(mgr.clients)
    BY Zenon DEF OnOffTypeOK, Managers, ClientsKept
  <2>2. Len(mgr.clients) \in 0 .. SERVICE_REFS_MAX
    BY <2>1, LengthProperties, ZenonT(40)
  <2>3. n = Len(mgr.clients)
    <3>1. mgr.refs + Len(mgr.clients) = Len(mgr.clients)
      BY <1>1, <2>2, OnOffAssumption
    <3>2. /\ Len(mgr.clients) \in Nat /\ SERVICE_REFS_MAX + 1 \in Nat
          /\ Len(mgr.clients) < SERVICE_REFS_MAX + 1
      BY <2>2, OnOffAssumption
    <3> QED BY <3>1, <3>2, NoWrap, Zenon
  <2>4. m = Rechecks(k) /\ Completed(mgr) = mgr.clients
    BY <1>5, Zenon DEF process_complete, Completed
  <2> HIDE DEF n
  <2>5. /\ k \in Managers /\ k.flags = mgr.flags /\ k.state = "ON" /\ k.clients = <<>>
        /\ k.refs = Len(mgr.clients) /\ k.monitors = mgr.monitors
    BY <1>1, <1>3, <2>2, <2>3, ZenonT(40) DEF Managers
  <2> HIDE DEF k
  <2> QED BY <1>1, <1>2, <1>5, <2>4, <2>5
<1>6. CASE mgr.last_res = "OK" /\ mgr.state = "RESETTING"
  <2> DEFINE k == [mgr EXCEPT !.state = "OFF", !.clients = <<>>]
  <2>1. m = Rechecks(k) /\ Completed(mgr) = mgr.clients
    BY <1>6, Zenon DEF process_complete, Completed
  <2>2. /\ k \in Managers /\ k.flags = mgr.flags /\ k.state = "OFF" /\ k.clients = <<>>
        /\ k.refs = mgr.refs /\ k.monitors = mgr.monitors
    BY <1>1, <1>3, ZenonT(40) DEF Managers
  <2> HIDE DEF k
  <2> QED BY <1>1, <1>2, <1>6, <2>1, <2>2
<1>7. CASE mgr.last_res = "OK" /\ mgr.state = "TO_OFF"
  <2> DEFINE k == [mgr EXCEPT !.state = "OFF"]
  <2>1. m = Rechecks(k) /\ Completed(mgr) = <<>>
    BY <1>7, Zenon DEF process_complete, Completed
  <2>2. /\ k \in Managers /\ k.flags = mgr.flags /\ k.state = "OFF" /\ k.clients = mgr.clients
        /\ k.refs = mgr.refs /\ k.monitors = mgr.monitors
    BY <1>1, Zenon DEF Managers, States
  <2> HIDE DEF k
  <2> QED BY <1>1, <1>2, <1>7, <2>1, <2>2
<1> QED BY <1>1, <1>4, <1>5, <1>6, <1>7, Zenon DEF Transitions
\* A round that completes a transition.
LEMMA CompletionRound ==
    ASSUME OnOffInv, proc.evt = "EVT_COMPLETE", ProcessRound
    PROVE  OnOffInv'
<1> USE DEF OnOffInv
<1> DEFINE m == process_complete(mgr)
           told == Completed(mgr)
           do_monitors == m.state # mgr.state /\ m.monitors
<1>1. /\ m \in Managers /\ mgr.flags \subseteq m.flags /\ m.flags \subseteq {"RECHECK"}
      /\ m.clients # <<>> => "RECHECK" \in m.flags
      /\ m.state = "ON" /\ m.refs = 0 => "RECHECK" \in m.flags
      /\ \/ /\ mgr.last_res = "ERROR" /\ m.state = "ERROR" /\ m.clients = <<>>
            /\ m.refs = mgr.refs /\ told = mgr.clients
         \/ /\ mgr.last_res = "OK" /\ mgr.state = "TO_ON" /\ m.state = "ON"
            /\ m.clients = <<>> /\ m.refs = Len(mgr.clients) /\ told = mgr.clients
         \/ /\ mgr.last_res = "OK" /\ mgr.state = "RESETTING" /\ m.state = "OFF"
            /\ m.clients = <<>> /\ m.refs = mgr.refs /\ told = mgr.clients
         \/ /\ mgr.last_res = "OK" /\ mgr.state = "TO_OFF" /\ m.state = "OFF"
            /\ m.clients = mgr.clients /\ m.refs = mgr.refs /\ told = <<>>
  BY CompleteProperties, Zenon
<1>2. /\ mgr.clients \in Seq(Clients) /\ NoDuplicates(mgr.clients) /\ mgr.refs = 0
      /\ mgr.last_res \in Results /\ proc.clients = <<>> /\ ~transition
      /\ mgr.state \in Transitions /\ cli \in [Clients -> {"none", "requested", "resetting", "on"}]
  BY DEF OnOffTypeOK, Managers, ClientsKept, Control, Counts, Unlocked, Transitions, RoundOf
<1>3. /\ UNCHANGED <<transition, cli>>
      /\ IF do_monitors \/ told # <<>>
         THEN /\ mgr' = [m EXCEPT !.flags = @ \cup {"PROCESSING"}]
              /\ proc' = [evt |-> "EVT_NOP", do_monitors |-> do_monitors, clients |-> told,
                          transit |-> FALSE, res |-> mgr.last_res]
         ELSE NextRound(m)
  BY ZenonT(40) DEF ProcessRound
<1>4. told \in Seq(Clients) /\ do_monitors \in BOOLEAN
  BY <1>1, <1>2, EmptyProperties, ZenonT(40) DEF Managers
<1> HIDE DEF m, told, do_monitors
<1>5. /\ mgr' \in Managers /\ proc' \in Procs /\ mgr'.state = m.state
      /\ mgr'.clients = m.clients /\ mgr'.refs = m.refs /\ ~proc'.transit
      /\ proc'.clients = told
      /\ told # <<>> => proc'.res = mgr.last_res
      /\ \/ mgr'.flags = m.flags \cup {"PROCESSING"} /\ proc'.evt = "EVT_NOP"
         \/ /\ told = <<>> /\ m.flags = {"RECHECK"} /\ proc'.evt = "EVT_RECHECK"
            /\ mgr'.flags = {} /\ proc' = RoundOf(proc'.evt)
         \/ /\ told = <<>> /\ m.flags = {} /\ proc'.evt = "EVT_NOP" /\ mgr'.flags = {}
            /\ proc' = NoProc
  <2>1. CASE do_monitors \/ told # <<>>
    <3>1. mgr' \in Managers
      BY <1>1, <1>3, <2>1 DEF Managers
    <3>2. proc' \in Procs
      <4>1. "EVT_NOP" \in Events
        BY Zenon DEF Events
      <4>2. \A b \in BOOLEAN :
              [evt |-> "EVT_NOP", do_monitors |-> b, clients |-> told, transit |-> FALSE,
               res |-> mgr.last_res] \in Procs
        BY <1>2, <1>4, <4>1, Zenon DEF Procs
      <4> QED BY <1>3, <1>4, <2>1, <4>2, Zenon
    <3> QED BY <1>1, <1>3, <2>1, <3>1, <3>2 DEF Managers
  <2>2. CASE ~(do_monitors \/ told # <<>>)
    <3>1. NextRound(m) /\ m.flags \subseteq {"COMPLETE", "RECHECK"}
      BY <1>1, <1>3, <2>2, Zenon
    <3> QED BY <1>1, <2>2, <3>1, RoundTaken, Zenon DEF NoProc
  <2> QED BY <2>1, <2>2, Zenon
<1>6. OnOffTypeOK'
  BY <1>2, <1>3, <1>5, Zenon DEF OnOffTypeOK
<1>7. \A c \in Clients : /\ OnQueue(mgr.clients, c) <=> cli[c] \in {"requested", "resetting"}
                         /\ OnQueue(mgr.clients, c) =>
                               (cli[c] = "resetting" <=> mgr.state \in {"ERROR", "RESETTING"})
  BY <1>2, EmptyProperties, Zenon DEF ClientsKept, Kinds
<1>8. Holders = {}
  BY <1>2, FiniteHolders, FS_EmptySet, ZenonT(40) DEF Counts, Holders
<1>9. Counts'
  <2>1. CASE mgr.last_res = "OK" /\ mgr.state = "TO_ON"
    <3>1. Holders' = {c \in Clients : OnQueue(mgr.clients, c)}
      <4>1. \A c \in Clients : cli[c] # "on"
        BY <1>8, Zenon DEF Holders
      <4>2. ASSUME NEW c \in Clients
            PROVE  GotService(c)' <=> OnQueue(mgr.clients, c)
        BY <1>1, <1>3, <1>5, <1>7, <2>1, EmptyProperties, <1>2, Zenon DEF GotService
      <4> QED BY <1>3, <4>1, <4>2, Zenon DEF Holders
    <3> QED BY <1>1, <1>2, <1>5, <2>1, <3>1, LengthProperties, Zenon DEF Counts
  <2>2. CASE ~(mgr.last_res = "OK" /\ mgr.state = "TO_ON")
    <3>1. m.state # "ON" /\ m.refs = mgr.refs
      BY <1>1, <2>2, Zenon
    <3>2. Holders' = {}
      <4>1. ASSUME NEW c \in Clients, GotService(c)' PROVE FALSE
        <5>1. OnQueue(told, c) /\ cli[c] = "requested" /\ proc'.res = "OK"
          BY <1>3, <1>5, <4>1, Zenon DEF GotService
        <5>2. told # <<>>
          BY <1>4, <5>1, EmptyProperties, Zenon
        <5>3. mgr.last_res = "OK" /\ told = mgr.clients /\ mgr.state = "RESETTING"
          BY <1>1, <1>5, <2>2, <5>1, <5>2, Zenon
        <5> QED BY <1>7, <5>1, <5>3, Zenon
      <4> QED BY <1>3, <1>8, <4>1, Zenon DEF Holders
    <3> QED BY <1>2, <1>5, <3>1, <3>2, FS_EmptySet, Zenon DEF Counts
  <2> QED BY <2>1, <2>2, Zenon
<1>10. ClientsKept'
  BY <1>1, <1>2, <1>3, <1>5, <1>7, EmptyProperties DEF ClientsKept
<1>11. Kinds'
  <2>1. ASSUME NEW c \in Clients, OnQueue(told, c)
        PROVE  m.state = IF mgr.last_res = "ERROR" THEN "ERROR"
                         ELSE IF cli[c] = "requested" THEN "ON" ELSE "OFF"
    BY <1>1, <1>2, <1>7, <2>1, EmptyProperties, Zenon
  <2>2. ASSUME NEW c \in Clients, OnQueue(m.clients, c)
        PROVE  m.state = "OFF" /\ cli[c] # "resetting"
    BY <1>1, <1>2, <1>7, <2>2, EmptyProperties, Zenon
  <2>3. \A c \in Clients : OnQueue(told, c) => proc'.res = mgr.last_res
    BY <1>4, <1>5, EmptyProperties, Zenon
  <2> QED BY <1>3, <1>5, <2>1, <2>2, <2>3, Zenon DEF Kinds
<1>12. Control'
  <2>1. m.state \notin Transitions
    BY <1>1, Zenon DEF Transitions
  <2> QED BY <1>1, <1>2, <1>3, <1>5, <2>1, Zenon DEF Control, Unlocked
<1>13. Wanted'
  BY <1>1, <1>5, Zenon DEF Wanted
<1> QED BY <1>6, <1>9, <1>10, <1>11, <1>12, <1>13, Zenon
\* A round that rechecks the state: nothing is wanted, or a transition begins.
LEMMA RecheckRound ==
    ASSUME OnOffInv, proc.evt = "EVT_RECHECK", ProcessRound
    PROVE  OnOffInv'
<1> USE DEF OnOffInv
<1> DEFINE evt == process_recheck(mgr)
           to == IF evt = "EVT_START" THEN "TO_ON" ELSE IF evt = "EVT_STOP" THEN "TO_OFF"
                 ELSE "RESETTING"
           do_monitors == to # mgr.state /\ mgr.monitors
<1>1. /\ mgr \in Managers /\ mgr.flags = {} /\ proc = RoundOf("EVT_RECHECK")
      /\ proc.clients = <<>> /\ ~Unlocked /\ ~proc.transit
  BY DEF OnOffTypeOK, Control, Unlocked, RoundOf
<1>2. mgr.state = "ON" => mgr.clients = <<>>
  BY <1>1, EmptyProperties, Zenon DEF Kinds, Managers
<1>3. /\ evt = "EVT_START" => mgr.state = "OFF"
      /\ evt = "EVT_STOP" => mgr.state = "ON" /\ mgr.refs = 0
      /\ evt = "EVT_RESET" => mgr.state = "ERROR"
      /\ evt \in {"EVT_NOP", "EVT_START", "EVT_STOP", "EVT_RESET"}
      /\ evt = "EVT_NOP" => /\ mgr.clients # <<>> => mgr.state \in Transitions
                            /\ ~(mgr.state = "ON" /\ mgr.refs = 0)
  BY <1>1, <1>2, Zenon DEF process_recheck, Managers, States, Transitions
<1>4. CASE evt = "EVT_NOP"
  <2>1. proc' = NoProc /\ UNCHANGED <<mgr, transition, cli>>
    BY <1>4, Zenon DEF ProcessRound
  <2>2. /\ NoProc \in Procs /\ NoProc.clients = <<>> /\ ~NoProc.transit
        /\ NoProc.evt = "EVT_NOP"
    BY DEF NoProc, RoundOf, Procs, Events, Results
  <2> HIDE DEF evt
  <2>3. OnOffTypeOK'
    BY <2>1, <2>2, Zenon DEF OnOffTypeOK
  <2>4. Holders' = Holders
    BY <1>1, <2>1, <2>2, EmptyProperties, Zenon DEF Holders, GotService
  <2>5. ClientsKept' /\ Kinds' /\ Counts'
    BY <1>1, <2>1, <2>2, <2>4, EmptyProperties, Zenon DEF ClientsKept, Kinds, Counts
  <2>6. Control' /\ Wanted'
    BY <1>1, <1>3, <1>4, <2>1, <2>2, Zenon DEF Control, Wanted, Unlocked
  <2> QED BY <2>3, <2>5, <2>6, Zenon
<1>5. CASE evt # "EVT_NOP"
  <2>1. /\ UNCHANGED <<transition, cli>>
        /\ mgr' = [[mgr EXCEPT !.state = to] EXCEPT !.flags = @ \cup {"PROCESSING"}]
        /\ proc' = [evt |-> "EVT_NOP", do_monitors |-> do_monitors, clients |-> <<>>,
                    transit |-> TRUE, res |-> "OK"]
    <3> DEFINE k == [mgr EXCEPT !.state = to]
    <3>1. k.state = to /\ k.monitors = mgr.monitors
      BY <1>1, Zenon DEF Managers
    <3>2. /\ UNCHANGED <<transition, cli>>
          /\ mgr' = [k EXCEPT !.flags = @ \cup {"PROCESSING"}]
          /\ proc' = [evt |-> "EVT_NOP", do_monitors |-> k.state # mgr.state /\ k.monitors,
                      clients |-> <<>>, transit |-> evt # "EVT_COMPLETE", res |-> "OK"]
      <4>1. CASE evt = "EVT_START"
        BY <4>1, Zenon DEF ProcessRound
      <4>2. CASE evt = "EVT_STOP"
        BY <4>2, Zenon DEF ProcessRound
      <4>3. CASE evt = "EVT_RESET"
        BY <4>3, Zenon DEF ProcessRound
      <4> QED BY <1>3, <1>5, <4>1, <4>2, <4>3, Zenon
    <3>3. (evt # "EVT_COMPLETE") = TRUE
      BY <1>3, Zenon
    <3> QED BY <3>1, <3>2, <3>3, ZenonT(40)
  <2>2. to \in States /\ to \in Transitions
    BY Zenon DEF States, Transitions
  <2>3. do_monitors \in BOOLEAN
    BY <1>1, Zenon DEF Managers
  <2> HIDE DEF evt
  <2>4. \A k \in Transitions :
          LET n == [[mgr EXCEPT !.state = k] EXCEPT !.flags = @ \cup {"PROCESSING"}]
          IN  /\ n \in Managers /\ n.state = k /\ n.refs = mgr.refs
              /\ n.clients = mgr.clients /\ n.flags = {"PROCESSING"}
    BY <1>1, ZenonT(40) DEF Managers, States, Transitions
  <2>5. /\ mgr' \in Managers /\ mgr'.state = to /\ mgr'.refs = mgr.refs
        /\ mgr'.clients = mgr.clients /\ mgr'.flags = {"PROCESSING"}
    BY <2>1, <2>2, <2>4, ZenonT(40)
  <2>6. /\ proc' \in Procs /\ proc'.evt = "EVT_NOP" /\ proc'.clients = <<>> /\ proc'.transit
    <3>1. \A b \in BOOLEAN :
            LET r == [evt |-> "EVT_NOP", do_monitors |-> b, clients |-> <<>>, transit |-> TRUE,
                      res |-> "OK"]
            IN  r \in Procs /\ r.evt = "EVT_NOP" /\ r.clients = <<>> /\ r.transit
      BY DEF Procs, Events, Results
    <3> QED BY <2>1, <2>3, <3>1, Zenon
  <2>7. OnOffTypeOK'
    BY <2>1, <2>5, <2>6, Zenon DEF OnOffTypeOK
  <2>8. Holders' = Holders
    BY <1>1, <2>1, <2>6, EmptyProperties, Zenon DEF Holders, GotService
  <2>9. Counts'
    BY <1>3, <1>5, <2>2, <2>5, <2>8, Zenon DEF Counts, Transitions
  <2>10. ClientsKept'
    BY <1>1, <2>1, <2>5, <2>6, EmptyProperties, Zenon DEF ClientsKept
  <2>11. Kinds'
    BY <1>2, <1>3, <1>5, <2>1, <2>5, <2>6, EmptyProperties, SMTT(40) DEF Kinds
  <2>12. Control' /\ Wanted'
    <3>1. ~transition
      BY <1>3, <1>5, Zenon DEF Control, Transitions
    <3> QED BY <2>1, <2>2, <2>5, <2>6, <3>1 DEF Control, Wanted, Unlocked
  <2> QED BY <2>7, <2>9, <2>10, <2>11, <2>12, Zenon
<1> QED BY <1>4, <1>5, Zenon

\* Every step keeps the invariant.
LEMMA OnOffInductive == OnOffInv /\ [OnOffNext]_onoffVars => OnOffInv'
<1> SUFFICES ASSUME OnOffInv, [OnOffNext]_onoffVars PROVE OnOffInv'
  BY Zenon
<1>1. CASE UNCHANGED onoffVars
  BY <1>1, Zenon DEF onoffVars, OnOffInv, OnOffTypeOK, ClientsKept, Kinds, Counts, Holders, GotService,
              Control, Wanted, Unlocked
<1>2. CASE ProcessRound
  <2>1. proc.evt \in {"EVT_COMPLETE", "EVT_RECHECK"}
    BY <1>2, Zenon DEF ProcessRound, OnOffInv, Control
  <2> QED BY <1>2, <2>1, CompletionRound, RecheckRound, Zenon
<1>3. ASSUME NEW c \in Clients,
             onoff_request(c) \/ onoff_release(c) \/ onoff_reset(c) \/ onoff_cancel(c)
      PROVE  OnOffInv'
  BY <1>3, RequestStep, ReleaseStep, ResetStep, CancelStep, Zenon
<1> QED
  BY <1>1, <1>2, <1>3, QuietSteps, NotifyStep, RelockStep, CompleteStep, Zenon DEF OnOffNext

\* The invariant of the on-off manager holds in every reachable state, whatever
\* calls come while process_event() has released the lock.
THEOREM OnOffInvariant == OnOffSpec => []OnOffInv
BY OnOffInitial, OnOffInductive, PTL DEF OnOffSpec

\* The reference count is the number of clients that have got the service, and
\* every client that waits is on one list.
THEOREM ReferencesCorrect == OnOffSpec => [](RefsExact /\ ClientsKept)
<1>1. OnOffInv => RefsExact /\ ClientsKept
  BY Zenon DEF OnOffInv, Counts, Holders, RefsExact
<1> QED BY <1>1, OnOffInvariant, PTL

\* No event that comes while process_event() is active is lost: nobody waits
\* without a transition or an event to end the wait.
THEOREM EventsKeptCorrect == OnOffSpec => []EventsKept
<1>1. OnOffInv => EventsKept
  BY Zenon DEF OnOffInv, Control, Wanted, EventsKept, Unlocked, OnOffTypeOK, Managers
<1> QED BY <1>1, OnOffInvariant, PTL

\* A client that has been told that the service is on finds it on until it
\* releases it, and clients are told the result of their own transition.
THEOREM ToldTrulyCorrect == OnOffSpec => []ToldTruly
<1>1. ASSUME OnOffInv PROVE ToldTruly
  <2>1. ASSUME NEW c \in Clients, cli[c] = "on" \/ GotService(c)
        PROVE  mgr.state = "ON"
    <3>1. Holders # {}
      BY <2>1, Zenon DEF Holders
    <3>2. mgr.refs # 0
      BY <1>1, <3>1, FiniteHolders, FS_EmptySet, Zenon DEF OnOffInv, Counts, Holders
    <3> QED BY <1>1, <3>2, Zenon DEF OnOffInv, Counts
  <2>2. ASSUME NEW c \in Clients, OnQueue(proc.clients, c), ~GotService(c)
        PROVE  mgr.state = IF proc.res = "OK" THEN "OFF" ELSE "ERROR"
    BY <1>1, <2>2, Zenon DEF OnOffInv, Kinds, GotService, OnOffTypeOK, Procs, Results
  <2> QED BY <2>1, <2>2, Zenon DEF ToldTruly
<1> QED BY <1>1, OnOffInvariant, PTL
=============================================================================
