-------------------------------- MODULE Futex -------------------------------
(***************************************************************************)
(* The semaphore of user mode, sys_sem of lib/os/sem.c, on the futex of    *)
(* kernel/futex.c.  Its count is a word that its users change without any  *)
(* lock; the kernel is called only to wait, and to wake those who do.      *)
(***************************************************************************)
EXTENDS Waiting

CONSTANTS
    futex,          \* the futex's wait_q
    SemLimit        \* sem->limit

ASSUME FutexAssumption == SemLimit \in Nat \ {0}

VARIABLES
    val,            \* sem->futex.val; SYS_SEM_CONTENDED once someone may wait
    timeout_arg,    \* the timeout argument of a thread's sys_sem_take()
    tokens,         \* history: counts given and not taken
    missed          \* history: in k_futex_wait(), past the comparison when a
                    \* k_futex_wake() found nobody to wake

futexVars == <<val, timeout_arg, tokens, missed>>

SYS_SEM_MINIMUM == 0
SYS_SEM_CONTENDED == SYS_SEM_MINIMUM - 1

FutexTypeOK ==
    /\ val \in SYS_SEM_CONTENDED .. SemLimit
    /\ timeout_arg \in [Threads -> Waits]
    /\ tokens \in 0 .. SemLimit
    /\ missed \subseteq Threads

\* sys_sem_init()
FutexInit ==
    /\ val = 0
    /\ timeout_arg = [t \in Threads |-> "NO_WAIT"]
    /\ tokens = 0
    /\ missed = {}

-----------------------------------------------------------------------------
bounded_dec(v) == IF v < SYS_SEM_MINIMUM THEN v ELSE v - 1

bounded_inc(v) ==
    IF v >= SemLimit THEN v
    ELSE IF v < SYS_SEM_MINIMUM THEN SYS_SEM_MINIMUM + 1 ELSE v + 1

sys_sem_count_get == IF val > SYS_SEM_MINIMUM THEN val ELSE SYS_SEM_MINIMUM

\* with wake_all, the only way sys_sem calls it; a call for one waiter is left
\* out, and so is the number woken, at which sys_sem does not look
k_futex_wake ==
    /\ p' = FoldLeft(LAMBDA s, t : HandOver(s, futex), p, p.waitq[futex])
    /\ missed' = missed \cup {t \in Threads : call[t] = "compared"}

\* -EAGAIN at the limit.  A thread can be preempted before it wakes the
\* waiters, an interrupt handler cannot be by a thread.
sys_sem_give(c) ==
    /\ MayCall(c)
    /\ val' = bounded_inc(val)
    /\ tokens' = IF val < SemLimit THEN tokens + 1 ELSE tokens
    /\ IF val < 0 /\ c = ISR THEN k_futex_wake /\ UNCHANGED call
       ELSE /\ call' = IF val < 0 THEN [call EXCEPT ![c] = "give"] ELSE call
            /\ UNCHANGED <<p, missed>>
    /\ UNCHANGED <<timeout_arg, swap_data, held, announced>>

GiveWake(t) ==
    /\ call[t] = "give" /\ Executes(t)
    /\ k_futex_wake
    /\ call' = [call EXCEPT ![t] = "none"]
    /\ UNCHANGED <<val, timeout_arg, tokens, swap_data, held, announced>>

\* one turn of the loop of sys_sem_take(): take a count, or go on to wait
TakeLoop(t) ==
    /\ val' = bounded_dec(val)
    /\ tokens' = IF val > 0 THEN tokens - 1 ELSE tokens
    /\ call' = [call EXCEPT ![t] = IF val > 0 THEN "none" ELSE "compare"]
    /\ UNCHANGED <<p, missed, swap_data, held, announced>>

sys_sem_take(t, wait) ==
    /\ MayCall(t)
    /\ timeout_arg' = [timeout_arg EXCEPT ![t] = wait]
    /\ TakeLoop(t)

TakeAgain(t) ==
    /\ call[t] = "take" /\ Executes(t)
    /\ TakeLoop(t) /\ UNCHANGED timeout_arg

\* k_futex_wait() compares before it takes the lock; -EAGAIN, and the loop
\* goes on, when someone has given since
k_futex_wait(t) ==
    /\ call[t] = "compare" /\ Executes(t)
    /\ call' = [call EXCEPT ![t] = IF val # SYS_SEM_CONTENDED THEN "take" ELSE "compared"]
    /\ UNCHANGED <<futexVars, p, swap_data, held, announced>>

\* K_NO_WAIT is not treated apart: the thread waits for the next tick
FutexPend(t) ==
    /\ call[t] = "compared" /\ Executes(t)
    /\ p' = z_pend_curr(p, t, futex, timeout_arg[t])
    /\ call' = [call EXCEPT ![t] = "futex"]
    /\ UNCHANGED <<futexVars, swap_data, held, announced>>

\* 0 leads back to the loop, -ETIMEDOUT out of it
FutexReturn(t) ==
    /\ call[t] = "futex" /\ Executes(t)
    /\ Returned(t)
    /\ call' = [call EXCEPT ![t] = IF p.swap_retval[t] = "OK" THEN "take" ELSE "none"]
    /\ missed' = missed \ {t}
    /\ UNCHANGED <<val, timeout_arg, tokens, swap_data, held, announced>>

FutexNext ==
    \/ \E c \in Callers : sys_sem_give(c)
    \/ \E t \in Threads :
          \/ GiveWake(t) \/ TakeAgain(t) \/ k_futex_wait(t) \/ FutexPend(t) \/ FutexReturn(t)
          \/ \E wait \in Waits : sys_sem_take(t, wait)
=============================================================================
