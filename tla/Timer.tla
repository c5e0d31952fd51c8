-------------------------------- MODULE Timer -------------------------------
(***************************************************************************)
(* The timer of kernel/timer.c.  Its timeout is linked, or not; when it    *)
(* expires, sys_clock_announce() unlinks it and then, with interrupts      *)
(* enabled, calls z_timer_expiration_handler(), which enables them again   *)
(* while the user's expiry function runs.  An interrupt may start or stop  *)
(* the timer in both windows.                                              *)
(*                                                                         *)
(* k_timer_start() and k_timer_stop() take no lock.  By a thread, they are *)
(* cut behind z_abort_timeout(), where an interrupt on the same timer can  *)
(* do most.  Durations are left out: a linked timeout expires at some      *)
(* time.                                                                   *)
(***************************************************************************)
EXTENDS Waiting

CONSTANTS
    timer,          \* the timer, and its wait_q
    StarterSets,    \* who starts the timer, in the applications considered
    TimerUser,      \* the one thread that examines the timer's status
    MaxStatus       \* bound: the timer does not expire past this status

ASSUME TimerAssumption ==
    /\ timer \in Timers /\ StarterSets \subseteq SUBSET Callers /\ TimerUser \in Threads
    /\ MaxStatus \in Nat

VARIABLES
    starters,       \* who starts the timer in this application
    linked,         \* the timer's timeout is on the list
    periodic,       \* timer->period is neither K_NO_WAIT nor K_FOREVER
    status,
    handler,        \* how far z_timer_expiration_handler() is
    due,            \* the deadline that passed is the current one: a history variable
    relinked        \* z_add_timeout() has been called on a linked timeout

timerVars == <<starters, linked, periodic, status, handler, due, relinked>>

TimerTypeOK ==
    /\ starters \in StarterSets
    /\ linked \in BOOLEAN /\ periodic \in BOOLEAN
    /\ status \in 0 .. MaxStatus + 1
    /\ handler \in {"none", "called", "expiry_fn"}
    /\ due \in BOOLEAN /\ relinked \in BOOLEAN

TimerInit ==
    /\ starters \in StarterSets
    /\ linked = FALSE /\ periodic = FALSE /\ status = 0
    /\ handler = "none" /\ due = FALSE /\ relinked = FALSE

-----------------------------------------------------------------------------
z_add_timeout ==
    /\ linked' = TRUE
    /\ relinked' = (relinked \/ linked)

\* sys_clock_announce() unlinks the timer's timeout
TimerAnnounce ==
    /\ p.expired = NULL /\ announced = NULL /\ linked /\ status <= MaxStatus
    /\ linked' = FALSE /\ announced' = timer
    /\ handler' = "called" /\ due' = TRUE
    /\ UNCHANGED <<starters, periodic, status, relinked, p, call, swap_data, held>>

\* mutant: the timer fires although it has been started again
z_timer_expiration_handler_Restarted ==
    /\ handler = "called" /\ handler' = "expiry_fn"
    /\ status' = status + 1
    /\ linked' = (linked \/ periodic)
    /\ UNCHANGED <<starters, periodic, due, relinked, waiting>>

\* z_timer_expiration_handler() up to the call of expiry_fn: a periodic timer
\* is added again; one that was started meanwhile is left alone
z_timer_expiration_handler ==
    /\ handler = "called"
    /\ IF linked
       THEN /\ handler' = "none" /\ announced' = NULL
            /\ UNCHANGED <<linked, status, relinked>>
       ELSE /\ handler' = "expiry_fn"
            /\ status' = status + 1
            /\ IF periodic THEN z_add_timeout ELSE UNCHANGED <<linked, relinked>>
            /\ UNCHANGED announced
    /\ UNCHANGED <<starters, periodic, due, p, call, swap_data, held>>

\* expiry_fn has returned: the first thread that waits is made ready
ExpiryDone ==
    /\ handler = "expiry_fn"
    /\ handler' = "none" /\ announced' = NULL
    /\ p' = IF p.waitq[timer] # <<>> THEN HandOver(p, timer) ELSE p
    /\ UNCHANGED <<starters, linked, periodic, status, due, relinked, call, swap_data, held>>

\* k_timer_start() with a duration other than K_FOREVER, from an interrupt
k_timer_start(c, period) ==
    /\ c = ISR /\ c \in starters
    /\ linked' = TRUE                   \* z_abort_timeout(), then z_add_timeout()
    /\ periodic' = period /\ status' = 0
    /\ due' = FALSE
    /\ UNCHANGED <<starters, handler, relinked, waiting>>

\* k_timer_start() by a thread: z_abort_timeout()
StartAbort(t) ==
    /\ t \in starters /\ MayCall(t)
    /\ linked' = FALSE /\ due' = FALSE
    /\ call' = [call EXCEPT ![t] = "start"]
    /\ UNCHANGED <<starters, periodic, status, handler, relinked, p, swap_data, held, announced>>

StartAdd(t, period) ==
    /\ call[t] = "start" /\ Executes(t)
    /\ periodic' = period /\ status' = 0
    /\ z_add_timeout
    /\ call' = [call EXCEPT ![t] = "none"]
    /\ UNCHANGED <<starters, handler, due, p, swap_data, held, announced>>

\* k_timer_stop() from an interrupt.  On an inactive timer, which includes one
\* whose handler is about to run, it has no effect.  The waiter has no timeout,
\* and its return value is ignored by k_timer_status_sync()
k_timer_stop(c) ==
    /\ c = ISR /\ InterruptMay("k_timer_stop") /\ linked
    /\ linked' = FALSE
    /\ p' = IF p.waitq[timer] # <<>> THEN HandOver(p, timer) ELSE p
    /\ UNCHANGED <<starters, periodic, status, handler, due, relinked, call, swap_data, held, announced>>

\* k_timer_stop() by a thread: z_abort_timeout(), then the stop function
StopAbort(t) ==
    /\ MayCall(t) /\ linked
    /\ linked' = FALSE
    /\ call' = [call EXCEPT ![t] = "stop"]
    /\ UNCHANGED <<starters, periodic, status, handler, due, relinked, p, swap_data, held, announced>>

StopWake(t) ==
    /\ call[t] = "stop" /\ Executes(t)
    /\ p' = IF p.waitq[timer] # <<>> THEN HandOver(p, timer) ELSE p
    /\ call' = [call EXCEPT ![t] = "none"]
    /\ UNCHANGED <<timerVars, swap_data, held, announced>>

k_timer_status_get(t) ==
    /\ MayCall(t) /\ t = TimerUser
    /\ status' = 0
    /\ UNCHANGED <<starters, linked, periodic, handler, due, relinked, waiting>>

\* k_timer_status_sync() that does not wait
k_timer_status_sync(t) ==
    /\ MayCall(t) /\ t = TimerUser /\ (status = 0 => ~linked)
    /\ status' = 0
    /\ UNCHANGED <<starters, linked, periodic, handler, due, relinked, waiting>>

SyncPend(t) ==
    /\ t = TimerUser /\ status = 0 /\ linked
    /\ Pends(t, timer, "FOREVER", "sync")
    /\ UNCHANGED <<timerVars, swap_data, held, announced>>

SyncDone(t) ==
    /\ call[t] = "sync" /\ Executes(t)
    /\ status' = 0
    /\ call' = [call EXCEPT ![t] = "none"]
    /\ UNCHANGED <<starters, linked, periodic, handler, due, relinked, p, swap_data, held, announced>>

TimerNext ==
    \/ TimerAnnounce \/ z_timer_expiration_handler \/ ExpiryDone
    \/ \E c \in Callers :
          \/ \E period \in BOOLEAN : k_timer_start(c, period)
          \/ k_timer_stop(c)
    \/ \E t \in Threads :
          \/ StartAbort(t) \/ StopAbort(t) \/ StopWake(t)
          \/ \E period \in BOOLEAN : StartAdd(t, period)
          \/ k_timer_status_get(t) \/ k_timer_status_sync(t) \/ SyncPend(t) \/ SyncDone(t)
=============================================================================
