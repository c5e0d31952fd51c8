-------------------------------- MODULE Events ------------------------------
(***************************************************************************)
(* The event object of kernel/events.c: a set of event bits, and threads   *)
(* that wait for any or for all of a set of them.                          *)
(*                                                                         *)
(* thread->no_wake_on_timeout is set and cleared again under one lock, and *)
(* on one CPU no timeout handler sees it set: it is left out.              *)
(***************************************************************************)
EXTENDS Waiting

CONSTANTS
    event,          \* the event object's wait_q
    Bits

VARIABLES
    events,         \* event->events
    thread_events,  \* thread->events: what it wants, then what it was given
    desired,        \* the events argument of the call a thread is in
    wait_condition  \* K_EVENT_WAIT_ANY or K_EVENT_WAIT_ALL

eventVars == <<events, thread_events, desired, wait_condition>>

EventsTypeOK ==
    /\ events \subseteq Bits
    /\ thread_events \in [Threads -> SUBSET Bits]
    /\ desired \in [Threads -> SUBSET Bits]
    /\ wait_condition \in [Threads -> {"ANY", "ALL"}]

EventsInit ==
    /\ events = {}
    /\ thread_events = [t \in Threads |-> {}]
    /\ desired = [t \in Threads |-> {}]
    /\ wait_condition = [t \in Threads |-> "ANY"]

-----------------------------------------------------------------------------
are_wait_conditions_met(want, current, condition) ==
    LET match == current \cap want
    IN  IF condition = "ALL" THEN match = want ELSE match # {}

\* event_walk_op() for every waiter: its timeout is aborted, if still linked,
\* then z_sched_wake_thread() makes it ready
WakeMet(s, met) ==
    [s EXCEPT !.ready = @ \cup met,
              !.pended_on = [t \in Threads |-> IF t \in met THEN NULL ELSE @[t]],
              !.waitq[event] = SelectSeq(@, LAMBDA t : t \notin met),
              !.timeout = @ \ met,
              !.swap_retval = [t \in Threads |-> IF t \in met THEN "OK" ELSE @[t]]]

\* mutant: the waiters see the events posted and not the ones now set
k_event_post_internal_OnlyNew(new, mask) ==
    LET met == {t \in ToSet(p.waitq[event]) :
                   are_wait_conditions_met(thread_events[t], new, wait_condition[t])}
    IN  /\ events' = (events \ mask) \cup (new \cap mask)
        /\ p' = WakeMet(p, met)
        /\ thread_events' = [t \in Threads |-> IF t \in met THEN events' ELSE thread_events[t]]
        /\ UNCHANGED <<desired, wait_condition, call, swap_data, held, announced>>

\* by a thread or an interrupt, to which it makes no difference
k_event_post_internal(new, mask) ==
    LET now == (events \ mask) \cup (new \cap mask)
        met == {t \in ToSet(p.waitq[event]) :
                   are_wait_conditions_met(thread_events[t], now, wait_condition[t])}
    IN  /\ events' = now
        /\ p' = WakeMet(p, met)
        /\ thread_events' = [t \in Threads |-> IF t \in met THEN now ELSE thread_events[t]]
        /\ UNCHANGED <<desired, wait_condition, call, swap_data, held, announced>>

k_event_post(new) == k_event_post_internal(new, new)
k_event_set(new) == k_event_post_internal(new, Bits)
k_event_set_masked(new, mask) == k_event_post_internal(new, mask)
k_event_clear(old) == k_event_post_internal({}, old)

\* K_EVENT_WAIT_RESET
AfterReset(reset) == IF reset THEN {} ELSE events

\* k_event_wait() and k_event_wait_all(), when the condition holds or the
\* caller does not wait
k_event_wait_internal(want, condition, reset, wait) ==
    /\ want # {}
    /\ wait # "NO_WAIT" => are_wait_conditions_met(want, AfterReset(reset), condition)
    /\ events' = AfterReset(reset)
    /\ UNCHANGED <<thread_events, desired, wait_condition, waiting>>

EventPend(t, want, condition, reset, wait) ==
    /\ want # {} /\ ~are_wait_conditions_met(want, AfterReset(reset), condition)
    /\ Pends(t, event, wait, "wait")
    /\ events' = AfterReset(reset)
    /\ thread_events' = [thread_events EXCEPT ![t] = want]
    /\ desired' = [desired EXCEPT ![t] = want]
    /\ wait_condition' = [wait_condition EXCEPT ![t] = condition]
    /\ UNCHANGED <<swap_data, held, announced>>

\* what the call in which t is will return
EventResult(t) == IF p.swap_retval[t] = "OK" THEN thread_events[t] \cap desired[t] ELSE {}

EventReturn(t) ==
    /\ call[t] = "wait" /\ Executes(t)
    /\ Returned(t)
    /\ call' = [call EXCEPT ![t] = "none"]
    /\ thread_events' = [thread_events EXCEPT ![t] = {}]
    /\ desired' = [desired EXCEPT ![t] = {}]
    /\ wait_condition' = [wait_condition EXCEPT ![t] = "ANY"]
    /\ UNCHANGED <<events, swap_data, held, announced>>

EventsNext ==
    \/ \E new \in SUBSET Bits :
          \/ k_event_post(new) \/ k_event_set(new) \/ k_event_clear(new)
          \/ \E mask \in SUBSET Bits : k_event_set_masked(new, mask)
    \/ \E want \in SUBSET Bits, condition \in {"ANY", "ALL"}, reset \in BOOLEAN, wait \in Waits :
          \/ k_event_wait_internal(want, condition, reset, wait)
          \/ \E t \in Threads : EventPend(t, want, condition, reset, wait)
    \/ \E t \in Threads : EventReturn(t)
=============================================================================
