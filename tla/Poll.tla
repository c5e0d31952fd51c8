-------------------------------- MODULE Poll --------------------------------
(***************************************************************************)
(* kernel/poll.c: k_poll(), by which a thread waits for one of several     *)
(* objects, and triggered work (k_work_poll), which is submitted to a work *)
(* queue when one of several objects becomes available.                    *)
(*                                                                         *)
(* Both register an array of poll events, one for each object, one by one, *)
(* and later clear the registrations one by one; the lock is released      *)
(* after each.  A semaphore, a queue or a poll signal is here the fact     *)
(* that it is available (its count, data or signaled flag is not zero);    *)
(* no thread waits on it other than by polling.  An object has one poller  *)
(* at a time, so that its list of poll events has no order to keep.        *)
(***************************************************************************)
EXTENDS Waiting

CONSTANTS
    poll,           \* the wait_q of k_poll()
    PollObjects,
    PollQueues,     \* the ones that are queues
    Tworks,         \* triggered work items
    EventArrays     \* for each poller, the objects of its poll events

ASSUME PollAssumption ==
    /\ PollQueues \subseteq PollObjects /\ Tworks \subseteq Timers
    /\ EventArrays \in [DOMAIN EventArrays -> Seq(PollObjects)]
    /\ Tworks \subseteq DOMAIN EventArrays

VARIABLES
    available,      \* the objects that are available
    poll_events,    \* for each object, the poll event <<poller, index>> or NULL
    ev,             \* the poll events
    poller,         \* struct z_poller
    task,           \* the loop over poll events in which a thread is
    twork,          \* struct k_work_poll, its work item and the queue's thread; whether
                    \* the queue accepts items, and whether it ever refused this one
    armed           \* submitted, not cancelled, not run since: a history variable

pollVars == <<available, poll_events, ev, poller, task, twork, armed>>

Pollers == DOMAIN EventArrays
NumEvents(x) == Len(EventArrays[x])
Indices == 0 .. Max({NumEvents(x) : x \in Pollers})

PollTypeOK ==
    /\ available \subseteq PollObjects
    /\ poll_events \in [PollObjects -> (Pollers \X Indices) \cup {NULL}]
    /\ \A x \in Pollers :
          ev[x] \in [1 .. NumEvents(x) ->
                        [state : SUBSET {"AVAILABLE", "CANCELLED"}, poller : BOOLEAN]]
    /\ poller \in [Pollers -> [is_polling : BOOLEAN, mode : {"NONE", "POLL", "TRIGGERED"}]]
    /\ task \in [Threads -> [of : Pollers \cup Threads, i : Indices, registered : Indices,
                             wait : Waits, rc : Retvals \cup {"submit", "cancel", "resubmit"}]]
    /\ twork \in [Tworks -> [workq : BOOLEAN, timeout : BOOLEAN, queued : BOOLEAN,
                             queue : BOOLEAN, running : BOOLEAN, i : Indices,
                             accepts : BOOLEAN, refused : BOOLEAN,
                             poll_result : {"EINPROGRESS", "OK", "EAGAIN"}]]
    /\ armed \subseteq Tworks

NotReady(x) == [i \in 1 .. NumEvents(x) |-> [state |-> {}, poller |-> FALSE]]

NoTask(x) == [of |-> x, i |-> 0, registered |-> 0, wait |-> "NO_WAIT", rc |-> "OK"]

PollInit ==
    /\ available = {}
    /\ poll_events = [o \in PollObjects |-> NULL]
    /\ ev = [x \in Pollers |-> NotReady(x)]
    /\ poller = [x \in Pollers |-> [is_polling |-> FALSE, mode |-> "NONE"]]
    /\ task = [t \in Threads |-> NoTask(t)]
    /\ twork = [x \in Tworks |-> [workq |-> FALSE, timeout |-> FALSE, queued |-> FALSE,
                                  queue |-> FALSE, running |-> FALSE, i |-> 0,
                                  accepts |-> TRUE, refused |-> FALSE,
                                  poll_result |-> "OK"]]
    /\ armed = {}

-----------------------------------------------------------------------------
(* The two loops                                                           *)

\* the object of the event the loop of t is at
Object(x, i) == EventArrays[x][i]

set_event_ready(e, state) == [e EXCEPT !.state = @ \cup {state}, !.poller = FALSE]

\* mutant: a poller that has stopped polling goes on registering
Registers_Always(x, just_check) == ~just_check

Registers(x, just_check) == ~just_check /\ poller[x].is_polling

\* one round of register_events() in thread t
register_events(t) ==
    LET x == task[t].of
        i == task[t].i + 1
        o == Object(x, i)
    IN  /\ call[t] = "register" /\ Executes(t) /\ i <= NumEvents(x)
        /\ IF o \in available
           THEN /\ ev' = [ev EXCEPT ![x][i] = set_event_ready(@, "AVAILABLE")]
                /\ poller' = [poller EXCEPT ![x].is_polling = FALSE]
                /\ task' = [task EXCEPT ![t].i = i]
                /\ UNCHANGED poll_events
           ELSE IF Registers(x, x \in Threads /\ task[t].wait = "NO_WAIT")
           THEN /\ poll_events' = [poll_events EXCEPT ![o] = <<x, i>>]
                /\ ev' = [ev EXCEPT ![x][i].poller = TRUE]
                /\ task' = [task EXCEPT ![t].i = i, ![t].registered = @ + 1]
                /\ UNCHANGED poller
           ELSE /\ task' = [task EXCEPT ![t].i = i]
                /\ UNCHANGED <<poll_events, ev, poller>>
        /\ UNCHANGED <<available, twork, armed, waiting>>

clear_event_registration(x, i) ==
    /\ ev' = [ev EXCEPT ![x][i].poller = FALSE]
    /\ poll_events' = [o \in PollObjects |->
                          IF poll_events[o] = <<x, i>> THEN NULL ELSE poll_events[o]]

\* one round of clear_event_registrations() in thread t
clear_event_registrations(t) ==
    LET n == task[t].registered
    IN  /\ call[t] \in {"clear", "cancel"} /\ Executes(t) /\ n > 0
        /\ clear_event_registration(task[t].of, n)
        /\ task' = [task EXCEPT ![t].registered = n - 1]
        /\ UNCHANGED <<available, poller, twork, armed, waiting>>

-----------------------------------------------------------------------------
(* k_poll()                                                                *)

k_poll(t, wait) ==
    /\ MayCall(t) /\ t \in Pollers
    /\ poller' = [poller EXCEPT ![t] = [is_polling |-> TRUE, mode |-> "POLL"]]
    /\ task' = [task EXCEPT ![t] = [NoTask(t) EXCEPT !.wait = wait]]
    /\ call' = [call EXCEPT ![t] = "register"]
    /\ UNCHANGED <<available, poll_events, ev, twork, armed, p, swap_data, held, announced>>

Registered(t) == call[t] = "register" /\ Executes(t) /\ task[t].i = NumEvents(task[t].of)

\* mutant: the poller waits although an event came during registration
PollWait_Unchecked(t) ==
    LET wait == task[t].wait
    IN  /\ Registered(t) /\ task[t].of = t
        /\ poller' = [poller EXCEPT ![t].is_polling = FALSE]
        /\ IF wait = "NO_WAIT"
           THEN call' = [call EXCEPT ![t] = "none"] /\ UNCHANGED p
           ELSE call' = [call EXCEPT ![t] = "poll"] /\ p' = z_pend_curr(p, t, poll, wait)
        /\ UNCHANGED <<available, poll_events, ev, task, twork, armed, swap_data, held, announced>>

\* an event is ready: return 0; or -EAGAIN; or wait
PollWait(t) ==
    LET wait == task[t].wait
    IN  /\ Registered(t) /\ task[t].of = t
        /\ IF ~poller[t].is_polling
           THEN /\ task' = [task EXCEPT ![t].rc = "OK"]
                /\ call' = [call EXCEPT ![t] = "clear"]
                /\ UNCHANGED <<poller, p>>
           ELSE /\ poller' = [poller EXCEPT ![t].is_polling = FALSE]
                /\ IF wait = "NO_WAIT"
                   THEN call' = [call EXCEPT ![t] = "none"] /\ UNCHANGED p
                   ELSE call' = [call EXCEPT ![t] = "poll"] /\ p' = z_pend_curr(p, t, poll, wait)
                /\ UNCHANGED task
        /\ UNCHANGED <<available, poll_events, ev, twork, armed, swap_data, held, announced>>

PollWoken(t) ==
    /\ call[t] = "poll" /\ Executes(t)
    /\ task' = [task EXCEPT ![t].rc = p.swap_retval[t]]
    /\ call' = [call EXCEPT ![t] = "clear"]
    /\ UNCHANGED <<available, poll_events, ev, poller, twork, armed, p, swap_data, held, announced>>

\* the caller then looks at its events and resets their states
PollReturn(t) ==
    /\ call[t] = "clear" /\ Executes(t) /\ task[t].of = t /\ task[t].registered = 0
    /\ call' = [call EXCEPT ![t] = "none"]
    /\ task' = [task EXCEPT ![t] = NoTask(t)]
    /\ ev' = [ev EXCEPT ![t] = NotReady(t)]
    /\ UNCHANGED <<available, poll_events, poller, twork, armed, p, swap_data, held, announced>>

-----------------------------------------------------------------------------
(* An object changes                                                       *)

\* k_work_submit_to_queue(): to the queue given, or to the one it was on last,
\* which refuses it while it is drained or plugged; no caller looks at the result.
\* Nobody else knows the item, so it is never being cancelled.
SubmitWork(w, given) ==
    IF w.queued THEN w
    ELSE IF (given \/ w.queue) /\ w.accepts
    THEN [w EXCEPT !.queued = TRUE, !.queue = TRUE]
    ELSE [w EXCEPT !.refused = TRUE]

\* somebody has the queue of x drained or plugged, or unplugs it
DrainOrUnplug(x) ==
    /\ twork' = [twork EXCEPT ![x].accepts = ~@]
    /\ UNCHANGED <<available, poll_events, ev, poller, task, armed, waiting>>

\* signal_poller(): a thread that waits is unpended, with its timeout, and made
\* ready; one that is still registering, or no longer waits, finds is_polling
\* changed or its event ready
signal_poller(s, t, state) ==
    IF s.pended_on[t] = NULL THEN s
    ELSE WakeWith(z_unpend_thread(s, t),
                  IF state = "CANCELLED" THEN "EINTR" ELSE "OK")

\* mutant: the timeout is left running
signal_triggered_work_KeepsTimeout(x) ==
    IF poller[x].is_polling /\ twork[x].workq
    THEN SubmitWork([twork[x] EXCEPT !.poll_result = "OK"], TRUE)
    ELSE twork[x]

signal_triggered_work(x) ==
    IF poller[x].is_polling /\ twork[x].workq
    THEN SubmitWork([twork[x] EXCEPT !.timeout = FALSE, !.poll_result = "OK"], TRUE)
    ELSE twork[x]

\* z_handle_obj_poll_events(), or the end of k_poll_signal_raise(): the poll
\* event leaves the list and signal_poll_event() tells its poller
z_handle_obj_poll_events(o, state) ==
    IF poll_events[o] = NULL THEN UNCHANGED <<poll_events, ev, poller, twork, p>>
    ELSE LET x == poll_events[o][1]
             i == poll_events[o][2]
         IN  /\ poll_events' = [poll_events EXCEPT ![o] = NULL]
             /\ p' = IF ev[x][i].poller /\ poller[x].mode = "POLL"
                     THEN signal_poller(p, x, state) ELSE p
             /\ twork' = IF ev[x][i].poller /\ poller[x].mode = "TRIGGERED"
                         THEN [twork EXCEPT ![x] = signal_triggered_work(x)] ELSE twork
             /\ poller' = IF ev[x][i].poller
                          THEN [poller EXCEPT ![x].is_polling = FALSE] ELSE poller
             /\ ev' = [ev EXCEPT ![x][i] = set_event_ready(@, state)]

\* by a thread or an interrupt: k_poll_signal_raise(), or k_sem_give() or
\* k_queue_append() to an object on which no thread waits
Raise(o) ==
    /\ available' = available \cup {o}
    /\ z_handle_obj_poll_events(o, "AVAILABLE")
    /\ UNCHANGED <<task, armed, call, swap_data, held, announced>>

\* k_poll_signal_reset(), or k_sem_take() or k_queue_get() of the last
Lower(o) ==
    /\ o \in available
    /\ available' = available \ {o}
    /\ UNCHANGED <<poll_events, ev, poller, task, twork, armed, waiting>>

\* what no thread does under a timeout's handler
OthersExecute == p.expired = NULL /\ announced = NULL

\* pollers are told that the semaphore is available, and it is not
k_sem_reset(o) ==
    /\ OthersExecute /\ o \notin PollQueues
    /\ available' = available \ {o}
    /\ z_handle_obj_poll_events(o, "AVAILABLE")
    /\ UNCHANGED <<task, armed, call, swap_data, held, announced>>

\* k_queue_cancel_wait()
CancelWait(o) ==
    /\ o \in PollQueues
    /\ z_handle_obj_poll_events(o, "CANCELLED")
    /\ UNCHANGED <<available, task, armed, call, swap_data, held, announced>>

-----------------------------------------------------------------------------
(* Triggered work                                                          *)

\* where triggered_work_cancel() succeeds
Cancellable(x) == poller[x].is_polling /\ poller[x].mode # "NONE"

\* triggered_work_cancel() in thread t, up to the loop over the registrations
CancelStart(t, x, why, wait) ==
    /\ poller' = [poller EXCEPT ![x].mode = "NONE"]
    /\ twork' = [twork EXCEPT ![x].timeout = FALSE]
    /\ armed' = armed \ {x}
    /\ task' = [task EXCEPT ![t] = [NoTask(x) EXCEPT !.registered = NumEvents(x),
                                                     !.rc = why, !.wait = wait]]
    /\ call' = [call EXCEPT ![t] = "cancel"]
    /\ UNCHANGED ev

\* t takes the work item and starts to register its events
TakeOwnership(t, x, wait) ==
    /\ poller' = [poller EXCEPT ![x] = [is_polling |-> TRUE, mode |-> "NONE"]]
    /\ twork' = [twork EXCEPT ![x].workq = TRUE, ![x].poll_result = "EINPROGRESS"]
    /\ armed' = armed \cup {x}
    /\ ev' = [ev EXCEPT ![x] = NotReady(x)]    \* its caller has reset them
    /\ task' = [task EXCEPT ![t] = [NoTask(x) EXCEPT !.wait = wait]]
    /\ call' = [call EXCEPT ![t] = "register"]

\* -EINVAL for an item that is pending or runs
k_work_poll_submit(t, x, wait) ==
    /\ MayCall(t)
    /\ IF twork[x].workq
       THEN Cancellable(x) /\ CancelStart(t, x, "resubmit", wait)
       ELSE TakeOwnership(t, x, wait)
    /\ UNCHANGED <<available, poll_events, p, swap_data, held, announced>>

k_work_poll_cancel(t, x) ==
    /\ MayCall(t) /\ twork[x].workq /\ Cancellable(x)
    /\ CancelStart(t, x, "cancel", "NO_WAIT")
    /\ UNCHANGED <<available, poll_events, p, swap_data, held, announced>>

\* the registrations are cleared: the item has no owner, or a new one
CancelDone(t) ==
    LET x == task[t].of
    IN  /\ call[t] = "cancel" /\ Executes(t) /\ task[t].registered = 0
        /\ IF task[t].rc = "resubmit"
           THEN TakeOwnership(t, x, task[t].wait)
           ELSE /\ twork' = [twork EXCEPT ![x].workq = FALSE]
                /\ call' = [call EXCEPT ![t] = "none"]
                /\ task' = [task EXCEPT ![t] = NoTask(t)]
                /\ UNCHANGED <<ev, poller, armed>>
        /\ UNCHANGED <<available, poll_events, p, swap_data, held, announced>>

\* k_work_poll_cancel() from an interrupt
CancelFromISR(x) ==
    /\ InterruptMay("k_work_poll_cancel")
    /\ twork[x].workq /\ Cancellable(x)
    /\ poller' = [poller EXCEPT ![x].mode = "NONE"]
    /\ twork' = [twork EXCEPT ![x].timeout = FALSE, ![x].workq = FALSE]
    /\ ev' = [ev EXCEPT ![x] = [i \in DOMAIN @ |-> [@[i] EXCEPT !.poller = FALSE]]]
    /\ poll_events' = [o \in PollObjects |->
                          IF poll_events[o] # NULL /\ poll_events[o][1] = x
                          THEN NULL ELSE poll_events[o]]
    /\ armed' = armed \ {x}
    /\ UNCHANGED <<available, task, waiting>>

\* k_work_poll_submit() from an interrupt: nothing comes between its steps.  The
\* events in front of the first one that is ready are registered, and cleared.
SubmitFromISR(x, wait) ==
    LET objects == EventArrays[x]
        ready == {i \in DOMAIN objects : objects[i] \in available}
        waits == ready = {} /\ wait # "NO_WAIT"
        mine(o) == poll_events[o] # NULL /\ poll_events[o][1] = x
        taken == [twork[x] EXCEPT !.workq = TRUE, !.timeout = waits /\ wait = "TIMEOUT",
                     !.poll_result = CASE waits -> "EINPROGRESS"
                                       [] ready # {} -> "OK"
                                       [] OTHER -> "EAGAIN"]
    IN  /\ InterruptMay("k_work_poll_submit")
        /\ twork[x].workq => Cancellable(x)
        /\ armed' = armed \cup {x}
        /\ poller' = [poller EXCEPT ![x] =
                         [is_polling |-> waits, mode |-> IF waits THEN "TRIGGERED" ELSE "NONE"]]
        /\ ev' = [ev EXCEPT ![x] = [i \in DOMAIN objects |->
                     [state |-> IF i \in ready THEN {"AVAILABLE"} ELSE {}, poller |-> waits]]]
        /\ poll_events' = [o \in PollObjects |->
                              IF waits /\ o \in ToSet(objects)
                              THEN <<x, CHOOSE i \in DOMAIN objects : objects[i] = o>>
                              ELSE IF mine(o) THEN NULL ELSE poll_events[o]]
        /\ twork' = [twork EXCEPT ![x] = IF waits THEN taken ELSE SubmitWork(taken, TRUE)]
        /\ UNCHANGED <<available, task, waiting>>

\* the events are registered: from now on one of them submits the item; or one
\* has come already, or the caller does not wait, and the item is submitted here
SubmitDone(t) ==
    LET x == task[t].of
    IN  /\ Registered(t) /\ x \in Tworks
        /\ IF poller[x].is_polling /\ task[t].wait # "NO_WAIT"
           THEN /\ poller' = [poller EXCEPT ![x].mode = "TRIGGERED"]
                /\ twork' = [twork EXCEPT ![x].timeout = (task[t].wait = "TIMEOUT")]
                /\ call' = [call EXCEPT ![t] = "none"]
                /\ task' = [task EXCEPT ![t] = NoTask(t)]
           ELSE /\ poller' = [poller EXCEPT ![x].is_polling = FALSE]
                /\ twork' = [twork EXCEPT ![x].poll_result =
                                IF poller[x].is_polling THEN "EAGAIN" ELSE "OK"]
                /\ call' = [call EXCEPT ![t] = "clear"]
                /\ UNCHANGED task
        /\ UNCHANGED <<available, poll_events, ev, armed, p, swap_data, held, announced>>

SubmitReturn(t) ==
    LET x == task[t].of
    IN  /\ call[t] = "clear" /\ Executes(t) /\ x \in Tworks /\ task[t].registered = 0
        /\ twork' = [twork EXCEPT ![x] = SubmitWork(@, TRUE)]
        /\ call' = [call EXCEPT ![t] = "none"]
        /\ task' = [task EXCEPT ![t] = NoTask(t)]
        /\ UNCHANGED <<available, poll_events, ev, poller, armed, p, swap_data, held, announced>>

\* sys_clock_announce() unlinks the timeout of x
TworkAnnounce(x) ==
    /\ p.expired = NULL /\ announced = NULL /\ twork[x].timeout
    /\ twork' = [twork EXCEPT ![x].timeout = FALSE]
    /\ announced' = x
    /\ UNCHANGED <<available, poll_events, ev, poller, task, armed, p, call, swap_data, held>>

triggered_work_expiration_handler(x) ==
    /\ announced = x
    /\ poller' = [poller EXCEPT ![x].is_polling = FALSE]
    /\ twork' = [twork EXCEPT ![x] =
                    SubmitWork([@ EXCEPT !.poll_result = "EAGAIN"], @.workq)]
    /\ announced' = NULL
    /\ UNCHANGED <<available, poll_events, ev, task, armed, p, call, swap_data, held>>

\* triggered_work_handler() is called; it has registrations to clear unless
\* the item was submitted by k_work_poll_submit() itself
triggered_work_handler(x) ==
    /\ OthersExecute /\ twork[x].queued /\ ~twork[x].running
    /\ twork' = [twork EXCEPT ![x].queued = FALSE, ![x].running = TRUE,
                              ![x].i = IF poller[x].mode # "NONE" THEN NumEvents(x) ELSE 0]
    /\ UNCHANGED <<available, poll_events, ev, poller, task, armed, waiting>>

HandlerClears(x) ==
    /\ OthersExecute /\ twork[x].running /\ twork[x].i > 0
    /\ clear_event_registration(x, twork[x].i)
    /\ twork' = [twork EXCEPT ![x].i = @ - 1]
    /\ UNCHANGED <<available, poller, task, armed, waiting>>

\* the item's ownership is dropped, and the real handler runs, looks at the
\* events and resets their states
HandlerRuns(x) ==
    /\ OthersExecute /\ twork[x].running /\ twork[x].i = 0
    /\ twork' = [twork EXCEPT ![x].running = FALSE, ![x].workq = FALSE]
    /\ armed' = armed \ {x}
    /\ ev' = [ev EXCEPT ![x] = NotReady(x)]
    /\ UNCHANGED <<available, poll_events, poller, task, waiting>>

PollEventsNext ==
    \/ \E t \in Threads : register_events(t) \/ clear_event_registrations(t)
    \/ \E o \in PollObjects : Raise(o) \/ Lower(o) \/ k_sem_reset(o) \/ CancelWait(o)

PollNext ==
    \E t \in Threads :
        \/ \E wait \in Waits : k_poll(t, wait)
        \/ PollWait(t) \/ PollWoken(t) \/ PollReturn(t)

WorkPollNext ==
    \/ \E t \in Threads :
          \/ \E x \in Tworks, wait \in Waits : k_work_poll_submit(t, x, wait)
          \/ \E x \in Tworks : k_work_poll_cancel(t, x)
          \/ CancelDone(t) \/ SubmitDone(t) \/ SubmitReturn(t)
    \/ \E x \in Tworks :
          \/ CancelFromISR(x) \/ \E wait \in Waits : SubmitFromISR(x, wait)
          \/ DrainOrUnplug(x)
          \/ TworkAnnounce(x) \/ triggered_work_expiration_handler(x)
          \/ triggered_work_handler(x) \/ HandlerClears(x) \/ HandlerRuns(x)
=============================================================================
