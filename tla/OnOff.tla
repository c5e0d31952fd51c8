-------------------------------- MODULE OnOff -------------------------------
(***************************************************************************)
(* The on-off manager of lib/os/onoff.c: clients share a service that is   *)
(* on while some of them want it.  Any thread, interrupt handler or        *)
(* callback may make any call at any time the manager's lock is free.      *)
(*                                                                         *)
(* process_event() releases the lock to call the monitors, the clients and *)
(* the service.  The flag PROCESSING makes the calls that come meanwhile,  *)
(* from callbacks or elsewhere, leave their events in the flags, so that   *)
(* only one process_event() is active; proc holds its local variables.     *)
(* Each round of its loop is a step, and while evt is not EVT_NOP it holds *)
(* the lock.                                                               *)
(***************************************************************************)
EXTENDS Integers, FiniteSets, Priq

CONSTANTS
    Clients,
    SERVICE_REFS_MAX

\* process_complete() adds the waiting clients to refs without the comparison
\* that onoff_request() makes
ASSUME OnOffAssumption ==
    SERVICE_REFS_MAX \in Nat /\ IsFiniteSet(Clients) /\ Cardinality(Clients) <= SERVICE_REFS_MAX

VARIABLES
    mgr,            \* struct onoff_manager, its flags split in state and flags
    proc,           \* the local variables of the active process_event()
    transition,     \* the service has been asked for a transition, not completed
    cli             \* what a client has asked for, and whether it has got it

onoffVars == <<mgr, proc, transition, cli>>

States == {"OFF", "ON", "ERROR", "TO_ON", "TO_OFF", "RESETTING"}
Transitions == {"TO_ON", "TO_OFF", "RESETTING"}
Events == {"EVT_NOP", "EVT_COMPLETE", "EVT_RECHECK", "EVT_START", "EVT_STOP", "EVT_RESET"}
Results == {"OK", "ERROR"}

Managers == [state : States, flags : SUBSET {"PROCESSING", "COMPLETE", "RECHECK"},
             refs : 0 .. SERVICE_REFS_MAX, clients : Seq(Clients), monitors : BOOLEAN,
             last_res : Results]

Procs == [evt : Events, do_monitors : BOOLEAN, clients : Seq(Clients), transit : BOOLEAN,
          res : Results]

OnOffTypeOK ==
    /\ mgr \in Managers
    /\ proc \in Procs
    /\ transition \in BOOLEAN
    /\ cli \in [Clients -> {"none", "requested", "resetting", "on"}]

\* a process_event() that begins a round of its loop, and none
RoundOf(evt) == [evt |-> evt, do_monitors |-> FALSE, clients |-> <<>>, transit |-> FALSE,
                 res |-> "OK"]
NoProc == RoundOf("EVT_NOP")

\* onoff_manager_init()
OnOffInit ==
    /\ mgr = [state |-> "OFF", flags |-> {}, refs |-> 0, clients |-> <<>>,
              monitors |-> FALSE, last_res |-> "OK"]
    /\ proc = NoProc
    /\ transition = FALSE
    /\ cli = [c \in Clients |-> "none"]

-----------------------------------------------------------------------------
(* process_event()                                                         *)

Unlocked == proc.evt = "EVT_NOP"

process_recheck(m) ==
    IF m.state = "OFF" /\ m.clients # <<>> THEN "EVT_START"
    ELSE IF m.state = "ON" /\ m.refs = 0 THEN "EVT_STOP"
    ELSE IF m.state = "ERROR" /\ m.clients # <<>> THEN "EVT_RESET"
    ELSE "EVT_NOP"

Rechecks(m) == IF process_recheck(m) = "EVT_NOP" THEN m
               ELSE [m EXCEPT !.flags = @ \cup {"RECHECK"}]

\* refs is a uint16_t
process_complete(m) ==
    IF m.last_res = "ERROR" THEN [m EXCEPT !.state = "ERROR", !.clients = <<>>]
    ELSE Rechecks(
        CASE m.state = "TO_ON" ->
                [m EXCEPT !.state = "ON", !.clients = <<>>,
                          !.refs = (@ + Len(m.clients)) % (SERVICE_REFS_MAX + 1)]
          [] m.state = "RESETTING" -> [m EXCEPT !.state = "OFF", !.clients = <<>>]
          [] m.state = "TO_OFF" -> [m EXCEPT !.state = "OFF"])

\* the clients it moves to the list of those to notify
Completed(m) ==
    IF m.last_res = "ERROR" \/ m.state # "TO_OFF" THEN m.clients ELSE <<>>

\* the deferred event that the loop takes up, with the lock; completion first
NextRound(m) ==
    LET flag == IF "COMPLETE" \in m.flags THEN "COMPLETE" ELSE "RECHECK"
    IN  /\ mgr' = [m EXCEPT !.flags = @ \ {flag}]
        /\ proc' = RoundOf(IF flag \notin m.flags THEN "EVT_NOP"
                           ELSE IF flag = "COMPLETE" THEN "EVT_COMPLETE" ELSE "EVT_RECHECK")

\* process_event() with the lock, in the state m: nested, it records the event
process_event(m, evt) ==
    IF "PROCESSING" \in m.flags
    THEN /\ mgr' = [m EXCEPT !.flags = @ \cup {IF evt = "EVT_COMPLETE" THEN "COMPLETE"
                                                ELSE "RECHECK"}]
         /\ UNCHANGED proc
    ELSE /\ mgr' = m
         /\ proc' = RoundOf(evt)

\* a round of the loop, up to where the lock is released or the next round
ProcessRound ==
    LET evt == IF proc.evt = "EVT_RECHECK" THEN process_recheck(mgr) ELSE proc.evt
        to == CASE evt = "EVT_START" -> "TO_ON"
                [] evt = "EVT_STOP" -> "TO_OFF"
                [] evt = "EVT_RESET" -> "RESETTING"
                [] OTHER -> mgr.state
        m == IF evt = "EVT_COMPLETE" THEN process_complete(mgr)
             ELSE [mgr EXCEPT !.state = to]
        clients == IF evt = "EVT_COMPLETE" THEN Completed(mgr) ELSE <<>>
        do_monitors == m.state # mgr.state /\ m.monitors
        transit == evt # "EVT_COMPLETE"
    IN  /\ ~Unlocked
        /\ IF evt = "EVT_NOP" THEN proc' = NoProc /\ UNCHANGED mgr
           ELSE IF do_monitors \/ clients # <<>> \/ transit
           THEN /\ mgr' = [m EXCEPT !.flags = @ \cup {"PROCESSING"}]
                /\ proc' = [evt |-> "EVT_NOP", do_monitors |-> do_monitors,
                            clients |-> clients, transit |-> transit,
                            res |-> IF evt = "EVT_COMPLETE" THEN mgr.last_res ELSE "OK"]
           ELSE NextRound(m)
        /\ UNCHANGED <<transition, cli>>

Processing == Unlocked /\ "PROCESSING" \in mgr.flags

\* the callbacks themselves are calls that anyone may make
notify_monitors ==
    /\ Processing /\ proc.do_monitors
    /\ proc' = [proc EXCEPT !.do_monitors = FALSE]
    /\ UNCHANGED <<mgr, transition, cli>>

notify_one(c, res) ==
    cli' = [cli EXCEPT ![c] = IF @ = "requested" /\ res = "OK" THEN "on" ELSE "none"]

\* its request succeeded, and it is still to be told
GotService(c) == OnQueue(proc.clients, c) /\ cli[c] = "requested" /\ proc.res = "OK"

\* one client of the loop of notify_all()
notify_all ==
    /\ Processing /\ ~proc.do_monitors /\ proc.clients # <<>>
    /\ notify_one(Head(proc.clients), proc.res)
    /\ proc' = [proc EXCEPT !.clients = Tail(@)]
    /\ UNCHANGED <<mgr, transition>>

Transit ==
    /\ Processing /\ ~proc.do_monitors /\ proc.clients = <<>> /\ proc.transit
    /\ transition' = TRUE
    /\ proc' = [proc EXCEPT !.transit = FALSE]
    /\ UNCHANGED <<mgr, cli>>

\* the lock is taken again and PROCESSING cleared
Relock ==
    /\ Processing /\ ~proc.do_monitors /\ proc.clients = <<>> /\ ~proc.transit
    /\ NextRound([mgr EXCEPT !.flags = @ \ {"PROCESSING"}])
    /\ UNCHANGED <<transition, cli>>

-----------------------------------------------------------------------------
(* Operations                                                              *)

\* by the service, within the call of the transition function or later
transition_complete(res) ==
    /\ Unlocked /\ transition
    /\ transition' = FALSE
    /\ process_event([mgr EXCEPT !.last_res = res], "EVT_COMPLETE")
    /\ UNCHANGED cli

\* by a client whose structure is not in use; the calls that fail with -EAGAIN,
\* -ENOTSUP or -EIO change nothing.  One that finds the service on is told at once.
onoff_request(c) ==
    LET m == [mgr EXCEPT !.clients = Append(@, c)]
    IN  /\ Unlocked /\ cli[c] = "none" /\ mgr.refs # SERVICE_REFS_MAX
        /\ \/ /\ mgr.state = "ON"
              /\ mgr' = [mgr EXCEPT !.refs = @ + 1]
              /\ cli' = [cli EXCEPT ![c] = "on"]
              /\ UNCHANGED proc
           \/ /\ mgr.state \in {"OFF", "TO_OFF", "TO_ON"}
              /\ cli' = [cli EXCEPT ![c] = "requested"]
              /\ IF mgr.state = "OFF" THEN process_event(m, "EVT_RECHECK")
                 ELSE mgr' = m /\ UNCHANGED proc
        /\ UNCHANGED transition

\* by a client that has been told that the service is on
onoff_release(c) ==
    LET m == [mgr EXCEPT !.refs = @ - 1]
    IN  /\ Unlocked /\ cli[c] = "on" /\ mgr.state = "ON"
        /\ cli' = [cli EXCEPT ![c] = "none"]
        /\ IF m.refs = 0 THEN process_event(m, "EVT_RECHECK") ELSE mgr' = m /\ UNCHANGED proc
        /\ UNCHANGED transition

onoff_reset(c) ==
    LET m == [mgr EXCEPT !.clients = Append(@, c)]
    IN  /\ Unlocked /\ cli[c] = "none" /\ mgr.state \in {"ERROR", "RESETTING"}
        /\ cli' = [cli EXCEPT ![c] = "resetting"]
        /\ IF mgr.state = "ERROR" THEN process_event(m, "EVT_RECHECK")
           ELSE mgr' = m /\ UNCHANGED proc
        /\ UNCHANGED transition

\* unlink the node at place i
sys_slist_remove(list, i) ==
    [j \in 1 .. Len(list) - 1 |-> IF j < i THEN list[j] ELSE list[j + 1]]

\* -EALREADY when it is not, or no longer, on the manager's list
onoff_cancel(c) ==
    /\ Unlocked
    /\ \E i \in 1 .. Len(mgr.clients) :
          /\ mgr.clients[i] = c
          /\ mgr' = [mgr EXCEPT !.clients = sys_slist_remove(@, i)]
    /\ cli' = [cli EXCEPT ![c] = "none"]
    /\ UNCHANGED <<proc, transition>>

\* onoff_monitor_register() and onoff_monitor_unregister() of one monitor
onoff_monitor(registered) ==
    /\ Unlocked /\ mgr.monitors # registered
    /\ mgr' = [mgr EXCEPT !.monitors = registered]
    /\ UNCHANGED <<proc, transition, cli>>

OnOffNext ==
    \/ ProcessRound \/ notify_monitors \/ notify_all \/ Transit \/ Relock
    \/ \E res \in Results : transition_complete(res)
    \/ \E c \in Clients :
          onoff_request(c) \/ onoff_release(c) \/ onoff_reset(c) \/ onoff_cancel(c)
    \/ \E registered \in BOOLEAN : onoff_monitor(registered)

OnOffSpec == OnOffInit /\ [][OnOffNext]_onoffVars

-----------------------------------------------------------------------------
(* Properties                                                              *)

\* refs counts the clients that have got the service, told yet or not: requests
\* add to it when they are granted together or one by one, and releases take off.
RefsExact ==
    mgr.refs = Cardinality({c \in Clients : cli[c] = "on" \/ GotService(c)})

\* A client that has asked for something is on one list, once, until it is told:
\* the manager's, or the one process_event() notifies.  No other client is.
ClientsKept ==
    /\ NoDuplicates(mgr.clients) /\ NoDuplicates(proc.clients)
    /\ \A c \in Clients :
          /\ ~(OnQueue(mgr.clients, c) /\ OnQueue(proc.clients, c))
          /\ OnQueue(mgr.clients, c) \/ OnQueue(proc.clients, c)
                <=> cli[c] \in {"requested", "resetting"}

\* When the lock is free, waiting clients have a transition under way or an event
\* that the active process_event() will find, and so has a service that is on for
\* nobody; a transition has been or will be asked of the service, or its end is
\* recorded; and an event is recorded only while some process_event() is active.
EventsKept ==
    Unlocked =>
        /\ mgr.clients # <<>> => mgr.state \in Transitions \/ "RECHECK" \in mgr.flags
        /\ mgr.state = "ON" /\ mgr.refs = 0 => "RECHECK" \in mgr.flags
        /\ mgr.state \in Transitions => proc.transit \/ transition \/ "COMPLETE" \in mgr.flags
        /\ {"COMPLETE", "RECHECK"} \cap mgr.flags # {} => "PROCESSING" \in mgr.flags

\* The service is on from when a client is told so until the client releases it;
\* and clients are told the result of the transition they waited for.
ToldTruly ==
    \A c \in Clients :
        /\ cli[c] = "on" \/ GotService(c) => mgr.state = "ON"
        /\ OnQueue(proc.clients, c) /\ ~GotService(c) =>
              mgr.state = IF proc.res = "OK" THEN "OFF" ELSE "ERROR"
=============================================================================
