---------------------------- MODULE KernelObjects ---------------------------
(***************************************************************************)
(* Applications made of kernel objects on one CPU.  An application has     *)
(*   - buffers: the blocks of a memory slab, which threads and interrupt   *)
(*     handlers pass on through a queue and a stack and free;              *)
(*   - mailboxes: a mailbox, with synchronous and asynchronous messages;    *)
(*   - pipes: a pipe, with or without a ring buffer;                       *)
(*   - events: an event object;                                            *)
(*   - semaphores: a semaphore of user mode, on a futex;                  *)
(*   - timers: a timer, its waiting user and those that start and stop it; *)
(*   - pollers: threads in k_poll(), each with its own objects;            *)
(*   - triggers: triggered work; or                                        *)
(*   - services: an on-off manager and its clients.                        *)
(***************************************************************************)
EXTENDS MemSlab, Queue, Stack, Mailbox, Pipe, Events, Futex, Timer, Poll, OnOff

CONSTANT Applications

ASSUME KernelObjectsAssumption ==
    /\ Applications \subseteq
          {"buffers", "mailboxes", "pipes", "events", "semaphores", "timers", "pollers",
           "triggers", "services"}
    /\ Objects = {slab, queue, stack, tx_msg_queue, rx_msg_queue, readers, writers, event,
                  futex, timer, poll}

VARIABLE app

buffersVars == <<slabVars, data_q, entries>>
vars == <<app, waiting, buffersVars, mboxVars, pipeVars, eventVars, futexVars, timerVars, pollVars, onoffVars>>

TypeOK ==
    /\ app \in Applications
    /\ WaitingTypeOK
    /\ MemSlabTypeOK /\ QueueTypeOK /\ StackTypeOK
    /\ MailboxTypeOK /\ PipeTypeOK
    /\ EventsTypeOK /\ FutexTypeOK /\ TimerTypeOK
    /\ PollTypeOK /\ OnOffTypeOK

Init ==
    /\ app \in Applications
    /\ WaitingInit
    /\ MemSlabInit /\ QueueInit /\ StackInit
    /\ MailboxInit /\ PipeInit
    /\ EventsInit /\ FutexInit /\ TimerInit
    /\ app # "pipes" => pipe = EmptyPipe(0)
    /\ app # "timers" => starters = CHOOSE set \in StarterSets : TRUE
    /\ PollInit /\ OnOffInit

\* the threads' own timeouts, and the return of a call that waited for data
WaitingNext ==
    \/ \E t \in Threads : sys_clock_announce(t) \/ DataReturn(t)
    \/ ThreadTimeout

Buffers ==
    /\ app = "buffers"
    /\ \/ MemSlabNext /\ UNCHANGED <<data_q, entries>>
       \/ QueueNext /\ UNCHANGED <<slabVars, entries>>
       \/ StackNext /\ UNCHANGED <<slabVars, data_q>>
    /\ UNCHANGED <<app, mboxVars, pipeVars, eventVars, futexVars, timerVars, pollVars, onoffVars>>

Messaging ==
    /\ app = "mailboxes"
    /\ MailboxNext
    /\ UNCHANGED <<app, buffersVars, pipeVars, eventVars, futexVars, timerVars, pollVars, onoffVars>>

Piping ==
    /\ app = "pipes"
    /\ PipeNext
    /\ UNCHANGED <<app, buffersVars, mboxVars, eventVars, futexVars, timerVars, pollVars, onoffVars>>

Posting ==
    /\ app = "events"
    /\ EventsNext
    /\ UNCHANGED <<app, buffersVars, mboxVars, pipeVars, futexVars, timerVars, pollVars, onoffVars>>

Semaphores ==
    /\ app = "semaphores"
    /\ FutexNext
    /\ UNCHANGED <<app, buffersVars, mboxVars, pipeVars, eventVars, timerVars, pollVars, onoffVars>>

Timing ==
    /\ app = "timers"
    /\ TimerNext
    /\ UNCHANGED <<app, buffersVars, mboxVars, pipeVars, eventVars, futexVars, pollVars, onoffVars>>

Polling ==
    /\ \/ app = "pollers" /\ PollNext
       \/ app = "triggers" /\ WorkPollNext
       \/ app \in {"pollers", "triggers"} /\ PollEventsNext
    /\ UNCHANGED <<app, buffersVars, mboxVars, pipeVars, eventVars, futexVars, timerVars, onoffVars>>

Services ==
    /\ app = "services"
    /\ OnOffNext
    /\ UNCHANGED <<app, waiting, buffersVars, mboxVars, pipeVars, eventVars, futexVars, timerVars, pollVars>>

Next ==
    \/ WaitingNext
       /\ UNCHANGED <<app, buffersVars, mboxVars, pipeVars, eventVars, futexVars, timerVars, pollVars, onoffVars>>
    \/ Buffers \/ Messaging \/ Piping \/ Posting \/ Semaphores \/ Timing \/ Polling \/ Services

Spec == Init /\ [][Next]_vars

-----------------------------------------------------------------------------
(* Properties                                                              *)

\* Every block is in one place: on the slab's free list, in the queue, in the
\* stack, owned by a thread or an interrupt handler, or given to a thread whose
\* waiting call has not returned yet; and num_used counts the ones in use.  A
\* block given to a thread whose wait has timed out would be lost, and one
\* handed over and also stored would have two owners.  And a sys_sem has as
\* many counts as were given and not taken, whoever marked it as contended.
\* A dummy thread is unused, waits with its message, or belongs to one that has
\* been received, and so does a blocked sender: who else would let it go on?  The
\* semaphore of an asynchronous send is given once the message is disposed of.
\* Bytes come out of a pipe in the order in which they went in, and none is lost.
\* The manager of a service counts the clients for which it is on, and has the
\* others that asked for something on one list until they are told.
Conserved ==
    LET Places(b) == {i \in DOMAIN free_list : free_list[i] = b} \X {"free"}
                        \cup {i \in DOMAIN data_q : data_q[i] = b} \X {"queue"}
                        \cup {i \in DOMAIN entries : entries[i] = b} \X {"stack"}
                        \cup {c \in Callers : b \in held[c]} \X {"held"}
                        \cup {t \in Threads : b \in Given(t)} \X {"given"}
    IN  /\ \A b \in Blocks : Cardinality(Places(b)) = 1
        /\ num_used = Cardinality(Blocks) - Len(free_list)
        /\ tokens = sys_sem_count_get
        /\ \A s \in Dummies \cup {t \in Threads : call[t] = "put" /\ t \notin p.ready} :
              Cardinality({i \in DOMAIN async_free : async_free[i] = s} \X {"free"}
                              \cup {w \in {tx_msg_queue} : p.pended_on[s] = w} \X {"waits"}
                              \cup {r \in Threads : rx[r].syncing = s} \X {"received"}) = 1
        /\ asked = async_sem + Cardinality({d \in Dummies : tx[d].sem})
                             + Cardinality({t \in Threads : call[t] = "disposed"})
        /\ pipe.in_order /\ (pipe.read + pipe.bytes_used) % Tags = pipe.written
        /\ RefsExact /\ ClientsKept

\* No thread waits beside what it waits for: a slab with a free block, a queue
\* or a stack with an item, events that meet its condition, an object of its
\* poll events that is available; and one that waits for a timer waits for a
\* timer that runs, or whose handler or stop is still to wake it.  Triggered
\* work that waits for an object still polls, and no object of its is available,
\* unless its queue, being drained or plugged, refused it.  One that waits for a
\* sys_sem waits for one that the next sys_sem_give() finds marked as contended,
\* unless k_futex_wake() came between the comparison and the lock of its
\* k_futex_wait(): that is the only way to miss a count.  No message waits in a
\* mailbox beside a receiver that would take it, and no reader of a pipe beside
\* bytes or writer beside space.  Clients that wait for a service have a
\* transition under way, or an event that the active process_event() will find;
\* and so has a service that is on for nobody.
NoWaitBesideData ==
    /\ \A t \in Threads : p.pended_on[t] # NULL =>
          /\ p.pended_on[t] = slab => free_list = <<>>
          /\ p.pended_on[t] = queue => data_q = <<>>
          /\ p.pended_on[t] = stack => entries = <<>>
          /\ p.pended_on[t] = readers =>
                pipe.bytes_used = 0 /\ \A u \in ToSet(p.waitq[writers]) : desc[u].bytes_to_xfer = 0
          /\ p.pended_on[t] = writers =>
                pipe.bytes_used = pipe.size \/ desc[t].bytes_to_xfer = 0
          /\ p.pended_on[t] = event =>
                ~are_wait_conditions_met(desired[t], events, wait_condition[t])
          /\ p.pended_on[t] = futex =>
                val < 0 \/ t \in missed \/ \E u \in Threads : call[u] = "give"
          /\ p.pended_on[t] = poll => ToSet(EventArrays[t]) \cap available = {}
          /\ p.pended_on[t] = timer =>
                linked \/ handler # "none" \/ \E u \in Threads : call[u] \in {"start", "stop"}
    /\ \A s \in ToSet(p.waitq[tx_msg_queue]), r \in ToSet(p.waitq[rx_msg_queue]) :
          ~Compatible(tx[s], r, rx[r])
    /\ EventsKept
    /\ \A x \in Tworks :
          poller[x].mode = "TRIGGERED" /\ twork[x].workq /\ ~twork[x].queued /\ ~twork[x].running =>
              \/ twork[x].refused
              \/ poller[x].is_polling /\ ToSet(EventArrays[x]) \cap available = {}

\* What a call returns after a wait is so.  k_event_wait() returns events that
\* met the caller's condition when they were posted, whatever has been cleared
\* or reset since, and nothing after a timeout.  k_poll() that has waited returns
\* 0 only with a poll event that is ready, and -EINTR only with one that is
\* cancelled; but 0 with either of them when the event came before it waited.
\* A triggered work item, too, runs with the result 0 only if one of its poll
\* events is ready or cancelled.  k_mbox_put() returns 0 if and only if a receiver
\* has disposed of the message, and -EAGAIN only if none has received it.  A
\* pipe's request with K_FOREVER that has waited returns when all is done.  A
\* service is on from when a client is told so until the client releases it;
\* and clients are told the result of the transition they waited for.
ReturnsTruthful ==
    /\ \A t \in Threads : call[t] = "wait" /\ t \in p.ready =>
          IF p.swap_retval[t] = "OK"
          THEN are_wait_conditions_met(desired[t], EventResult(t), wait_condition[t])
          ELSE EventResult(t) = {}
    /\ \A t \in Threads : call[t] = "put" /\ t \in p.ready =>
          tx[t].stage = IF p.swap_retval[t] = "OK" THEN "disposed" ELSE "sent"
    /\ \A t \in Threads : call[t] \in {"write", "read"} /\ t \in p.ready =>
          ~desc[t].forever \/ desc[t].bytes_to_xfer = 0
    /\ \A t \in Threads : call[t] = "poll" /\ t \in p.ready =>
          /\ p.swap_retval[t] = "OK" => \E i \in DOMAIN ev[t] : "AVAILABLE" \in ev[t][i].state
          /\ p.swap_retval[t] = "EINTR" => \E i \in DOMAIN ev[t] : "CANCELLED" \in ev[t][i].state
    /\ \A t \in Threads : call[t] = "clear" /\ task[t].of = t =>
          /\ task[t].rc = "OK" => \E i \in DOMAIN ev[t] : ev[t][i].state # {}
          /\ task[t].rc = "EINTR" => \E i \in DOMAIN ev[t] : "CANCELLED" \in ev[t][i].state
    /\ ToldTruly
    /\ \A x \in Tworks : twork[x].running /\ twork[x].poll_result = "OK" =>
          \E i \in DOMAIN ev[x] : ev[x][i].state # {}

\* Poll events, which are often on the caller's stack, are on no object's list
\* after the call that registered them: those of k_poll() when it has returned,
\* those of triggered work when its handler runs or it has been cancelled.
Unregistered ==
    \A o \in PollObjects : poll_events[o] # NULL =>
        LET x == poll_events[o][1]
        IN  IF x \in Tworks THEN twork[x].workq
            ELSE call[x] \in {"register", "poll", "clear"} /\ task[x].of = x

\* A triggered work item is queued or run at most once for each submission,
\* whichever of its event, its timeout, its cancellation and the submission
\* itself come together, and not after a successful cancellation.
TriggerOnce ==
    \A x \in Tworks : twork[x].queued \/ twork[x].running => x \in armed

\* A timer fires only for the deadline it was last started with: not for the
\* one before it when it is started again in an interrupt, between
\* sys_clock_announce() and the handler; and its timeout is never added while
\* it is on the list, which z_add_timeout() asserts.
TimerExact ==
    [][(status' > status => due) /\ ~relinked']_vars

\* "One or more events are ready", as kernel.h says of k_poll() that returns 0,
\* and -EINTR is what it says a poller gets from k_queue_cancel_wait().
PollZeroMeansReady ==
    \A t \in Threads : call[t] = "clear" /\ task[t].of = t /\ task[t].rc = "OK" =>
        \E i \in DOMAIN ev[t] : "AVAILABLE" \in ev[t][i].state

\* Nobody waits for a sys_sem that has counts and that the next sys_sem_give()
\* does not find contended: k_futex_wait() compares and waits as one.
FutexWaitAtomic ==
    \A t \in Threads : p.pended_on[t] = futex =>
        val < 0 \/ \E u \in Threads : call[u] = "give"

\* Triggered work that was submitted waits for an event, is queued or runs.
TriggerKept ==
    \A x \in Tworks : twork[x].workq /\ poller[x].mode = "TRIGGERED" =>
        poller[x].is_polling \/ twork[x].queued \/ twork[x].running

\* A thread waits to write to a pipe only as long as it has bytes left to write.
PipeWritersWaitForSpace ==
    \A t \in Threads : p.pended_on[t] = writers => desc[t].bytes_to_xfer # 0

\* A thread that waits in k_queue_get() is on the queue's wait queue, or it has
\* been made ready: k_queue_append_list() leaves nobody in between, where
\* neither an item nor the end of its timeout can reach it.
QueueWaitersReachable ==
    \A t \in Threads : call[t] = "get" =>
        t \in p.ready \/ p.pended_on[t] = queue
=============================================================================
