-------------------------------- MODULE Work --------------------------------
(***************************************************************************)
(* The work queues of kernel/work.c.  Threads and interrupt handlers       *)
(* submit, schedule, cancel, flush and drain; so do the handlers of the    *)
(* items themselves, which run in the queues' threads with no lock held.   *)
(*                                                                         *)
(* Every locked section is one step.  An item on a queue is a work item or *)
(* a thread: the thread stands for the flusher in the k_work_sync it gave  *)
(* to k_work_flush().  A thread uses one k_work_sync, which persists.      *)
(*                                                                         *)
(* sys_clock_announce() unlinks a timeout and calls work_timeout() with no *)
(* lock held.  In between, an interrupt above the system timer's makes the *)
(* calls that interrupts may make; with SMP other CPUs act there too.      *)
(***************************************************************************)
EXTENDS Integers, Sequences, Priq

CONSTANTS
    Works,          \* struct k_work, those inside delayable items included
    Delayable,      \* struct k_work_delayable
    Queues,         \* struct k_work_q
    Threads,        \* threads that flush, cancel and drain
    Applications,   \* the queues and threads an application may have
    NULL,
    SMP             \* CONFIG_SMP

ASSUME WorkAssumption ==
    /\ Delayable \subseteq Works
    /\ Works \cap Threads = {} /\ NULL \notin Works \cup Queues \cup Threads
    /\ Applications \subseteq [queues : SUBSET Queues, threads : SUBSET Threads]
    /\ SMP \in BOOLEAN

VARIABLES
    app,            \* the application; never changes
    k,              \* what the lock of work.c protects
    expired,        \* the timeout that is unlinked and not handled yet
    running,        \* the item a queue's thread has taken off its list
    handled,        \* queues whose thread has returned from handle_flush()
    call,           \* the call a thread waits in
    owed,           \* runs a k_work_flush() waits for: a history variable
    raced           \* linked timeouts added between the unlinking of the item's
                    \* previous one and its handler: a history variable

workVars == <<app, k, expired, running, handled, call, owed>>
vars == <<workVars, raced>>

Items == Works \cup Threads
WorkFlags == {"QUEUED", "RUNNING", "CANCELING", "DELAYED"}
QueueFlags == {"STARTED", "BUSY", "DRAIN", "PLUGGED"}
Delays == {"NO_WAIT", "TIMEOUT"}

WorkState ==
    [flags : [Works -> SUBSET WorkFlags],
     queue : [Works -> Queues \cup {NULL}],       \* the last queue submitted to
     dqueue : [Delayable -> Queues \cup {NULL}],  \* the queue scheduled for
     timeout : SUBSET Delayable,                  \* timeouts that are linked
     qflags : [Queues -> SUBSET QueueFlags],
     pending : [Queues -> Seq(Items)],
     notifyq : SUBSET Queues,                     \* queues whose thread sleeps
     drainq : [Queues -> SUBSET Threads],
     pending_cancels : [Threads -> Works \cup {NULL}],
     sem : SUBSET Threads]                        \* k_work_sync given, not taken

CoreTypeOK ==
    /\ app \in Applications
    /\ k \in WorkState
    /\ expired \in Delayable \cup {NULL}
    /\ running \in [Queues -> Items \cup {NULL}]
    /\ handled \subseteq Queues
    /\ call \in [Threads -> {"none", "flush", "cancel", "drain"}]
    /\ owed \in [Threads -> SUBSET (Works \X {"QUEUED", "RUNNING"})]

TypeOK == CoreTypeOK /\ raced \subseteq Delayable

Init ==
    /\ app \in Applications
    /\ k = [flags |-> [w \in Works |-> {}],
            queue |-> [w \in Works |-> NULL],
            dqueue |-> [d \in Delayable |-> NULL],
            timeout |-> {},
            qflags |-> [q \in Queues |-> {}],
            pending |-> [q \in Queues |-> <<>>],
            notifyq |-> {},
            drainq |-> [q \in Queues |-> {}],
            pending_cancels |-> [t \in Threads |-> NULL],
            sem |-> {}]
    /\ expired = NULL
    /\ running = [q \in Queues |-> NULL]
    /\ handled = {}
    /\ call = [t \in Threads |-> "none"]
    /\ owed = [t \in Threads |-> {}]
    /\ raced = {}

-----------------------------------------------------------------------------
(* The functions that are called with the lock held.                       *)

\* mutant: the bit of a queue in place of the item's
flag_set_QueueBit(s, w, f) ==
    [s EXCEPT !.flags[w] = @ \cup {IF f = "RUNNING" THEN "BUSY" ELSE f}]

flag_set(s, w, f) == [s EXCEPT !.flags[w] = @ \cup {f}]
flag_clear(s, w, f) == [s EXCEPT !.flags[w] = @ \ {f}]

\* mutant: a queue that sleeps is not told of a flusher or a drain
notify_queue_locked_Lost(s, q) == s

notify_queue_locked(s, q) == [s EXCEPT !.notifyq = @ \ {q}]

\* what queue_submit_locked() accepts; ctx is the queue whose thread calls, or
\* NULL for any other thread and for interrupt handlers
Accepts(s, ctx, q) ==
    /\ q # NULL
    /\ "STARTED" \in s.qflags[q]
    /\ "DRAIN" \in s.qflags[q] => ctx = q
    /\ "PLUGGED" \in s.qflags[q] => "DRAIN" \in s.qflags[q]

queue_submit_locked(s, q, w) ==
    notify_queue_locked([s EXCEPT !.pending[q] = Append(@, w)], q)

\* mutant: a running item may be queued to another queue
SubmitTarget_Requested(s, w, q) == IF q = NULL THEN s.queue[w] ELSE q

\* a running item goes to the queue that runs it
SubmitTarget(s, w, q) ==
    IF q = NULL \/ "RUNNING" \in s.flags[w] THEN s.queue[w] ELSE q

submit_to_queue_locked(s, ctx, w, q) ==
    LET target == SubmitTarget(s, w, q)
    IN  IF s.flags[w] \cap {"CANCELING", "QUEUED"} # {} \/ ~Accepts(s, ctx, target)
        THEN s
        ELSE flag_set([queue_submit_locked(s, target, w) EXCEPT !.queue[w] = target],
                      w, "QUEUED")

\* mutant: the flusher always goes to the front
queue_flusher_locked_Front(s, q, w, t) ==
    [s EXCEPT !.pending[q] = <<t>> \o @, !.sem = @ \ {t}]

\* behind the item if that is on the list, otherwise at the front
queue_flusher_locked(s, q, w, t) ==
    LET list == s.pending[q]
        at == IF OnQueue(list, w) THEN IndexOf(list, w) + 1 ELSE 1
    IN  [s EXCEPT !.pending[q] = sys_dlist_insert(list, at, t), !.sem = @ \ {t}]

queue_remove_locked(s, w) ==
    IF "QUEUED" \in s.flags[w]
    THEN flag_clear([s EXCEPT !.pending[s.queue[w]] = sys_dlist_remove(@, IndexOf(@, w))],
                    w, "QUEUED")
    ELSE s

NeedsFlush(s, w) == s.flags[w] \cap {"QUEUED", "RUNNING"} # {}

work_flush_locked(s, w, t) ==
    notify_queue_locked(queue_flusher_locked(s, s.queue[w], w, t), s.queue[w])

\* mutant: an item that was only queued is marked as being cancelled
cancel_async_locked_Always(s, w) ==
    flag_set(IF "CANCELING" \in s.flags[w] THEN s ELSE queue_remove_locked(s, w),
             w, "CANCELING")

cancel_async_locked(s, w) ==
    LET u == IF "CANCELING" \in s.flags[w] THEN s ELSE queue_remove_locked(s, w)
    IN  IF u.flags[w] # {} THEN flag_set(u, w, "CANCELING") ELSE u

init_work_cancel(s, w, t) ==
    [s EXCEPT !.pending_cancels[t] = w, !.sem = @ \ {t}]

finalize_cancel_locked(s, w) ==
    LET waiting == {t \in Threads : s.pending_cancels[t] = w}
    IN  [flag_clear(s, w, "CANCELING") EXCEPT
            !.pending_cancels = [t \in Threads |-> IF t \in waiting THEN NULL ELSE @[t]],
            !.sem = @ \cup waiting]

\* z_abort_timeout() succeeds
Unschedules(s, d) == "DELAYED" \in s.flags[d] /\ d \in s.timeout

\* mutant: the timeout stays linked
unschedule_locked_KeepsTimeout(s, d) == flag_clear(s, d, "DELAYED")

unschedule_locked(s, d) ==
    IF "DELAYED" \in s.flags[d]
    THEN flag_clear([s EXCEPT !.timeout = @ \ {d}], d, "DELAYED")
    ELSE s

\* what z_add_timeout() asserts
MayAdd(s, d, delay) == delay = "TIMEOUT" => d \notin s.timeout

schedule_for_queue_locked(s, ctx, d, q, delay) ==
    IF delay = "NO_WAIT"
    THEN submit_to_queue_locked(s, ctx, d, q)
    ELSE flag_set([s EXCEPT !.dqueue[d] = q, !.timeout = @ \cup {d}], d, "DELAYED")

-----------------------------------------------------------------------------
(* Calls.  ctx is the caller: the handler that queue ctx runs, or NULL for *)
(* any other thread and for interrupts.                                    *)

\* without SMP the timer interrupt is in the way of all threads
MayAct == SMP \/ expired = NULL

\* a function that is allowed in interrupts, which come at any time
Calls(ctx) == ctx # NULL => MayAct /\ running[ctx] \in Works

\* a thread of the application that waits in no call
Idle(t) == t \in app.threads /\ call[t] = "none"

\* a call that does not wait
Locked(new) ==
    /\ k' = new
    /\ UNCHANGED <<app, expired, running, handled, call, owed>>

k_work_queue_start(q) ==
    /\ MayAct /\ q \in app.queues /\ "STARTED" \notin k.qflags[q]
    /\ Locked([k EXCEPT !.qflags[q] = {"STARTED"}])

k_work_submit_to_queue(ctx, w, q) ==
    /\ Calls(ctx) /\ w \notin Delayable
    /\ Locked(submit_to_queue_locked(k, ctx, w, q))

k_work_schedule_for_queue(ctx, d, q, delay) ==
    /\ Calls(ctx)
    /\ k.flags[d] \subseteq {"RUNNING"} /\ MayAdd(k, d, delay)
    /\ Locked(schedule_for_queue_locked(k, ctx, d, q, delay))

k_work_reschedule_for_queue(ctx, d, q, delay) ==
    /\ Calls(ctx) /\ MayAdd(unschedule_locked(k, d), d, delay)
    /\ Locked(schedule_for_queue_locked(unschedule_locked(k, d), ctx, d, q, delay))

\* a queued run that is cancelled is no longer waited for
Dequeued(w) == [t \in Threads |-> owed[t] \ {<<w, "QUEUED">>}]

\* k_work_cancel() and k_work_cancel_delayable()
CancelLocked(w) ==
    cancel_async_locked(IF w \in Delayable THEN unschedule_locked(k, w) ELSE k, w)

k_work_cancel(ctx, w) ==
    /\ Calls(ctx)
    /\ k' = CancelLocked(w)
    /\ owed' = Dequeued(w)
    /\ UNCHANGED <<app, expired, running, handled, call>>

\* k_work_cancel_sync() and k_work_cancel_delayable_sync()
k_work_cancel_sync(t, w) ==
    /\ MayAct /\ Idle(t) /\ k.flags[w] # {}
    /\ LET u == CancelLocked(w)
           need_wait == "CANCELING" \in u.flags[w]
       IN  /\ k' = IF need_wait THEN init_work_cancel(u, w, t) ELSE u
           /\ call' = IF need_wait THEN [call EXCEPT ![t] = "cancel"] ELSE call
    /\ owed' = Dequeued(w)
    /\ UNCHANGED <<app, expired, running, handled>>

\* k_work_flush_delayable() submits an item whose delay it ends
FlushSubmitted(w) ==
    IF w \notin Delayable THEN k
    ELSE IF Unschedules(k, w)
    THEN submit_to_queue_locked(unschedule_locked(k, w), NULL, w, k.dqueue[w])
    ELSE unschedule_locked(k, w)

\* k_work_flush() and k_work_flush_delayable()
k_work_flush(t, w) ==
    /\ MayAct /\ Idle(t)
    /\ LET u == FlushSubmitted(w)
       IN  IF NeedsFlush(u, w)
           THEN /\ k' = work_flush_locked(u, w, t)
                /\ call' = [call EXCEPT ![t] = "flush"]
                /\ owed' = [owed EXCEPT ![t] =
                              {w} \X (u.flags[w] \cap {"QUEUED", "RUNNING"})]
           ELSE k' = u /\ UNCHANGED <<call, owed>>
    /\ UNCHANGED <<app, expired, running, handled>>

\* k_sem_take() of a flush or a cancellation returns
SyncReturn(t) ==
    /\ MayAct /\ call[t] \in {"flush", "cancel"} /\ t \in k.sem
    /\ k' = [k EXCEPT !.sem = @ \ {t}]
    /\ call' = [call EXCEPT ![t] = "none"]
    /\ UNCHANGED <<app, expired, running, handled, owed>>

\* mutant: the queue's thread is not woken to see the flag
k_work_queue_drain_Quiet(t, q, plug) ==
    /\ MayAct /\ Idle(t) /\ "STARTED" \in k.qflags[q]
    /\ k.qflags[q] \cap {"BUSY", "DRAIN"} # {} \/ plug \/ k.pending[q] # <<>>
    /\ k' = [k EXCEPT !.qflags[q] =
                @ \cup {"DRAIN"} \cup (IF plug THEN {"PLUGGED"} ELSE {}),
                      !.drainq[q] = @ \cup {t}]
    /\ call' = [call EXCEPT ![t] = "drain"]
    /\ UNCHANGED <<app, expired, running, handled, owed>>

\* with nothing to drain it returns at once
k_work_queue_drain(t, q, plug) ==
    /\ MayAct /\ Idle(t) /\ "STARTED" \in k.qflags[q]
    /\ k.qflags[q] \cap {"BUSY", "DRAIN"} # {} \/ plug \/ k.pending[q] # <<>>
    /\ k' = notify_queue_locked(
                [k EXCEPT !.qflags[q] =
                    @ \cup {"DRAIN"} \cup (IF plug THEN {"PLUGGED"} ELSE {}),
                          !.drainq[q] = @ \cup {t}], q)
    /\ call' = [call EXCEPT ![t] = "drain"]
    /\ UNCHANGED <<app, expired, running, handled, owed>>

k_work_queue_unplug(q) ==
    /\ "PLUGGED" \in k.qflags[q]
    /\ Locked([k EXCEPT !.qflags[q] = @ \ {"PLUGGED"}])

-----------------------------------------------------------------------------
(* A queue's thread: work_queue_main().                                    *)

Loops(q) ==
    MayAct /\ "STARTED" \in k.qflags[q] /\ q \notin k.notifyq /\ running[q] = NULL

\* it takes the first item, and unlocks to call the handler
TakeWork(q) ==
    /\ Loops(q) /\ k.pending[q] # <<>>
    /\ LET item == Head(k.pending[q])
           u == [k EXCEPT !.pending[q] = Tail(@), !.qflags[q] = @ \cup {"BUSY"}]
       IN  /\ running' = [running EXCEPT ![q] = item]
           /\ k' = IF item \in Works
                   THEN flag_set(flag_clear(u, item, "QUEUED"), item, "RUNNING") ELSE u
           /\ owed' = [t \in Threads |->
                         {IF x = <<item, "QUEUED">> THEN <<item, "RUNNING">> ELSE x :
                             x \in owed[t]}]
    /\ UNCHANGED <<app, expired, handled, call>>

\* nothing to do: the threads that drain the queue are woken, and it sleeps
SleepOnNotifyq(q) ==
    /\ Loops(q) /\ k.pending[q] = <<>>
    /\ LET drained == IF "DRAIN" \in k.qflags[q] THEN k.drainq[q] ELSE {}
       IN  /\ k' = [k EXCEPT !.qflags[q] = @ \ {"DRAIN"}, !.drainq[q] = @ \ drained,
                             !.notifyq = @ \cup {q}]
           /\ call' = [t \in Threads |-> IF t \in drained THEN "none" ELSE call[t]]
    /\ UNCHANGED <<app, expired, running, handled, owed>>

handle_flush(q) ==
    /\ MayAct /\ running[q] \in Threads /\ q \notin handled
    /\ handled' = handled \cup {q}
    /\ k' = [k EXCEPT !.sem = @ \cup {running[q]}]
    /\ UNCHANGED <<app, expired, running, call, owed>>

\* the handler has returned and the lock is taken again
WorkDone(q) ==
    /\ MayAct /\ running[q] # NULL /\ (running[q] \in Threads => q \in handled)
    /\ LET item == running[q]
           u == IF item \in Works THEN flag_clear(k, item, "RUNNING") ELSE k
           v == IF item \in Works /\ "CANCELING" \in u.flags[item]
                THEN finalize_cancel_locked(u, item) ELSE u
       IN  /\ k' = [v EXCEPT !.qflags[q] = @ \ {"BUSY"}]
           /\ owed' = [t \in Threads |-> owed[t] \ {<<item, "RUNNING">>}]
    /\ running' = [running EXCEPT ![q] = NULL]
    /\ handled' = handled \ {q}
    /\ UNCHANGED <<app, expired, call>>

-----------------------------------------------------------------------------
sys_clock_announce(d) ==
    /\ expired = NULL /\ d \in k.timeout
    /\ k' = [k EXCEPT !.timeout = @ \ {d}]
    /\ expired' = d
    /\ UNCHANGED <<app, running, handled, call, owed>>

work_timeout ==
    /\ expired # NULL
    /\ k' = IF "DELAYED" \in k.flags[expired]
            THEN submit_to_queue_locked(flag_clear(k, expired, "DELAYED"), NULL,
                                        expired, k.dqueue[expired])
            ELSE k
    /\ expired' = NULL
    /\ UNCHANGED <<app, running, handled, call, owed>>

work_queue_main(q) == TakeWork(q) \/ SleepOnNotifyq(q) \/ handle_flush(q) \/ WorkDone(q)

\* what is linked while the handler of the item's last timeout is to come
Races ==
    raced' = {d \in k'.timeout : d \in raced \/ (d = expired /\ d \notin k.timeout)}

Step ==
    \/ \E q \in Queues :
          k_work_queue_start(q) \/ k_work_queue_unplug(q) \/ work_queue_main(q)
    \/ \E ctx \in Queues \cup {NULL}, w \in Works :
          \/ \E q \in Queues \cup {NULL} : k_work_submit_to_queue(ctx, w, q)
          \/ k_work_cancel(ctx, w)
    \/ \E ctx, q \in Queues \cup {NULL}, d \in Delayable, delay \in Delays :
          \/ k_work_schedule_for_queue(ctx, d, q, delay)
          \/ k_work_reschedule_for_queue(ctx, d, q, delay)
    \/ \E t \in Threads :
          \/ \E w \in Works : k_work_cancel_sync(t, w) \/ k_work_flush(t, w)
          \/ \E q \in Queues, plug \in BOOLEAN : k_work_queue_drain(t, q, plug)
          \/ SyncReturn(t)
    \/ \E d \in Delayable : sys_clock_announce(d)
    \/ work_timeout

Next == Step /\ Races

\* The queues' threads get the CPU again and again and their handlers return;
\* an interrupt handler ends, and a thread that is ready runs.
Fairness ==
    /\ \A q \in Queues : SF_workVars(work_queue_main(q))
    /\ \A t \in Threads : SF_workVars(SyncReturn(t))
    /\ WF_workVars(work_timeout)

Spec == Init /\ [][Next]_vars /\ Fairness

-----------------------------------------------------------------------------
\* The flags tell where an item is: it runs on at most one queue, the one it
\* was last submitted to, it is on that queue's list exactly once if it is
\* queued and on no list otherwise, whatever its handler, its timeout and other
\* threads submit meanwhile.
FlagsExact ==
    \A q \in Queues :
        /\ NoDuplicates(k.pending[q])
        /\ \A w \in Works :
              /\ running[q] = w <=> "RUNNING" \in k.flags[w] /\ k.queue[w] = q
              /\ OnQueue(k.pending[q], w) <=> "QUEUED" \in k.flags[w] /\ k.queue[w] = q

\* "Wait for last-submitted instance to complete": k_work_flush() is released
\* only after the runs that were queued or running when it was called have
\* ended or have been cancelled.  Until handle_flush() has released it, its
\* flusher, which is often on the caller's stack, is on one list or taken off
\* it, and never there outside the call.
FlushComplete ==
    \A t \in Threads :
        LET listed == {q \in Queues : OnQueue(k.pending[q], t)}
            taken == {q \in Queues : running[q] = t /\ q \notin handled}
        IN  IF call[t] = "flush" /\ t \notin k.sem
            THEN listed \cap taken = {} /\ \E q \in Queues : listed \cup taken = {q}
            ELSE listed \cup taken = {} /\ (call[t] = "flush" => owed[t] = {})

\* Cancellation ends: only a running item is marked as being cancelled (it
\* takes no submission until its queue clears the mark), and each thread in
\* k_work_cancel_sync() is released or waits for such an item.
CancelEnds ==
    /\ \A w \in Works : "CANCELING" \in k.flags[w] => "RUNNING" \in k.flags[w]
    /\ \A t \in Threads :
          call[t] = "cancel" =>
             \/ t \in k.sem
             \/ \E w \in Works :
                   k.pending_cancels[t] = w /\ "CANCELING" \in k.flags[w]

\* No wake-up of a queue's thread is lost: it sleeps only while its list is
\* empty and nobody waits for it to drain.
SleepsOnlyIdle ==
    \A q \in k.notifyq :
        /\ k.pending[q] = <<>> /\ running[q] = NULL
        /\ "DRAIN" \notin k.qflags[q] /\ k.drainq[q] = {}

\* A delay is neither lost nor left behind.  An item that is marked delayed,
\* which k_work_schedule() refuses to schedule again, has a timeout to come; and
\* a timeout is linked exactly while its item is marked and it has not expired,
\* so a cancelled delay submits nothing and the next one finds the timeout free,
\* unless the item was scheduled again between the unlinking of its timeout and
\* work_timeout(): then the handler takes the new mark for its own.
DelayExact ==
    \A d \in Delayable :
        /\ "DELAYED" \in k.flags[d] => d \in k.timeout \/ d = expired
        /\ d \notin raced =>
              (d \in k.timeout <=> "DELAYED" \in k.flags[d] /\ d # expired)

\* "Submit an idle work item to a queue after a delay": while the timeout of an
\* item is linked it has not been submitted by work_timeout().  What DelayExact
\* excepts refutes it.
NeverEarly == \A d \in k.timeout : "DELAYED" \in k.flags[d]

\* k_work_flush() and k_work_cancel_sync() return, whatever is submitted,
\* cancelled and flushed meanwhile, if handlers return.
SyncEnds == \A t \in Threads : call[t] \in {"flush", "cancel"} ~> call[t] = "none"
=============================================================================
