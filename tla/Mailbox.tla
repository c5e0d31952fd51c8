------------------------------- MODULE Mailbox ------------------------------
(***************************************************************************)
(* The mailbox of kernel/mailbox.c.  A sender and a receiver meet when     *)
(* each is whom the other asked for.  A synchronous sender stays blocked   *)
(* after that, on no wait queue, until the receiver disposes of the        *)
(* message, which it may do much later.  For an asynchronous message a     *)
(* dummy thread from a pool takes the sender's place.                      *)
(*                                                                         *)
(* A thread has one transmit and one receive descriptor here.  Of the data *)
(* only its size is kept; the info words that are exchanged are left out.  *)
(***************************************************************************)
EXTENDS Waiting

CONSTANTS
    tx_msg_queue,   \* where senders wait for a receiver
    rx_msg_queue,   \* where receivers wait for a message
    MaxSize         \* of the data

VARIABLES
    tx,             \* the transmit descriptor of a sender, real or dummy
    rx,             \* the receive descriptor of a thread
    async_free,     \* async_msg_free, the stack of unused dummies
    async_sem,      \* the count of the semaphore given with asynchronous sends
    asked           \* history: sends with the semaphore, not acknowledged by it

mboxVars == <<tx, rx, async_free, async_sem, asked>>

K_ANY == NULL

Senders == Threads \ Dummies

\* a bound: more sends with the semaphore than there are dummies
MaxAsked == Cardinality(Dummies) + 1

TxMsgs == [source : Senders \cup {NULL}, target : Senders \cup {K_ANY}, size : 0 .. MaxSize,
           sem : BOOLEAN, stage : {"none", "sent", "received", "disposed"}]

RxMsgs == [source : Senders \cup {K_ANY}, size : 0 .. MaxSize, buffer : BOOLEAN,
           syncing : Threads \cup {NULL}]

NoTx == [source |-> NULL, target |-> K_ANY, size |-> 0, sem |-> FALSE, stage |-> "none"]
NoRx == [source |-> K_ANY, size |-> 0, buffer |-> FALSE, syncing |-> NULL]

MailboxTypeOK ==
    /\ tx \in [Threads -> TxMsgs]
    /\ rx \in [Threads -> RxMsgs]
    /\ async_free \in Seq(Dummies)
    /\ async_sem \in 0 .. MaxAsked
    /\ asked \in 0 .. MaxAsked

\* init_mbox_module() and k_mbox_init()
MailboxInit ==
    /\ tx = [t \in Threads |-> NoTx]
    /\ rx = [t \in Threads |-> NoRx]
    /\ async_free = SetToSeq(Dummies)
    /\ async_sem = 0
    /\ asked = 0

-----------------------------------------------------------------------------
\* a message of the descriptor m, for receiver r with the descriptor x
Compatible(m, r, x) == m.target \in {K_ANY, r} /\ x.source \in {K_ANY, m.source}

\* what mbox_message_match() makes of a compatible x, when s is the sender
mbox_message_match(m, s, x) ==
    [x EXCEPT !.source = m.source, !.size = Min({@, m.size}), !.syncing = s]

\* the receiver that m finds waiting, or the sender that finds x
ReceiverOf(m) ==
    SelectInSeq(p.waitq[rx_msg_queue], LAMBDA r : Compatible(m, r, rx[r]))
SenderFor(r, x) ==
    SelectInSeq(p.waitq[tx_msg_queue], LAMBDA s : Compatible(tx[s], r, x))

\* mbox_message_put() by the sender s to a waiting receiver, in the state q
\* with s off the ready queue
PutMatched(m, s, q) ==
    LET r == p.waitq[rx_msg_queue][ReceiverOf(m)]
    IN  /\ tx' = [tx EXCEPT ![s] = [m EXCEPT !.target = r, !.stage = "received"]]
        /\ rx' = [rx EXCEPT ![r] = mbox_message_match(m, s, @)]
        /\ p' = WakeWith(z_unpend_thread(q, r), "OK")

\* with a receiver the sender waits on no queue and without a timeout, for the
\* receiver to dispose of the message; -ENOMSG changes nothing
k_mbox_put(t, target, size, wait) ==
    LET m == [NoTx EXCEPT !.source = t, !.target = target, !.size = size, !.stage = "sent"]
    IN  /\ MayCall(t)
        /\ ReceiverOf(m) = 0 => wait # "NO_WAIT"
        /\ IF ReceiverOf(m) # 0
           THEN PutMatched(m, t, [p EXCEPT !.ready = @ \ {t}, !.swap_retval[t] = "EAGAIN"])
           ELSE /\ p' = z_pend_curr(p, t, tx_msg_queue, wait)
                /\ tx' = [tx EXCEPT ![t] = m]
                /\ UNCHANGED rx
        /\ call' = [call EXCEPT ![t] = "put"]
        /\ UNCHANGED <<async_free, async_sem, asked, swap_data, held, announced>>

PutReturn(t) ==
    /\ call[t] = "put" /\ Executes(t)
    /\ Returned(t)
    /\ call' = [call EXCEPT ![t] = "none"]
    /\ tx' = [tx EXCEPT ![t] = NoTx]
    /\ UNCHANGED <<rx, async_free, async_sem, asked, swap_data, held, announced>>

\* the dummy has its sender's priority.  A sender that finds no dummy waits
\* for one in k_stack_pop(), with K_FOREVER, before it does anything else: it
\* makes the call when there is one.
k_mbox_async_put(t, target, size, sem) ==
    LET m == [source |-> t, target |-> target, size |-> size, sem |-> sem, stage |-> "sent"]
        d == Head(async_free)
        q == z_set_prio(p, d, p.prio[t])
    IN  /\ MayCall(t) /\ async_free # <<>>
        /\ sem => asked < MaxAsked
        /\ async_free' = Tail(async_free)
        /\ asked' = IF sem THEN asked + 1 ELSE asked
        /\ IF ReceiverOf(m) # 0 THEN PutMatched(m, d, q)
           ELSE /\ p' = z_pend_curr(q, d, tx_msg_queue, "FOREVER")
                /\ tx' = [tx EXCEPT ![d] = m]
                /\ UNCHANGED rx
        /\ UNCHANGED <<async_sem, call, swap_data, held, announced>>

\* k_sem_take() of a count that is there, by a sender that asked for it
AsyncAcknowledged(t) ==
    /\ MayCall(t) /\ async_sem > 0
    /\ async_sem' = async_sem - 1
    /\ asked' = asked - 1
    /\ UNCHANGED <<tx, rx, async_free, waiting>>

-----------------------------------------------------------------------------
\* the message that t has received, of whose data it has taken size.  A dummy is
\* free before its sender's semaphore is given.
mbox_message_dispose(t, size) ==
    LET s == rx[t].syncing
    IN  /\ rx' = [rx EXCEPT ![t] = NoRx]
        /\ IF s \in Dummies
           THEN /\ async_free' = <<s>> \o async_free
                /\ tx' = [tx EXCEPT ![s] = NoTx]
                /\ call' = [call EXCEPT ![t] = IF tx[s].sem THEN "disposed" ELSE "none"]
                /\ UNCHANGED p
           ELSE /\ tx' = [tx EXCEPT ![s].size = size, ![s].stage = "disposed"]
                /\ p' = ready_thread([p EXCEPT !.swap_retval[s] = "OK"], s)
                /\ call' = [call EXCEPT ![t] = "none"]
                /\ UNCHANGED async_free
        /\ UNCHANGED <<async_sem, asked>>

\* the rest of mbox_message_dispose(), and with it of t's call
AsyncSemGive(t) ==
    /\ call[t] = "disposed" /\ Executes(t)
    /\ async_sem' = async_sem + 1
    /\ call' = [call EXCEPT ![t] = "none"]
    /\ UNCHANGED <<tx, rx, async_free, asked, p, swap_data, held, announced>>

\* without a buffer the data is discarded; nothing happens to a message that
\* has been disposed of
k_mbox_data_get(t, buffer) ==
    /\ MayCall(t) /\ rx[t].syncing # NULL
    /\ mbox_message_dispose(t, IF buffer THEN rx[t].size ELSE 0)
    /\ UNCHANGED <<swap_data, held, announced>>

\* the message is kept for k_mbox_data_get() if there is data and no buffer
mbox_message_data_check(t) ==
    /\ call[t] = "received" /\ Executes(t)
    /\ IF rx[t].buffer \/ rx[t].size = 0
       THEN mbox_message_dispose(t, rx[t].size)
       ELSE call' = [call EXCEPT ![t] = "none"] /\ UNCHANGED <<mboxVars, p>>
    /\ UNCHANGED <<swap_data, held, announced>>

\* the lock is released before the data is looked at; meanwhile the sender is
\* on no queue
k_mbox_get(t, source, size, buffer, wait) ==
    LET x == [source |-> source, size |-> size, buffer |-> buffer, syncing |-> NULL]
        i == SenderFor(t, x)
        s == p.waitq[tx_msg_queue][i]
    IN  /\ MayCall(t) /\ rx[t].syncing = NULL
        /\ i = 0 => wait # "NO_WAIT"
        /\ IF i # 0
           THEN /\ p' = [z_unpend_thread(p, s) EXCEPT !.waking = NULL]
                /\ tx' = [tx EXCEPT ![s].target = t, ![s].stage = "received"]
                /\ rx' = [rx EXCEPT ![t] = mbox_message_match(tx[s], s, x)]
           ELSE /\ p' = z_pend_curr(p, t, rx_msg_queue, wait)
                /\ rx' = [rx EXCEPT ![t] = x]
                /\ UNCHANGED tx
        /\ call' = [call EXCEPT ![t] = IF i # 0 THEN "received" ELSE "receive"]
        /\ UNCHANGED <<async_free, async_sem, asked, swap_data, held, announced>>

\* k_mbox_get() goes on after its wait
GetWoken(t) ==
    /\ call[t] = "receive" /\ Executes(t)
    /\ Returned(t)
    /\ call' = [call EXCEPT ![t] = IF p.swap_retval[t] = "OK" THEN "received" ELSE "none"]
    /\ rx' = IF p.swap_retval[t] = "OK" THEN rx ELSE [rx EXCEPT ![t] = NoRx]
    /\ UNCHANGED <<tx, async_free, async_sem, asked, swap_data, held, announced>>

MailboxNext ==
    \E t \in Senders :
        \/ \E target \in Senders \cup {K_ANY}, size \in 0 .. MaxSize :
              \/ \E wait \in Waits : target # t /\ k_mbox_put(t, target, size, wait)
              \/ \E sem \in BOOLEAN : k_mbox_async_put(t, target, size, sem)
        \/ \E source \in Senders \cup {K_ANY}, size \in 0 .. MaxSize, buffer \in BOOLEAN,
              wait \in Waits :
              (buffer => size > 0) /\ k_mbox_get(t, source, size, buffer, wait)
        \/ \E buffer \in BOOLEAN : k_mbox_data_get(t, buffer)
        \/ PutReturn(t) \/ AsyncSemGive(t) \/ AsyncAcknowledged(t)
        \/ mbox_message_data_check(t) \/ GetWoken(t)
=============================================================================
