---------------------------- MODULE BoundedFifo -----------------------------
(***************************************************************************)
(* What a message queue promises: a FIFO of at most MaxMsgs messages.  A   *)
(* message is handed to a waiting reader directly only when nothing is     *)
(* queued, so it overtakes no other.                                       *)
(***************************************************************************)
EXTENDS Naturals, Sequences

CONSTANTS Readers, Msgs, MaxMsgs

VARIABLES
    q,              \* the queued messages, oldest first
    out             \* the last message delivered, and to whom

Init == q = <<>> /\ out = <<>>

Put(m) == Len(q) < MaxMsgs /\ q' = Append(q, m) /\ UNCHANGED out

Get(r) == q # <<>> /\ q' = Tail(q) /\ out' = <<r, Head(q)>>

Pass(r, m) == q = <<>> /\ out' = <<r, m>> /\ UNCHANGED q

Purge == q' = <<>> /\ UNCHANGED out

Next ==
    \/ \E m \in Msgs : Put(m)
    \/ \E r \in Readers : Get(r)
    \/ \E r \in Readers, m \in Msgs : Pass(r, m)
    \/ Purge

Spec == Init /\ [][Next]_<<q, out>>
=============================================================================
