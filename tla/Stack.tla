-------------------------------- MODULE Stack -------------------------------
(***************************************************************************)
(* The stack of kernel/stack.c: next - base is the length of entries.  Its *)
(* data is here the address of a memory block.                             *)
(***************************************************************************)
EXTENDS Waiting

CONSTANTS
    stack,          \* the stack's wait_q
    NumEntries      \* top - base

ASSUME StackAssumption == NumEntries \in Nat \ {0}

VARIABLE entries

StackTypeOK == entries \in Seq(Blocks) /\ Len(entries) <= NumEntries

StackInit == entries = <<>>

-----------------------------------------------------------------------------
\* mutant: an off-by-one in the test for a full stack
StackFull_Late == Len(entries) > NumEntries

StackFull == Len(entries) = NumEntries

\* -ENOMEM on a full stack; to the first waiter, or on top
k_stack_push(c, b) ==
    /\ MayCall(c) /\ b \in held[c] /\ ~StackFull
    /\ Disowns(c, b)
    /\ IF p.waitq[stack] # <<>>
       THEN GiveFirst(stack, b) /\ UNCHANGED entries
       ELSE entries' = Append(entries, b) /\ UNCHANGED <<p, swap_data>>
    /\ UNCHANGED <<call, announced>>

k_stack_pop(c) ==
    /\ MayCall(c) /\ entries # <<>>
    /\ Owns(c, Last(entries))
    /\ entries' = Front(entries)
    /\ UNCHANGED <<p, call, swap_data, announced>>

\* -EBUSY to a caller that does not wait
PopPend(t, wait) ==
    /\ entries = <<>>
    /\ Pends(t, stack, wait, "pop")
    /\ UNCHANGED <<entries, swap_data, held, announced>>

StackNext ==
    \/ \E c \in Callers : k_stack_pop(c) \/ \E b \in Blocks : k_stack_push(c, b)
    \/ \E t \in Threads, wait \in Waits : PopPend(t, wait)
=============================================================================
