------------------------------- MODULE MemSlab ------------------------------
(***************************************************************************)
(* The fixed-size block allocator of kernel/mem_slab.c.  Block sizes and   *)
(* addresses are left out: a block is its name.                            *)
(***************************************************************************)
EXTENDS Waiting

CONSTANT slab       \* the slab's wait_q

VARIABLES free_list, num_used

slabVars == <<free_list, num_used>>

MemSlabTypeOK == free_list \in Seq(Blocks) /\ num_used \in 0 .. Cardinality(Blocks)

\* create_free_list()
MemSlabInit ==
    /\ free_list = SetToSeq(Blocks)
    /\ num_used = 0

-----------------------------------------------------------------------------
k_mem_slab_alloc(c) ==
    /\ MayCall(c) /\ free_list # <<>>
    /\ Owns(c, Head(free_list))
    /\ free_list' = Tail(free_list)
    /\ num_used' = num_used + 1
    /\ UNCHANGED <<p, call, swap_data, announced>>

\* without a free block: -ENOMEM to a caller that does not wait
AllocPend(t, wait) ==
    /\ free_list = <<>>
    /\ Pends(t, slab, wait, "alloc")
    /\ UNCHANGED <<slabVars, swap_data, held, announced>>

\* mutant: num_used goes down although the block stays in use
k_mem_slab_free_Uncounted(c, b) ==
    /\ MayCall(c) /\ b \in held[c]
    /\ Disowns(c, b)
    /\ num_used' = num_used - 1
    /\ IF free_list = <<>> /\ p.waitq[slab] # <<>>
       THEN GiveFirst(slab, b) /\ UNCHANGED free_list
       ELSE free_list' = <<b>> \o free_list /\ UNCHANGED <<p, swap_data>>
    /\ UNCHANGED <<call, announced>>

\* to the first waiter, for which it stays in use, or onto the free list
k_mem_slab_free(c, b) ==
    /\ MayCall(c) /\ b \in held[c]
    /\ Disowns(c, b)
    /\ IF free_list = <<>> /\ p.waitq[slab] # <<>>
       THEN GiveFirst(slab, b) /\ UNCHANGED slabVars
       ELSE /\ free_list' = <<b>> \o free_list
            /\ num_used' = num_used - 1
            /\ UNCHANGED <<p, swap_data>>
    /\ UNCHANGED <<call, announced>>

MemSlabNext ==
    \/ \E c \in Callers : k_mem_slab_alloc(c) \/ \E b \in Blocks : k_mem_slab_free(c, b)
    \/ \E t \in Threads, wait \in Waits : AllocPend(t, wait)
=============================================================================
