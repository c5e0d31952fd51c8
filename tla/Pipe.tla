-------------------------------- MODULE Pipe --------------------------------
(***************************************************************************)
(* The pipe of kernel/pipes.c: a stream of bytes through a ring buffer, or *)
(* with a size of zero from writer to reader only.                         *)
(*                                                                         *)
(* Bytes are numbered, modulo Tags, in the order in which they leave their *)
(* writers; readers shall get them in that order.  Poll events on a pipe   *)
(* are left out.                                                           *)
(***************************************************************************)
EXTENDS Waiting

CONSTANTS
    readers, writers,   \* the two wait queues
    PipeSizes,          \* sizes of the ring buffer
    MaxBytes            \* of a request

ASSUME PipeAssumption == PipeSizes \subseteq Nat /\ MaxBytes \in Nat

VARIABLES
    pipe,               \* struct k_pipe
    desc                \* pipe_desc.bytes_to_xfer of a thread that waits, and
                        \* whether it waits with K_FOREVER

pipeVars == <<pipe, desc>>

Tags == Max(PipeSizes) + 1

PipeTypeOK ==
    /\ pipe.size \in PipeSizes \cup {0}
    /\ pipe \in [size : {pipe.size}, bytes_used : 0 .. pipe.size,
                 read_index : 0 .. Max({pipe.size - 1, 0}),
                 write_index : 0 .. Max({pipe.size - 1, 0}),
                 buffer : [0 .. pipe.size - 1 -> 0 .. Tags - 1],
                 written : 0 .. Tags - 1, read : 0 .. Tags - 1, in_order : BOOLEAN]
    /\ desc \in [Threads -> [bytes_to_xfer : 0 .. MaxBytes, forever : BOOLEAN]]

\* k_pipe_init(); written and read number the next bytes, and in_order tells
\* whether every byte read was the next one
EmptyPipe(size) ==
    [size |-> size, bytes_used |-> 0, read_index |-> 0, write_index |-> 0,
     buffer |-> [i \in 0 .. size - 1 |-> 0],
     written |-> 0, read |-> 0, in_order |-> TRUE]

PipeInit ==
    /\ pipe \in {EmptyPipe(size) : size \in PipeSizes}
    /\ desc = [t \in Threads |-> [bytes_to_xfer |-> 0, forever |-> FALSE]]

-----------------------------------------------------------------------------
(* Lists of descriptors: of a waiting thread, of a part of the ring buffer *)
(* that begins at an index, or of the caller.                              *)

Desc(thread, at, n) == [thread |-> thread, at |-> at, n |-> n]

Bytes(list) == FoldLeft(LAMBDA sum, d : sum + d.n, 0, list)

\* waiters from the front of the queue, up to the one with which there are
\* enough bytes
pipe_waiter_list_populate(s, wait_q, bytes) ==
    FoldLeft(LAMBDA list, t : IF list # <<>> /\ Bytes(list) >= bytes THEN list
                              ELSE Append(list, Desc(t, 0, s.left[t])),
             <<>>, s.p.waitq[wait_q])

\* the ring buffer from start to end, in two parts when it wraps
pipe_buffer_list_populate(size, start, end) ==
    IF start < end THEN <<Desc(NULL, start, end - start)>>
    ELSE <<Desc(NULL, start, size - start), Desc(NULL, 0, end)>>

Advance(size, index, n) == IF index + n >= size THEN index + n - size ELSE index + n

\* pipe_xfer() of n bytes, and the update of pipe and descriptors after it.
\* s holds the threads' state p, the pipe, and the bytes left of each thread.
Copy(s, src, dest, n) ==
    LET byte == [i \in 0 .. n - 1 |-> IF src.thread = NULL THEN s.pipe.buffer[src.at + i]
                                      ELSE (s.pipe.written + i) % Tags]
        from == IF src.thread = NULL
                THEN [s.pipe EXCEPT !.bytes_used = @ - n,
                                    !.read_index = Advance(s.pipe.size, @, n)]
                ELSE [s.pipe EXCEPT !.written = (@ + n) % Tags]
        to == IF dest.thread = NULL
              THEN [from EXCEPT !.bytes_used = @ + n,
                                !.write_index = Advance(s.pipe.size, @, n),
                                !.buffer = [i \in DOMAIN @ |->
                                               IF i - dest.at \in 0 .. n - 1
                                               THEN byte[i - dest.at] ELSE @[i]]]
              ELSE [from EXCEPT !.read = (@ + n) % Tags,
                                !.in_order = @ /\ \A i \in 0 .. n - 1 :
                                                     byte[i] = (from.read + i) % Tags]
    IN  [s EXCEPT !.pipe = to,
                  !.left = [t \in DOMAIN @ |-> IF t \in {src.thread, dest.thread}
                                               THEN @[t] - n ELSE @[t]]]

\* z_unpend_thread() and z_ready_thread() of a waiter whose request is satisfied
Satisfied(s, t) ==
    IF t # NULL /\ s.left[t] = 0
    THEN [s EXCEPT !.p = ready_thread([z_unpend_thread(s.p, t) EXCEPT !.waking = NULL], t)]
    ELSE s

\* what remains of a list when n bytes of its head have been copied
Rest(list, n) ==
    IF Head(list).n = n THEN Tail(list)
    ELSE <<[Head(list) EXCEPT !.at = @ + n, !.n = @ - n]>> \o Tail(list)

\* only a thread of the destinations is woken
RECURSIVE pipe_write(_, _, _)
pipe_write(s, srcs, dests) ==
    IF srcs = <<>> \/ dests = <<>> THEN s
    ELSE LET n == Min({Head(srcs).n, Head(dests).n})
         IN  pipe_write(Satisfied(Copy(s, Head(srcs), Head(dests), n), Head(dests).thread),
                        Rest(srcs, n), Rest(dests, n))

-----------------------------------------------------------------------------
(* Operations                                                              *)

\* the state in which a caller with n bytes to transfer begins
Start(c, n) ==
    [p |-> p, pipe |-> pipe,
     left |-> [x \in Callers |-> IF x = c THEN n
                                 ELSE IF x \in Threads THEN desc[x].bytes_to_xfer ELSE 0]]

\* the end of an operation of c in the state s: success, or wait on w
Finish(s, c, n, min_xfer, wait, w, name) ==
    LET waits == s.left[c] # 0 /\ wait # "NO_WAIT" /\ ~(n - s.left[c] >= min_xfer /\ min_xfer > 0)
    IN  /\ p' = IF waits THEN z_pend_curr(s.p, c, w, wait) ELSE s.p
        /\ pipe' = s.pipe
        /\ desc' = [t \in Threads |->
                       IF t # c THEN [desc[t] EXCEPT !.bytes_to_xfer = s.left[t]]
                       ELSE IF waits
                       THEN [bytes_to_xfer |-> s.left[t], forever |-> wait = "FOREVER"]
                       ELSE desc[t]]
        /\ call' = IF waits THEN [call EXCEPT ![c] = name] ELSE call
        /\ UNCHANGED <<swap_data, held, announced>>

\* to waiting readers, then to the ring buffer; -EIO changes nothing
k_pipe_put(c, n, min_xfer, wait) ==
    LET s == Start(c, n)
        dests == pipe_waiter_list_populate(s, readers, n)
                     \o IF pipe.bytes_used = pipe.size THEN <<>>
                        ELSE pipe_buffer_list_populate(pipe.size, pipe.write_index,
                                                       pipe.read_index)
    IN  /\ MayCall(c) /\ min_xfer <= n
        /\ c = ISR => wait = "NO_WAIT"
        /\ wait = "NO_WAIT" => Bytes(dests) >= min_xfer
        /\ Finish(pipe_write(s, <<Desc(c, 0, n)>>, dests), c, n, min_xfer, wait,
                  writers, "write")

\* waiting writers fill the ring buffer
Refill(s) ==
    IF s.pipe.bytes_used = s.pipe.size THEN s
    ELSE pipe_write(s, pipe_waiter_list_populate(s, writers, s.pipe.size - s.pipe.bytes_used),
                    pipe_buffer_list_populate(s.pipe.size, s.pipe.write_index,
                                              s.pipe.read_index))

\* from the ring buffer, then from waiting writers
pipe_get_internal(c, n, min_xfer, wait) ==
    LET s == Start(c, n)
        srcs == (IF pipe.bytes_used = 0 THEN <<>>
                 ELSE pipe_buffer_list_populate(pipe.size, pipe.read_index, pipe.write_index))
                    \o pipe_waiter_list_populate(s, writers, n)
        read == FoldLeft(LAMBDA a, src :
                             Satisfied(Copy(a, src, Desc(c, 0, a.left[c]), Min({src.n, a.left[c]})),
                                       src.thread),
                         s, srcs)
    IN  /\ wait = "NO_WAIT" => Bytes(srcs) >= min_xfer
        /\ Finish(Refill(read), c, n, min_xfer, wait, readers, "read")

k_pipe_get(c, n, min_xfer, wait) ==
    /\ MayCall(c) /\ min_xfer <= n
    /\ c = ISR => wait = "NO_WAIT"
    /\ pipe_get_internal(c, n, min_xfer, wait)

\* all that there can be, for (size_t)-1
k_pipe_flush(c) ==
    /\ MayCall(c)
    /\ pipe_get_internal(c, pipe.size + MaxBytes * Cardinality(Threads), 0, "NO_WAIT")

k_pipe_buffer_flush(c) ==
    /\ MayCall(c) /\ pipe.size # 0
    /\ pipe_get_internal(c, pipe.size, 0, "NO_WAIT")

\* of an allocated buffer; -EAGAIN when there are waiters
k_pipe_cleanup(c) ==
    /\ MayCall(c) /\ pipe.size # 0
    /\ p.waitq[readers] = <<>> /\ p.waitq[writers] = <<>>
    /\ pipe' = [EmptyPipe(0) EXCEPT !.in_order = pipe.in_order]
    /\ UNCHANGED <<desc, waiting>>

\* k_pipe_put() and k_pipe_get() return after a wait, with the bytes copied
PipeReturn(t) ==
    /\ call[t] \in {"write", "read"} /\ Executes(t)
    /\ Returned(t)
    /\ call' = [call EXCEPT ![t] = "none"]
    /\ desc' = [desc EXCEPT ![t] = [bytes_to_xfer |-> 0, forever |-> FALSE]]
    /\ UNCHANGED <<pipe, swap_data, held, announced>>

PipeNext ==
    \/ \E c \in Callers, n \in 1 .. MaxBytes, wait \in Waits : \E min_xfer \in {0, 1, n} :
          k_pipe_put(c, n, min_xfer, wait) \/ k_pipe_get(c, n, min_xfer, wait)
    \/ \E c \in Callers : k_pipe_flush(c) \/ k_pipe_buffer_flush(c) \/ k_pipe_cleanup(c)
    \/ \E t \in Threads : PipeReturn(t)
=============================================================================
