------------------------------- MODULE Timeout -------------------------------
(***************************************************************************)
(* The timeout list of kernel/timeout.c: one list in order of expiry, each *)
(* node holding the ticks that separate it from the node before it.  The   *)
(* clock driver counts ticks and announces them; sys_clock_announce() runs *)
(* the handlers of the expired timeouts with the lock released, and during *)
(* a handler anybody may add and abort timeouts.                           *)
(*                                                                         *)
(* The clock driver is external: it is modelled by how timeout.c uses it.  *)
(* Every call arrives with the list unlocked, so one action is one locked  *)
(* section.                                                                *)
(***************************************************************************)
EXTENDS Integers, Sequences, Priq

CONSTANTS
    Timeouts,       \* struct _timeout objects
    Cpus,           \* CPUs that take the timer interrupt
    Delays,         \* relative timeouts, in ticks
    Deadlines,      \* absolute timeouts, in ticks
    NULL,
    MaxNow,         \* bound on the time modelled
    MAX_WAIT        \* what next_timeout() returns for an empty list

ASSUME TimeoutAssumption ==
    /\ Delays \subseteq Nat /\ Deadlines \subseteq Nat
    /\ MaxNow \in Nat /\ MAX_WAIT \in Nat /\ MAX_WAIT > MaxNow
    /\ NULL \notin Timeouts /\ Cpus # {}

VARIABLES
    timeout_list,
    dticks,
    curr_tick,
    announce_remaining,
    handling,       \* per CPU, the timeout whose handler it runs, and dt
    now,            \* ticks the hardware has counted since boot
    announced,      \* ticks the driver has announced
    alarm,          \* when the driver will next announce, at the latest
    due             \* the tick a linked timeout was set for: a history variable

clock == <<now, announced>>
vars == <<timeout_list, dticks, curr_tick, announce_remaining, handling, clock,
          alarm, due>>

Idle == [timeout |-> NULL, dt |-> 0]

TypeOK ==
    /\ timeout_list \in Seq(Timeouts)
    /\ dticks \in [Timeouts -> Nat]
    /\ curr_tick \in Nat /\ announce_remaining \in Nat
    /\ handling \in [Cpus -> [timeout : Timeouts \cup {NULL}, dt : Nat]]
    /\ now \in 0 .. MaxNow /\ announced \in 0 .. now
    /\ alarm \in Nat
    /\ due \in [Timeouts -> Nat]

Init ==
    /\ timeout_list = <<>>
    /\ dticks = [t \in Timeouts |-> 0]
    /\ curr_tick = 0 /\ announce_remaining = 0
    /\ handling = [c \in Cpus |-> Idle]
    /\ now = 0 /\ announced = 0
    /\ alarm = MAX_WAIT
    /\ due = [t \in Timeouts |-> 0]

-----------------------------------------------------------------------------
Linked(t) == OnQueue(timeout_list, t)

\* external: the ticks counted since the last announcement
sys_clock_elapsed == now - announced

elapsed == IF announce_remaining = 0 THEN sys_clock_elapsed ELSE 0

MAX(x, y) == IF x > y THEN x ELSE y

next_timeout(list, dt, ticks_elapsed) ==
    IF list = <<>> THEN MAX_WAIT ELSE MAX(0, dt[Head(list)] - ticks_elapsed)

\* the ticks from curr_tick to the expiry of the i-th node
TicksBefore ==
    LET sum[i \in 0 .. Len(timeout_list)] ==
            IF i = 0 THEN 0 ELSE sum[i - 1] + dticks[timeout_list[i]]
    IN  sum

\* mutant: a timeout goes in front of those of the same tick
AddPosition_BeforeEqual(d) ==
    CHOOSE i \in 1 .. Len(timeout_list) + 1 :
        /\ i <= Len(timeout_list) => TicksBefore[i] >= d
        /\ \A j \in 1 .. i - 1 : TicksBefore[j] < d

\* where z_add_timeout() links a timeout of d ticks: before the first node
\* that is later than it, the ticks of the nodes it passes taken from d
AddPosition(d) ==
    CHOOSE i \in 1 .. Len(timeout_list) + 1 :
        /\ i <= Len(timeout_list) => TicksBefore[i] > d
        /\ \A j \in 1 .. i - 1 : TicksBefore[j] <= d

\* mutant: the node behind loses the whole delay
TicksOfNext_Whole(u, d, own) == dticks[u] - d

TicksOfNext(u, d, own) == dticks[u] - own

\* link t to expire d ticks after curr_tick
AddTicks(t, d) ==
    LET i == AddPosition(d)
        own == d - TicksBefore[i - 1]
        list == sys_dlist_insert(timeout_list, i, t)
        dt == [u \in Timeouts |->
                  IF u = t THEN own
                  ELSE IF i <= Len(timeout_list) /\ u = timeout_list[i]
                  THEN TicksOfNext(u, d, own) ELSE dticks[u]]
    IN  /\ timeout_list' = list
        /\ dticks' = dt
        /\ due' = [due EXCEPT ![t] = curr_tick + d]
        /\ alarm' = IF Head(list) = t
                    THEN now + next_timeout(list, dt, elapsed)
                    ELSE alarm
        /\ UNCHANGED <<curr_tick, announce_remaining, handling, clock>>

\* z_add_timeout() of a relative timeout ...
z_add_timeout(t, ticks) ==
    /\ ~Linked(t)
    /\ AddTicks(t, ticks + 1 + elapsed)

\* ... and of an absolute one
AddAbsolute(t, tick) ==
    /\ ~Linked(t)
    /\ AddTicks(t, MAX(1, tick - curr_tick))

\* the ticks of a removed node go to the node after it
remove_timeout(list, dt, t) ==
    LET i == IndexOf(list, t)
    IN  [u \in Timeouts |-> IF i < Len(list) /\ u = list[i + 1]
                            THEN dt[u] + dt[t] ELSE dt[u]]

\* mutant: the node is unlinked, its ticks are dropped
z_abort_timeout_DropsTicks(t) ==
    /\ Linked(t)
    /\ timeout_list' = z_priq_dumb_remove(timeout_list, t)
    /\ due' = [due EXCEPT ![t] = 0]
    /\ UNCHANGED <<dticks, curr_tick, announce_remaining, handling, clock, alarm>>

z_abort_timeout(t) ==
    /\ Linked(t)
    /\ dticks' = remove_timeout(timeout_list, dticks, t)
    /\ timeout_list' = z_priq_dumb_remove(timeout_list, t)
    /\ due' = [due EXCEPT ![t] = 0]
    /\ UNCHANGED <<curr_tick, announce_remaining, handling, clock, alarm>>

-----------------------------------------------------------------------------
\* mutant: a timeout expires a tick early
Expired_Early(remaining) ==
    timeout_list # <<>> /\ dticks[Head(timeout_list)] <= remaining + 1

Expired(remaining) ==
    timeout_list # <<>> /\ dticks[Head(timeout_list)] <= remaining

\* the first timeout is unlinked and the lock released for its handler
AnnounceOne(c, remaining) ==
    LET t == Head(timeout_list)
    IN  /\ curr_tick' = curr_tick + dticks[t]
        /\ dticks' = remove_timeout(timeout_list, [dticks EXCEPT ![t] = 0], t)
        /\ timeout_list' = Tail(timeout_list)
        /\ handling' = [handling EXCEPT ![c] = [timeout |-> t, dt |-> dticks[t]]]
        /\ announce_remaining' = remaining
        /\ due' = [due EXCEPT ![t] = 0]
        /\ UNCHANGED alarm

\* mutant: the driver is not told the next expiry
AnnounceEnd_NoAlarm(c, remaining) ==
    /\ dticks' = IF timeout_list = <<>> THEN dticks
                 ELSE [dticks EXCEPT ![Head(timeout_list)] = @ - remaining]
    /\ curr_tick' = curr_tick + remaining
    /\ announce_remaining' = 0
    /\ handling' = [handling EXCEPT ![c] = Idle]
    /\ UNCHANGED <<timeout_list, alarm, due>>

AnnounceEnd(c, remaining) ==
    /\ dticks' = IF timeout_list = <<>> THEN dticks
                 ELSE [dticks EXCEPT ![Head(timeout_list)] = @ - remaining]
    /\ curr_tick' = curr_tick + remaining
    /\ announce_remaining' = 0
    /\ handling' = [handling EXCEPT ![c] = Idle]
    /\ alarm' = now + next_timeout(timeout_list, dticks', elapsed')
    /\ UNCHANGED <<timeout_list, due>>

\* the loop of sys_clock_announce()
AnnounceLoop(c, remaining) ==
    IF Expired(remaining) THEN AnnounceOne(c, remaining) ELSE AnnounceEnd(c, remaining)

SMP == \E c, d \in Cpus : c # d

\* the driver announces the ticks it has counted; with SMP a CPU that finds
\* another one in the loop leaves its ticks to it
sys_clock_announce(c) ==
    /\ handling[c] = Idle /\ sys_clock_elapsed > 0
    /\ announced' = now /\ UNCHANGED now
    /\ IF SMP /\ announce_remaining # 0
       THEN /\ announce_remaining' = announce_remaining + sys_clock_elapsed
            /\ UNCHANGED <<timeout_list, dticks, curr_tick, handling, alarm, due>>
       ELSE AnnounceLoop(c, sys_clock_elapsed)

\* mutant: the ticks of the handled timeout are announced twice
HandlerReturns_KeepsRemaining(c) ==
    /\ handling[c] # Idle /\ UNCHANGED clock
    /\ AnnounceLoop(c, announce_remaining)

\* the handler returns and the loop goes on
HandlerReturns(c) ==
    /\ handling[c] # Idle /\ UNCHANGED clock
    /\ AnnounceLoop(c, announce_remaining - handling[c].dt)

\* external: the hardware counts a tick
Tick ==
    /\ now < MaxNow
    /\ now' = now + 1
    /\ UNCHANGED <<timeout_list, dticks, curr_tick, announce_remaining, handling,
                   announced, alarm, due>>

Next ==
    \/ \E t \in Timeouts :
          \/ \E d \in Delays : z_add_timeout(t, d)
          \/ \E d \in Deadlines : AddAbsolute(t, d)
          \/ z_abort_timeout(t)
    \/ \E c \in Cpus : sys_clock_announce(c) \/ HandlerReturns(c)
    \/ Tick

Spec == Init /\ [][Next]_vars

-----------------------------------------------------------------------------
Announcing == \E c \in Cpus : handling[c] # Idle

\* The deltas tell each timeout's own expiry: whatever is added, aborted or
\* announced around it, and from inside handlers too, the ticks up to a node
\* and curr_tick add up to the tick it was set for, and the list is in order.
DeltasExact ==
    \A i \in DOMAIN timeout_list :
        curr_tick + TicksBefore[i] = due[timeout_list[i]]

\* No tick is lost or counted twice: with one CPU curr_tick is what the driver
\* announced, less what the loop of sys_clock_announce() has still to process.
ClockExact ==
    \A c \in Cpus : curr_tick + announce_remaining - handling[c].dt = announced

\* A handler runs at the tick its timeout was set for, not before the hardware
\* has counted it, and timeouts of the same tick run in the order they were
\* added.
ExpiresWhenDue ==
    [][ \A c \in Cpus : handling'[c] # handling[c] /\ handling'[c] # Idle =>
            LET t == handling'[c].timeout
            IN  /\ curr_tick' = due[t] /\ due[t] <= now
                /\ \A u \in Timeouts : Linked(u) => due[t] <= due[u] ]_vars

\* A timeout added goes behind every timeout due no later and in front of the
\* others, so timeouts of one tick expire in the order they were set.
AddedInOrder ==
    [][ \A t, u \in Timeouts : ~Linked(t) /\ Linked(t)' /\ Linked(u) =>
            (IndexOf(timeout_list', t) < IndexOf(timeout_list', u)
                <=> due'[t] < due[u]) ]_vars

\* The driver is never left to sleep past the first timeout: once an
\* announcement is over its alarm is set no later than that.
AlarmInTime ==
    ~Announcing /\ timeout_list # <<>> =>
        alarm <= MAX(now, due[Head(timeout_list)])

\* "Don't race (which will cause paralllel execution of "sequential" timeouts
\* and confuse apps), just increment the tick count and return": one handler
\* runs at a time.
OneHandlerAtATime ==
    \A c, d \in Cpus : handling[c] # Idle /\ handling[d] # Idle => c = d
=============================================================================
