------------------------------ MODULE BusSchedule ------------------------------
(***************************************************************************)
(* Several driver contexts reserving the channels of one bus (ssd_bus.c,  *)
(* ssd_channel.c, and the part of do_request in brd.c that calls them).   *)
(* A context reads the clock once, then takes simlock, then asks for a    *)
(* reservation per flash page with that one start time: between the clock *)
(* and the lock other contexts, with later start times, can go first.     *)
(***************************************************************************)
EXTENDS BusChannel, Sequences

CONSTANTS Contexts,            \* CPUs running do_request
          Channels,            \* channels of the bus
          Durations,           \* how long an operation holds its channel
          FailDelay,           \* timeval of a request one page of which failed
          MaxTime,             \* bound on the clock
          MaxReservations      \* bound on the reservations of a channel

ASSUME DurationsAssumption == Durations \subseteq Nat \ {0}
ASSUME FailDelayAssumption == FailDelay \in Nat
ASSUME MaxTimeAssumption   == MaxTime \in Nat

VARIABLES now,      \* the clock
          simlock,  \* the set holding the context inside simlock, if any
          request,  \* per context: the locals of its do_request
          channels, \* per channel: its slot 0
          log       \* history, per channel: the reservations it granted

vars == <<now, simlock, request, channels, log>>

Reservation == [start : Nat, lock : Nat, unlock : Nat]

\* released is a history field: when the channels of the pages simulated so far
\* are released.
Request == [pc       : {"idle", "timed", "simulating"},
            start    : Nat,
            timeval  : Nat \cup {-1},
            released : SUBSET Nat]

no_request == [pc |-> "idle", start |-> 0, timeval |-> 0, released |-> {}]

Init ==
  /\ now = 0
  /\ simlock = {}
  /\ request = [x \in Contexts |-> no_request]
  /\ channels = [c \in Channels |-> channel_init]
  /\ log = [c \in Channels |-> <<>>]

Tick ==
  /\ now < MaxTime
  /\ now' = now + 1
  /\ UNCHANGED <<simlock, request, channels, log>>

\* uptime = get_cur_ktime, start_time = its nanoseconds.
ReadClock(x) ==
  /\ request[x].pc = "idle"
  /\ request' = [request EXCEPT ![x] = [no_request EXCEPT !.pc = "timed", !.start = now]]
  /\ UNCHANGED <<now, simlock, channels, log>>

\* (mutant of Lock) simlock does not exclude.
LockAnyway(x) ==
  /\ request[x].pc = "timed"
  /\ simlock' = {x}
  /\ request' = [request EXCEPT ![x].pc = "simulating"]
  /\ UNCHANGED <<now, channels, log>>

\* spin_lock(&brd->simlock), around all the pages of the request.
Lock(x) ==
  /\ request[x].pc = "timed"
  /\ simlock = {}
  /\ simlock' = {x}
  /\ request' = [request EXCEPT ![x].pc = "simulating"]
  /\ UNCHANGED <<now, channels, log>>

\* (mutant of longest) the last page decides.
latest(a, b) == a

\* timeval keeps the longest page.
longest(a, b) == IF a > b THEN a ELSE b

\* ssd_event_arrive succeeds for one page: the channel is reserved from the
\* request's start time, and the page takes its wait and its duration.
SimulatePage(x, c, d) ==
  /\ request[x].pc = "simulating" /\ request[x].timeval # -1
  /\ Len(log[c]) < MaxReservations
  /\ LET start  == request[x].start
         chan   == channel_lock(channels[c], start, d)
         taken  == channel_wait(channels[c], start) + d
     IN  /\ channels' = [channels EXCEPT ![c] = chan]
         /\ log' = [log EXCEPT ![c] = Append(@, [start  |-> start,
                                                 lock   |-> chan.lock_time,
                                                 unlock |-> chan.unlock_time])]
         /\ request' = [request EXCEPT ![x].timeval  = longest(taken, @),
                                       ![x].released = @ \cup {chan.unlock_time}]
  /\ UNCHANGED <<now, simlock>>

\* ssd_event_arrive fails for one page: no reservation, and the loop is left.
FailPage(x) ==
  /\ request[x].pc = "simulating" /\ request[x].timeval # -1
  /\ request' = [request EXCEPT ![x].timeval = -1]
  /\ UNCHANGED <<now, simlock, channels, log>>

\* The lock is released and the request queued for start + timeval.
Unlock(x) ==
  /\ request[x].pc = "simulating"
  /\ simlock' = {}
  /\ request' = [request EXCEPT ![x] = no_request]
  /\ UNCHANGED <<now, channels, log>>

Next ==
  \/ Tick
  \/ \E x \in Contexts : ReadClock(x) \/ Lock(x) \/ FailPage(x) \/ Unlock(x)
  \/ \E x \in Contexts, c \in Channels, d \in Durations : SimulatePage(x, c, d)

Spec == Init /\ [][Next]_vars
-------------------------------------------------------------------------------
\* The time at which add_io_timer will queue the request of context x.
deadline(x) ==
  request[x].start + (IF request[x].timeval = -1 THEN FailDelay ELSE request[x].timeval)

\* The clock, the contexts' locals, the slots and the histories are well formed,
\* and simlock holds exactly the contexts between its lock and its unlock.
TypeOK ==
  /\ now \in 0 .. MaxTime
  /\ request \in [Contexts -> Request]
  /\ simlock = {x \in Contexts : request[x].pc = "simulating"}
  /\ channels \in [Channels -> Channel]
  /\ log \in [Channels -> Seq(Reservation)]

\* A channel carries one event at a time: whatever the order in which contexts
\* with older and newer start times arrive, the reservations ssd_channel_lock
\* grants never overlap.
NoOverlap ==
  \A c \in Channels : \A i, j \in 1 .. Len(log[c]) :
    i < j => log[c][i].unlock <= log[c][j].lock

\* No wait without a cause: an event has the channel from its own start time, or,
\* when it had to wait, from the very instant at which the reservation granted
\* before it on that channel ends.
BackToBack ==
  \A c \in Channels : \A j \in 1 .. Len(log[c]) :
    log[c][j].lock = log[c][j].start \/
      (j > 1 /\ log[c][j].lock = log[c][j - 1].unlock
             /\ log[c][j].lock > log[c][j].start)

\* do_request answers a request when the last of its pages leaves its channel,
\* neither before nor after: its deadline is the latest release among them.
DeadlineIsLastRelease ==
  \A x \in Contexts :
    (request[x].timeval # -1 /\ request[x].released # {}) =>
      /\ \A u \in request[x].released : u <= deadline(x)
      /\ deadline(x) \in request[x].released
===============================================================================
