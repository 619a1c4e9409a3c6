------------------------------ MODULE BusChannel ------------------------------
(***************************************************************************)
(* One channel of the bus (ssd_channel.c): the reservation that           *)
(* ssd_channel_lock keeps in slot 0 of its scheduling table.  The other    *)
(* slots belong to ssd_channel_lock2, which nothing calls.                *)
(***************************************************************************)
EXTENDS Integers

BUS_CHANNEL_FREE_FLAG == -1

Channel == [lock_time   : Nat \cup {BUS_CHANNEL_FREE_FLAG},
            unlock_time : Nat \cup {BUS_CHANNEL_FREE_FLAG}]

channel_init == [lock_time   |-> BUS_CHANNEL_FREE_FLAG,
                 unlock_time |-> BUS_CHANNEL_FREE_FLAG]

\* (mutant of sched_time) an event that starts in the past of the channel's last
\* lock is not made to wait.
sched_time_past(c, start) ==
  IF c.lock_time = BUS_CHANNEL_FREE_FLAG \/ start < c.lock_time THEN start
  ELSE IF c.unlock_time < start THEN start ELSE c.unlock_time

\* (mutant of sched_time) every event queues behind the channel's last one,
\* with an idle cycle in between.
sched_time_gap(c, start) ==
  IF c.lock_time = BUS_CHANNEL_FREE_FLAG THEN start
  ELSE IF c.unlock_time < start THEN start ELSE c.unlock_time + 1

\* When ssd_channel_lock lets an event have the channel: at once if the channel
\* was never used or is free by then, else when the last reservation ends.
sched_time(c, start) ==
  IF c.lock_time = BUS_CHANNEL_FREE_FLAG \/ c.unlock_time < start
  THEN start ELSE c.unlock_time

channel_lock(c, start, duration) ==
  [c EXCEPT !.lock_time   = sched_time(c, start),
            !.unlock_time = sched_time(c, start) + duration]

\* What the call adds to the event's bus_wait_time and time_taken.
channel_wait(c, start) == sched_time(c, start) - start
===============================================================================
