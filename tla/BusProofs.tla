------------------------------- MODULE BusProofs -------------------------------
(***************************************************************************)
(* Proofs about the two ways to reserve a channel of the bus.             *)
(* BusSchedule, for any number of contexts, channels and reservations and *)
(* any durations: ssd_channel_lock remembers one reservation only; the    *)
(* inductive invariant says that it is the latest granted one, and so the *)
(* one that ends last.                                                    *)
(* ChannelTable, for a table of any size: that quicksort sorts, and that  *)
(* ssd_channel_lock2 finds a place nothing else overlaps.                 *)
(***************************************************************************)
EXTENDS BusSchedule, ChannelTable, NumberLemmas, FiniteSetTheorems

\* Slot 0 of channel c is free if nothing was granted, else the last grant.
SlotIsLast(c) ==
  LET n == Len(log[c])
  IN  /\ n = 0 => channels[c].lock_time = BUS_CHANNEL_FREE_FLAG
      /\ n > 0 => /\ channels[c].lock_time   = log[c][n].lock
                  /\ channels[c].unlock_time = log[c][n].unlock

\* Each reservation lasts, and starts no sooner than it was asked for.
GrantsWellFormed(c) ==
  \A i \in 1 .. Len(log[c]) :
    log[c][i].start <= log[c][i].lock /\ log[c][i].lock < log[c][i].unlock

\* timeval says how long the pages simulated so far take, and nothing else.
TimevalKnown(x) ==
  request[x].released = {} => request[x].timeval \in {0, -1}

\* At most one context is inside simlock.
OneInside ==
  \A x, y \in Contexts :
    (request[x].pc = "simulating" /\ request[y].pc = "simulating") => x = y

IInv ==
  /\ TypeOK
  /\ OneInside
  /\ \A c \in Channels : SlotIsLast(c) /\ GrantsWellFormed(c)
  /\ NoOverlap
  /\ BackToBack
  /\ \A x \in Contexts : TimevalKnown(x)
  /\ DeadlineIsLastRelease
-------------------------------------------------------------------------------
\* What ssd_channel_lock grants on a channel whose slot is a channel's: a lock
\* at or after the request's start, and after the slot's unlock time if the slot
\* is taken; a later lock than the start is exactly that unlock time.
LEMMA ChannelLock ==
  ASSUME NEW c \in Channel, NEW start \in Nat, NEW d \in Nat \ {0}
  PROVE  LET k == channel_lock(c, start, d)
             free == c.lock_time = BUS_CHANNEL_FREE_FLAG
         IN  /\ k \in Channel
             /\ k.lock_time \in Nat /\ k.unlock_time \in Nat
             /\ start <= k.lock_time /\ k.lock_time < k.unlock_time
             /\ ~free => c.unlock_time <= k.lock_time
             /\ k.lock_time # start => (~free /\ k.lock_time = c.unlock_time)
             /\ k.unlock_time = start + (channel_wait(c, start) + d)
             /\ channel_wait(c, start) \in Nat
<1>1. sched_time(c, start) \in Nat /\ start <= sched_time(c, start)
  BY DEF sched_time, Channel, BUS_CHANNEL_FREE_FLAG
<1>2. /\ channel_lock(c, start, d).lock_time = sched_time(c, start)
      /\ channel_lock(c, start, d).unlock_time = sched_time(c, start) + d
      /\ channel_lock(c, start, d) \in Channel
  <2>1. sched_time(c, start) + d \in Nat
    BY <1>1
  <2>2. DOMAIN c = {"lock_time", "unlock_time"}
    BY DEF Channel
  <2> QED BY <1>1, <2>1, <2>2 DEF channel_lock, Channel
<1>3. c.lock_time # BUS_CHANNEL_FREE_FLAG => c.unlock_time <= sched_time(c, start)
  BY DEF sched_time, Channel, BUS_CHANNEL_FREE_FLAG
<1>4. sched_time(c, start) # start =>
        (c.lock_time # BUS_CHANNEL_FREE_FLAG /\ sched_time(c, start) = c.unlock_time)
  BY DEF sched_time
<1>5. channel_wait(c, start) = sched_time(c, start) - start
  BY DEF channel_wait
<1> QED BY <1>1, <1>2, <1>3, <1>4, <1>5

\* No context holds simlock at first, and every channel is free.
LEMMA InitIInv == Init => IInv
<1> SUFFICES ASSUME Init PROVE IInv
  OBVIOUS
<1>1. TypeOK
  <2>1. no_request \in Request /\ channel_init \in Channel
    BY DEF no_request, Request, channel_init, Channel
  <2>2. \A x \in Contexts : request[x].pc = "idle"
    BY DEF Init, no_request
  <2>3. now \in 0 .. MaxTime
    BY MaxTimeAssumption DEF Init
  <2> QED BY <2>1, <2>2, <2>3 DEF Init, TypeOK
<1>2. \A c \in Channels : log[c] = <<>> /\ Len(log[c]) = 0 /\
        channels[c].lock_time = BUS_CHANNEL_FREE_FLAG
  BY DEF Init, channel_init
<1>3. \A x \in Contexts : request[x].released = {} /\ request[x].timeval = 0
  BY DEF Init, no_request
<1>4. OneInside
  BY DEF Init, no_request, OneInside
<1> QED BY <1>1, <1>2, <1>3, <1>4 DEF IInv, SlotIsLast, GrantsWellFormed, NoOverlap, BackToBack,
           TimevalKnown, DeadlineIsLastRelease

\* A step that leaves the channels alone, and gives each request either what it
\* had, or no released channel and a timeval of 0, or the timeval -1.
LEMMA QuietStep ==
  ASSUME IInv, TypeOK', OneInside', UNCHANGED <<channels, log>>,
         \A x \in Contexts :
           \/ /\ request'[x].start = request[x].start
              /\ request'[x].timeval = request[x].timeval
              /\ request'[x].released = request[x].released
           \/ request'[x].released = {} /\ request'[x].timeval = 0
           \/ request'[x].timeval = -1
  PROVE  IInv'
<1>1. \A c \in Channels : SlotIsLast(c)' /\ GrantsWellFormed(c)'
  BY DEF IInv, SlotIsLast, GrantsWellFormed
<1>2. NoOverlap' /\ BackToBack'
  BY DEF IInv, NoOverlap, BackToBack
<1>3. \A x \in Contexts : TimevalKnown(x)'
  BY DEF IInv, TimevalKnown
<1>4. DeadlineIsLastRelease'
  BY DEF IInv, DeadlineIsLastRelease, deadline
<1> QED BY <1>1, <1>2, <1>3, <1>4 DEF IInv

\* Reserving a channel for one page preserves the invariant.
LEMMA SimulateIInv ==
  ASSUME IInv, NEW x \in Contexts, NEW c \in Channels, NEW d \in Durations,
         SimulatePage(x, c, d)
  PROVE  IInv'
<1> DEFINE start == request[x].start
           chan  == channel_lock(channels[c], start, d)
           wait  == channel_wait(channels[c], start)
           taken == wait + d
           n     == Len(log[c])
           r     == [start |-> start, lock |-> chan.lock_time, unlock |-> chan.unlock_time]
<1>1. /\ request \in [Contexts -> Request] /\ channels \in [Channels -> Channel]
      /\ log \in [Channels -> Seq(Reservation)] /\ now \in 0 .. MaxTime
      /\ simlock = {y \in Contexts : request[y].pc = "simulating"}
  BY DEF IInv, TypeOK
<1>2. /\ start \in Nat /\ d \in Nat \ {0} /\ channels[c] \in Channel
      /\ request[x].pc = "simulating" /\ request[x].timeval \in Nat
      /\ request[x].released \in SUBSET Nat
      /\ log[c] \in Seq(Reservation) /\ n \in Nat
  BY <1>1, DurationsAssumption DEF SimulatePage, Request
<1>0. \A i \in 1 .. n :
        /\ log[c][i].start \in Nat /\ log[c][i].lock \in Nat /\ log[c][i].unlock \in Nat
        /\ log[c][i].start <= log[c][i].lock /\ log[c][i].lock < log[c][i].unlock
  <2>1. \A i \in 1 .. n : log[c][i] \in Reservation
    BY <1>2
  <2> QED BY <2>1 DEF IInv, GrantsWellFormed, Reservation
<1>3. /\ chan \in Channel /\ chan.lock_time \in Nat /\ chan.unlock_time \in Nat
      /\ start <= chan.lock_time /\ chan.lock_time < chan.unlock_time
      /\ channels[c].lock_time # BUS_CHANNEL_FREE_FLAG =>
           channels[c].unlock_time <= chan.lock_time
      /\ chan.lock_time # start =>
           /\ channels[c].lock_time # BUS_CHANNEL_FREE_FLAG
           /\ chan.lock_time = channels[c].unlock_time
      /\ chan.unlock_time = start + taken
      /\ wait \in Nat
  BY <1>2, ChannelLock
<1>4. /\ channels' = [channels EXCEPT ![c] = chan]
      /\ log' = [log EXCEPT ![c] = Append(log[c], r)]
      /\ request' = [request EXCEPT ![x] =
                       [request[x] EXCEPT !.timeval = longest(taken, request[x].timeval),
                                          !.released = request[x].released
                                                       \cup {chan.unlock_time}]]
      /\ UNCHANGED <<now, simlock>>
  BY <1>1, <1>2 DEF SimulatePage, Request
<1> HIDE DEF chan, wait
<1>5. r \in Reservation /\ longest(taken, request[x].timeval) \in Nat
  BY <1>2, <1>3 DEF Reservation, longest
<1>6. /\ log'[c] \in Seq(Reservation) /\ Len(log'[c]) = n + 1 /\ log'[c][n + 1] = r
      /\ \A i \in 1 .. n : log'[c][i] = log[c][i]
  BY <1>1, <1>2, <1>4, <1>5
<1>7. /\ request'[x].pc = "simulating" /\ request'[x].start = start
      /\ request'[x].timeval = longest(taken, request[x].timeval)
      /\ request'[x].released = request[x].released \cup {chan.unlock_time}
      /\ request'[x] \in Request
  BY <1>1, <1>2, <1>3, <1>4, <1>5 DEF Request
<1>8. /\ \A y \in Contexts : y # x => request'[y] = request[y]
      /\ \A e \in Channels : e # c => log'[e] = log[e] /\ channels'[e] = channels[e]
      /\ channels'[c] = chan
  BY <1>1, <1>4
<1>9. TypeOK'
  <2>1. request' \in [Contexts -> Request]
    BY <1>1, <1>4, <1>7
  <2>2. simlock' = {y \in Contexts : request'[y].pc = "simulating"}
    BY <1>1, <1>2, <1>4, <1>7, <1>8
  <2>3. channels' \in [Channels -> Channel] /\ log' \in [Channels -> Seq(Reservation)]
    BY <1>1, <1>3, <1>4, <1>6
  <2> QED BY <1>1, <1>4, <2>1, <2>2, <2>3 DEF TypeOK
<1>10. \A e \in Channels : SlotIsLast(e)' /\ GrantsWellFormed(e)'
  <2>1. SlotIsLast(c)'
    BY <1>2, <1>6, <1>8 DEF SlotIsLast
  <2>2. GrantsWellFormed(c)'
    <3>1. ASSUME NEW i \in 1 .. (n + 1)
          PROVE  log'[c][i].start <= log'[c][i].lock /\ log'[c][i].lock < log'[c][i].unlock
      <4>1. CASE i = n + 1
        BY <1>3, <1>6, <4>1
      <4>2. CASE i # n + 1
        <5>1. i \in 1 .. n
          BY <1>2, <4>2
        <5> QED BY <1>0, <1>6, <5>1
      <4> QED BY <4>1, <4>2
    <3> QED BY <1>6, <3>1 DEF GrantsWellFormed
  <2>3. ASSUME NEW e \in Channels, e # c PROVE SlotIsLast(e)' /\ GrantsWellFormed(e)'
    BY <1>8, <2>3 DEF IInv, SlotIsLast, GrantsWellFormed
  <2> QED BY <2>1, <2>2, <2>3
<1>11. \* The slot, once taken, holds the end of the last grant.
       n > 0 => /\ channels[c].lock_time # BUS_CHANNEL_FREE_FLAG
                /\ channels[c].unlock_time = log[c][n].unlock
  <2>1. ASSUME n > 0
        PROVE  /\ channels[c].lock_time # BUS_CHANNEL_FREE_FLAG
               /\ channels[c].unlock_time = log[c][n].unlock
    <3>1. channels[c].lock_time = log[c][n].lock /\ channels[c].unlock_time = log[c][n].unlock
      BY <2>1 DEF IInv, SlotIsLast
    <3>2. log[c][n].lock \in Nat
      BY <1>0, <1>2, <2>1
    <3> QED BY <3>1, <3>2 DEF BUS_CHANNEL_FREE_FLAG
  <2> QED BY <2>1
<1>12. NoOverlap'
  <2>1. ASSUME NEW i \in 1 .. n PROVE log[c][i].unlock <= chan.lock_time
    <3>1. log[c][n].unlock <= chan.lock_time
      BY <1>2, <1>3, <1>11, <2>1
    <3>2. i < n => log[c][i].unlock <= log[c][n].lock
      BY <1>2, <2>1 DEF IInv, NoOverlap
    <3>3. /\ log[c][i].unlock \in Nat /\ log[c][n].unlock \in Nat
          /\ log[c][n].lock < log[c][n].unlock /\ log[c][n].lock \in Nat
      BY <1>0, <1>2, <2>1
    <3>4. CASE i = n
      BY <3>1, <3>4
    <3>5. CASE i # n
      <4>1. log[c][i].unlock <= log[c][n].lock
        BY <1>2, <2>1, <3>2, <3>5
      <4>2. log[c][i].unlock <= log[c][n].unlock
        BY <3>3, <4>1
      <4>3. chan.lock_time \in Nat
        BY <1>3
      <4> QED BY <3>1, <3>3, <4>2, <4>3
    <3> QED BY <3>4, <3>5
  <2>2. \A i, j \in 1 .. Len(log'[c]) : i < j => log'[c][i].unlock <= log'[c][j].lock
    <3>1. ASSUME NEW i \in 1 .. (n + 1), NEW j \in 1 .. (n + 1), i < j
          PROVE  log'[c][i].unlock <= log'[c][j].lock
      <4>1. i \in 1 .. n /\ log'[c][i] = log[c][i]
        BY <1>2, <1>6, <3>1
      <4>2. CASE j = n + 1
        BY <1>6, <2>1, <4>1, <4>2
      <4>3. CASE j # n + 1
        <5>1. j \in 1 .. n
          BY <1>2, <4>3
        <5>2. log[c][i].unlock <= log[c][j].lock
          BY <3>1, <4>1, <5>1 DEF IInv, NoOverlap
        <5> QED BY <1>6, <4>1, <5>1, <5>2
      <4> QED BY <4>2, <4>3
    <3> QED BY <1>6, <3>1
  <2>3. ASSUME NEW e \in Channels, e # c
        PROVE  \A i, j \in 1 .. Len(log'[e]) : i < j => log'[e][i].unlock <= log'[e][j].lock
    BY <1>8, <2>3 DEF IInv, NoOverlap
  <2> QED BY <2>2, <2>3 DEF NoOverlap
<1>13. BackToBack'
  <2>1. r.lock = r.start \/ (n > 0 /\ r.lock = log[c][n].unlock /\ r.lock > r.start)
    <3>1. CASE chan.lock_time = start
      BY <3>1
    <3>2. CASE chan.lock_time # start
      <4>1. n > 0
        BY <1>2, <1>3, <3>2 DEF IInv, SlotIsLast
      <4> QED BY <1>2, <1>3, <1>11, <3>2, <4>1
    <3> QED BY <3>1, <3>2
  <2>2. \A j \in 1 .. n :
          log[c][j].lock = log[c][j].start \/
            (j > 1 /\ log[c][j].lock = log[c][j - 1].unlock
                   /\ log[c][j].lock > log[c][j].start)
    BY DEF IInv, BackToBack
  <2>3. ASSUME NEW j \in 1 .. (n + 1)
        PROVE  log'[c][j].lock = log'[c][j].start \/
                 (j > 1 /\ log'[c][j].lock = log'[c][j - 1].unlock
                        /\ log'[c][j].lock > log'[c][j].start)
    <3>1. CASE j = n + 1
      <4>1. log'[c][j] = r
        BY <1>6, <3>1
      <4>2. CASE r.lock = r.start
        BY <4>1, <4>2
      <4>3. CASE n > 0 /\ r.lock = log[c][n].unlock /\ r.lock > r.start
        <5>1. j > 1 /\ j - 1 = n /\ n \in 1 .. n
          BY <1>2, <3>1, <4>3
        <5>2. log'[c][j - 1] = log[c][n]
          BY <1>6, <5>1
        <5> QED BY <4>1, <4>3, <5>1, <5>2
      <4> QED BY <2>1, <4>2, <4>3
    <3>2. CASE j \in 1 .. n
      <4>1. log'[c][j] = log[c][j]
        BY <1>6, <3>2
      <4>2. CASE j = 1
        <5>1. log[c][j].lock = log[c][j].start
          BY <2>2, <3>2, <4>2
        <5> QED BY <4>1, <5>1
      <4>3. CASE j # 1
        <5>1. j > 1 /\ j - 1 \in 1 .. n
          BY <1>2, <3>2, <4>3
        <5>2. log'[c][j - 1] = log[c][j - 1]
          BY <1>6, <5>1
        <5>3. \/ log[c][j].lock = log[c][j].start
              \/ /\ log[c][j].lock = log[c][j - 1].unlock
                 /\ log[c][j].lock > log[c][j].start
          BY <2>2, <3>2
        <5> QED BY <4>1, <5>1, <5>2, <5>3
      <4> QED BY <4>2, <4>3
    <3>3. j = n + 1 \/ j \in 1 .. n
      BY <1>2, <2>3
    <3> QED BY <3>1, <3>2, <3>3
  <2>4. ASSUME NEW e \in Channels, e # c
        PROVE  \A j \in 1 .. Len(log'[e]) :
                 log'[e][j].lock = log'[e][j].start \/
                   (j > 1 /\ log'[e][j].lock = log'[e][j - 1].unlock
                          /\ log'[e][j].lock > log'[e][j].start)
    BY <1>8, <2>4 DEF IInv, BackToBack
  <2> QED BY <1>6, <2>3, <2>4 DEF BackToBack
<1>14. \A y \in Contexts : TimevalKnown(y)'
  BY <1>7, <1>8 DEF IInv, TimevalKnown
<1>15. DeadlineIsLastRelease'
  <2> DEFINE old == request[x].timeval
             new == request'[x].timeval
  <2>1. new = (IF taken > old THEN taken ELSE old) /\ new \in Nat
    BY <1>5, <1>7 DEF longest
  <2>2. request[x].released # {} =>
          /\ \A u \in request[x].released : u <= start + old
          /\ start + old \in request[x].released
    BY <1>2 DEF IInv, DeadlineIsLastRelease, deadline
  <2>3. request[x].released = {} => old = 0
    BY <1>2 DEF IInv, TimevalKnown
  <2>4. /\ \A u \in request'[x].released : u <= start + new
        /\ start + new \in request'[x].released
    <3>1. CASE request[x].released = {}
      BY <1>2, <1>3, <1>7, <2>1, <2>3, <3>1
    <3>2. CASE request[x].released # {}
      <4>0. /\ old \in Nat /\ start \in Nat /\ taken \in Nat
            /\ chan.unlock_time = start + taken
            /\ request'[x].released = request[x].released \cup {chan.unlock_time}
            /\ request[x].released \in SUBSET Nat
        BY <1>2, <1>3, <1>7
      <4>1. CASE taken > old
        <5>1. new = taken /\ start + old <= start + new
          BY <2>1, <4>0, <4>1
        <5>2. ASSUME NEW u \in request[x].released PROVE u <= start + new
          <6>1. u <= start + old /\ u \in Nat
            BY <2>2, <3>2, <4>0
          <6> QED BY <2>1, <4>0, <5>1, <6>1
        <5> QED BY <4>0, <5>1, <5>2
      <4>2. CASE ~(taken > old)
        <5>1. new = old /\ chan.unlock_time <= start + new
          BY <2>1, <4>0, <4>2
        <5> QED BY <2>2, <3>2, <4>0, <5>1
      <4> QED BY <4>1, <4>2
    <3> QED BY <3>1, <3>2
  <2>5. deadline(x)' = start + new
    BY <1>7, <2>1 DEF deadline
  <2>6. ASSUME NEW y \in Contexts, y # x, request'[y].timeval # -1, request'[y].released # {}
        PROVE  /\ \A u \in request'[y].released : u <= deadline(y)'
               /\ deadline(y)' \in request'[y].released
    BY <1>8, <2>6 DEF IInv, DeadlineIsLastRelease, deadline
  <2> QED BY <2>4, <2>5, <2>6 DEF DeadlineIsLastRelease
<1>16. OneInside'
  BY <1>2, <1>7, <1>8 DEF IInv, OneInside
<1> QED BY <1>9, <1>10, <1>12, <1>13, <1>14, <1>15, <1>16 DEF IInv

\* Every step of a context, and of the clock, preserves the invariant.
LEMMA NextIInv == IInv /\ [Next]_vars => IInv'
<1> SUFFICES ASSUME IInv, [Next]_vars PROVE IInv'
  OBVIOUS
<1>1. /\ request \in [Contexts -> Request] /\ channels \in [Channels -> Channel]
      /\ log \in [Channels -> Seq(Reservation)] /\ now \in 0 .. MaxTime
      /\ simlock = {y \in Contexts : request[y].pc = "simulating"}
      /\ no_request \in Request /\ MaxTime \in Nat
  BY MaxTimeAssumption DEF IInv, TypeOK, no_request, Request
<1>2. CASE Tick
  <2>1. now' \in 0 .. MaxTime
    BY <1>1, <1>2 DEF Tick
  <2> QED BY <1>1, <1>2, <2>1, QuietStep DEF Tick, TypeOK, IInv, OneInside
<1>3. ASSUME NEW x \in Contexts, ReadClock(x) PROVE IInv'
  <2>1. [no_request EXCEPT !.pc = "timed", !.start = now] \in Request
    <3>1. now \in Nat
      BY <1>1
    <3> QED BY <3>1 DEF no_request, Request
  <2>2. TypeOK'
    BY <1>1, <1>3, <2>1 DEF ReadClock, TypeOK, no_request
  <2>3. \A y \in Contexts :
          \/ request'[y] = request[y]
          \/ request'[y].released = {} /\ request'[y].timeval = 0
    BY <1>1, <1>3 DEF ReadClock, no_request
  <2>4. OneInside'
    BY <1>1, <1>3 DEF ReadClock, no_request, IInv, OneInside
  <2> QED BY <1>3, <2>2, <2>3, <2>4, QuietStep DEF ReadClock
<1>4. ASSUME NEW x \in Contexts, Lock(x) PROVE IInv'
  <2>1. request' = [request EXCEPT ![x] = [request[x] EXCEPT !.pc = "simulating"]]
    BY <1>1, <1>4 DEF Lock
  <2>2. /\ request'[x] \in Request /\ request'[x].pc = "simulating"
        /\ request'[x].start = request[x].start
        /\ request'[x].timeval = request[x].timeval
        /\ request'[x].released = request[x].released
        /\ \A y \in Contexts : y # x => request'[y] = request[y]
    BY <1>1, <2>1 DEF Request
  <2>3. TypeOK'
    BY <1>1, <1>4, <2>1, <2>2 DEF Lock, TypeOK
  <2>4. OneInside'
    BY <1>1, <1>4, <2>2 DEF Lock, OneInside
  <2> QED BY <1>4, <2>2, <2>3, <2>4, QuietStep DEF Lock
<1>5. ASSUME NEW x \in Contexts, FailPage(x) PROVE IInv'
  <2>1. request' = [request EXCEPT ![x] = [request[x] EXCEPT !.timeval = -1]]
    BY <1>1, <1>5 DEF FailPage
  <2>2. /\ request'[x] \in Request /\ request'[x].pc = request[x].pc
        /\ request'[x].timeval = -1
        /\ \A y \in Contexts : y # x => request'[y] = request[y]
    BY <1>1, <2>1 DEF Request
  <2>3. TypeOK'
    BY <1>1, <1>5, <2>1, <2>2 DEF FailPage, TypeOK
  <2>4. OneInside'
    BY <2>2 DEF IInv, OneInside
  <2> QED BY <1>5, <2>2, <2>3, <2>4, QuietStep DEF FailPage
<1>6. ASSUME NEW x \in Contexts, Unlock(x) PROVE IInv'
  <2>1. \A y \in Contexts : y # x => request[y].pc # "simulating"
    BY <1>6 DEF Unlock, IInv, OneInside
  <2>2. /\ request'[x] = no_request /\ request'[x].pc = "idle"
        /\ request'[x].released = {} /\ request'[x].timeval = 0
        /\ \A y \in Contexts : y # x => request'[y] = request[y]
    BY <1>1, <1>6 DEF Unlock, no_request
  <2>3. TypeOK'
    BY <1>1, <1>6, <2>1, <2>2 DEF Unlock, TypeOK
  <2>4. OneInside'
    BY <2>1, <2>2 DEF OneInside
  <2> QED BY <1>6, <2>2, <2>3, <2>4, QuietStep DEF Unlock
<1>7. ASSUME NEW x \in Contexts, NEW c \in Channels, NEW d \in Durations,
             SimulatePage(x, c, d)
      PROVE  IInv'
  BY <1>7, SimulateIInv
<1>8. CASE UNCHANGED vars
  BY <1>1, <1>8, QuietStep DEF vars, TypeOK, IInv, OneInside
<1> QED BY <1>2, <1>3, <1>4, <1>5, <1>6, <1>7, <1>8 DEF Next
-------------------------------------------------------------------------------
\* The inductive invariant holds in every state of the bus.
THEOREM Invariance == Spec => []IInv
BY InitIInv, NextIInv, PTL DEF Spec

\* Type correctness, and that simlock names exactly the contexts inside it.
THEOREM TypeCorrect == Spec => []TypeOK
<1>1. IInv => TypeOK
  BY DEF IInv
<1> QED BY <1>1, Invariance, PTL

\* A channel never carries two events at once, whatever the start times and the
\* order in which the contexts come.
THEOREM ReservationsDisjoint == Spec => []NoOverlap
<1>1. IInv => NoOverlap
  BY DEF IInv
<1> QED BY <1>1, Invariance, PTL

\* An event waits only for the reservation granted just before its own.
THEOREM NoIdleWait == Spec => []BackToBack
<1>1. IInv => BackToBack
  BY DEF IInv
<1> QED BY <1>1, Invariance, PTL

\* A request is answered when the last of its pages leaves its channel.
THEOREM AnsweredAtLastRelease == Spec => []DeadlineIsLastRelease
<1>1. IInv => DeadlineIsLastRelease
  BY DEF IInv
<1> QED BY <1>1, Invariance, PTL
-------------------------------------------------------------------------------
\* The scheduling table of ssd_channel_lock2 from here on.

\* The rearrangements of the slots that move only those from l to r.
Rearrangements(l, r) ==
  {pi \in [Slot -> Slot] :
     /\ \A i, j \in Slot : pi[i] = pi[j] => i = j
     /\ \A j \in Slot : \E i \in Slot : pi[i] = j
     /\ \A i \in Slot : i \notin l .. r => pi[i] = i}

\* Table u is table t with the entries of slots l to r rearranged, both arrays
\* in the same way.
Shuffle(t, u, l, r) ==
  \E pi \in Rearrangements(l, r) : \A i \in Slot :
    u.lock_time[i] = t.lock_time[pi[i]] /\ u.unlock_time[i] = t.unlock_time[pi[i]]

\* Slots l to r are sorted by lock time.
Sorted(t, l, r) ==
  \A i, j \in l .. r : i <= j => t.lock_time[i] <= t.lock_time[j]

\* What partition's loop has done after n turns.
Parted(t, acc, l, r, n) ==
  LET pivot == t.lock_time[r]
  IN  /\ acc \in [t : Table, i : Int]
      /\ acc.i \in (l - 1) .. (l + n - 1)
      /\ Shuffle(t, acc.t, l, r - 1)
      /\ \A k \in l .. acc.i : acc.t.lock_time[k] <= pivot
      /\ \A k \in (acc.i + 1) .. (l + n - 1) : acc.t.lock_time[k] > pivot

\* What quicksort does to slots l to r, if F sorts the two parts.
Conquer(F, u, l, r) ==
  LET p == partition(u, l, r)
  IN  F[<<F[<<p.t, l, p.i - 1>>], p.i + 1, r>>]

\* Function F sorts any n slots.
Sorts(F, n) ==
  \A u \in Table, l \in 0 .. table_size, r \in -1 .. (table_size - 1) :
    /\ F[<<u, l, r>>] \in Table
    /\ r - l < n => Shuffle(u, F[<<u, l, r>>], l, r) /\ Sorted(F[<<u, l, r>>], l, r)

\* The entries of a table: free in both arrays or a reservation, no two of
\* which overlap.
WellFormed(t) ==
  /\ t \in Table
  /\ \A i \in Slot : (t.lock_time[i] = FREE) = (t.unlock_time[i] = FREE)
  /\ \A i \in used(t) : t.lock_time[i] < t.unlock_time[i]
  /\ \A i, j \in used(t) :
       i # j => t.unlock_time[i] <= t.lock_time[j] \/ t.unlock_time[j] <= t.lock_time[i]

TableInv == TableTypeOK /\ WellFormed(table) /\ SortedByFinish
-------------------------------------------------------------------------------
\* The slots are numbered from 0, and the times are numbers.
LEMMA SlotFacts ==
  /\ table_size \in Nat /\ table_size >= 2
  /\ \A i : i \in Slot <=> (i \in Int /\ 0 <= i /\ i <= table_size - 1)
  /\ \A t \in Table, i \in Slot :
       /\ t.lock_time[i] \in Nat \cup {-1} /\ t.unlock_time[i] \in Nat \cup {-1}
       /\ t.lock_time[i] \in Int /\ t.unlock_time[i] \in Int
  BY TableSizeAssumption DEF Slot, Table, FREE

\* _swap exchanges two entries in both arrays and touches no other.
LEMMA SwapEntries ==
  ASSUME NEW t \in Table, NEW i \in Slot, NEW j \in Slot
  PROVE  /\ swap(t, i, j) \in Table
         /\ \A k \in Slot :
              LET m == IF k = j THEN i ELSE IF k = i THEN j ELSE k
              IN  /\ swap(t, i, j).lock_time[k] = t.lock_time[m]
                  /\ swap(t, i, j).unlock_time[k] = t.unlock_time[m]
<1> DEFINE V == Nat \cup {FREE}
<1>1. ASSUME NEW f \in [Slot -> V]
      PROVE  /\ exchange(f, i, j) \in [Slot -> V]
             /\ \A k \in Slot :
                  exchange(f, i, j)[k] = f[IF k = j THEN i ELSE IF k = i THEN j ELSE k]
  <2> HIDE DEF V
  <2> QED BY DEF exchange
<1>2. t.lock_time \in [Slot -> V] /\ t.unlock_time \in [Slot -> V]
  BY DEF Table
<1> QED BY <1>1, <1>2 DEF swap, Table

LEMMA ShuffleSame ==
  ASSUME NEW t, NEW l \in Int, NEW r \in Int
  PROVE  Shuffle(t, t, l, r)
<1> DEFINE pi == [i \in Slot |-> i]
<1>1. pi \in Rearrangements(l, r)
  BY DEF Rearrangements
<1> QED BY <1>1 DEF Shuffle

LEMMA ShuffleSwap ==
  ASSUME NEW t \in Table, NEW l \in Int, NEW r \in Int,
         NEW i \in Slot, NEW j \in Slot, i \in l .. r, j \in l .. r
  PROVE  Shuffle(t, swap(t, i, j), l, r)
<1> DEFINE pi == [k \in Slot |-> IF k = j THEN i ELSE IF k = i THEN j ELSE k]
<1>1. pi \in Rearrangements(l, r)
  <2>1. \A k \in Slot : pi[pi[k]] = k
    OBVIOUS
  <2>2. pi \in [Slot -> Slot] /\ \A k \in Slot : k \notin l .. r => pi[k] = k
    OBVIOUS
  <2> HIDE DEF pi
  <2> QED BY <2>1, <2>2 DEF Rearrangements
<1>2. \A k \in Slot : /\ swap(t, i, j).lock_time[k] = t.lock_time[pi[k]]
                     /\ swap(t, i, j).unlock_time[k] = t.unlock_time[pi[k]]
  BY SwapEntries
<1> HIDE DEF pi
<1> QED BY <1>1, <1>2 DEF Shuffle

LEMMA ShuffleTwice ==
  ASSUME NEW t, NEW u, NEW w, NEW l \in Int, NEW r \in Int,
         Shuffle(t, u, l, r), Shuffle(u, w, l, r)
  PROVE  Shuffle(t, w, l, r)
<1>1. PICK pi \in Rearrangements(l, r) : \A i \in Slot :
        u.lock_time[i] = t.lock_time[pi[i]] /\ u.unlock_time[i] = t.unlock_time[pi[i]]
  BY DEF Shuffle
<1>2. PICK rho \in Rearrangements(l, r) : \A i \in Slot :
        w.lock_time[i] = u.lock_time[rho[i]] /\ w.unlock_time[i] = u.unlock_time[rho[i]]
  BY DEF Shuffle
<1> DEFINE both == [i \in Slot |-> pi[rho[i]]]
<1>3. both \in Rearrangements(l, r)
  <2> USE DEF Rearrangements
  <2>1. both \in [Slot -> Slot] /\ \A i \in Slot : both[i] = pi[rho[i]] /\ rho[i] \in Slot
    OBVIOUS
  <2> HIDE DEF both
  <2>2. \A i, j \in Slot : both[i] = both[j] => i = j
    BY <2>1
  <2>3. ASSUME NEW j \in Slot PROVE \E i \in Slot : both[i] = j
    <3>1. PICK k \in Slot : pi[k] = j
      OBVIOUS
    <3>2. PICK i \in Slot : rho[i] = k
      OBVIOUS
    <3> QED BY <2>1, <3>1, <3>2
  <2>4. \A i \in Slot : i \notin l .. r => both[i] = i
    BY <2>1
  <2> QED BY <2>1, <2>2, <2>3, <2>4
<1>4. \A i \in Slot : both[i] = pi[rho[i]] /\ rho[i] \in Slot
  BY DEF Rearrangements
<1> HIDE DEF both
<1> QED BY <1>1, <1>2, <1>3, <1>4 DEF Shuffle

LEMMA ShuffleWider ==
  ASSUME NEW t, NEW u, NEW l, NEW r, NEW ll, NEW rr,
         Shuffle(t, u, l, r), l .. r \subseteq ll .. rr
  PROVE  Shuffle(t, u, ll, rr)
<1>1. Rearrangements(l, r) \subseteq Rearrangements(ll, rr)
  BY DEF Rearrangements
<1> QED BY <1>1 DEF Shuffle

\* Outside the slots rearranged nothing moves, and inside nothing comes in.
LEMMA ShuffleInside ==
  ASSUME NEW t, NEW u, NEW l \in Int, NEW r \in Int, Shuffle(t, u, l, r)
  PROVE  /\ \A k \in Slot : k \notin l .. r => u.lock_time[k] = t.lock_time[k]
         /\ \A k \in Slot : k \in l .. r =>
              \E m \in Slot : m \in l .. r /\ u.lock_time[k] = t.lock_time[m]
<1>1. PICK pi \in Rearrangements(l, r) : \A i \in Slot :
        u.lock_time[i] = t.lock_time[pi[i]] /\ u.unlock_time[i] = t.unlock_time[pi[i]]
  BY DEF Shuffle
<1>2. \A k \in Slot : pi[k] \in Slot /\ (k \notin l .. r => pi[k] = k)
  BY DEF Rearrangements
<1>3. ASSUME NEW k \in Slot, k \in l .. r PROVE pi[k] \in l .. r
  <2>1. pi[k] \notin l .. r => pi[pi[k]] = pi[k]
    BY <1>2
  <2>2. pi[pi[k]] = pi[k] => pi[k] = k
    BY <1>2 DEF Rearrangements
  <2> QED BY <1>3, <2>1, <2>2
<1> QED BY <1>1, <1>2, <1>3
-------------------------------------------------------------------------------
\* A turn of partition's loop.
LEMMA PartitionStep ==
  ASSUME NEW t \in Table, NEW l \in Slot, NEW r \in Slot, l < r,
         NEW n \in 1 .. (r - l), NEW acc, Parted(t, acc, l, r, n - 1)
  PROVE  Parted(t, partition_step(acc, l + n - 1, t.lock_time[r]), l, r, n)
<1> DEFINE pivot == t.lock_time[r]
           j == l + n - 1
           i == acc.i + 1
           next == partition_step(acc, j, pivot)
<1>1. /\ l \in Int /\ r \in Int /\ 0 <= l /\ r <= table_size - 1 /\ pivot \in Int
      /\ n \in Int /\ 1 <= n /\ n <= r - l /\ table_size \in Nat
  BY SlotFacts
<1>2. /\ acc \in [t : Table, i : Int] /\ acc.t \in Table /\ acc.i \in Int
      /\ l - 1 <= acc.i /\ acc.i <= j - 1 /\ Shuffle(t, acc.t, l, r - 1)
      /\ \A k \in l .. acc.i : acc.t.lock_time[k] <= pivot
      /\ \A k \in (acc.i + 1) .. (j - 1) : acc.t.lock_time[k] > pivot
  BY <1>1 DEF Parted
<1>3. j \in Slot /\ i \in Slot /\ j \in l .. (r - 1) /\ i \in l .. (r - 1) /\ i <= j
  BY <1>1, <1>2, SlotFacts
<1>4. CASE acc.t.lock_time[j] <= pivot
  <2> DEFINE w == swap(acc.t, i, j)
  <2>1. next = [t |-> w, i |-> i]
    BY <1>4 DEF partition_step
  <2>2. /\ w \in Table
        /\ \A k \in Slot : w.lock_time[k] =
             acc.t.lock_time[IF k = j THEN i ELSE IF k = i THEN j ELSE k]
    <3> HIDE DEF i, j
    <3> QED BY <1>2, <1>3, SwapEntries
  <2>3. Shuffle(acc.t, w, l, r - 1)
    BY <1>1, <1>2, <1>3, ShuffleSwap
  <2> HIDE DEF w
  <2>4. Shuffle(t, w, l, r - 1)
    BY <1>1, <1>2, <2>3, ShuffleTwice
  <2>5. ASSUME NEW k \in l .. i PROVE w.lock_time[k] <= pivot
    <3>1. k \in Slot
      BY <1>1, <1>3, SlotFacts
    <3>2. CASE k = i
      BY <1>4, <2>2, <3>1, <3>2
    <3>3. CASE k # i
      <4>1. k # j /\ k \in l .. acc.i
        BY <1>1, <1>2, <1>3, <3>3
      <4> QED BY <1>2, <2>2, <3>1, <3>3, <4>1
    <3> QED BY <3>2, <3>3
  <2>6. ASSUME NEW k \in (i + 1) .. j PROVE w.lock_time[k] > pivot
    <3>1. k \in Slot /\ k # i
      BY <1>1, <1>2, <1>3, SlotFacts
    <3>2. CASE k = j
      <4>1. i \in (acc.i + 1) .. (j - 1)
        BY <1>1, <1>2, <3>1, <3>2
      <4> QED BY <1>2, <2>2, <3>1, <3>2, <4>1
    <3>3. CASE k # j
      <4>1. k \in (acc.i + 1) .. (j - 1)
        BY <1>1, <1>2, <3>3
      <4> QED BY <1>2, <2>2, <3>1, <3>3, <4>1
    <3> QED BY <3>2, <3>3
  <2>7. i \in (l - 1) .. j /\ l + n - 1 = j
    BY <1>1, <1>2, <1>3
  <2>8. next \in [t : Table, i : Int] /\ next.t = w /\ next.i = i
    BY <1>3, <2>1, <2>2, SlotFacts
  <2> HIDE DEF next, i, j, pivot
  <2>9. Parted(t, next, l, r, n)
    BY <2>4, <2>5, <2>6, <2>7, <2>8 DEF Parted, pivot
  <2> QED BY <2>9 DEF next, j, pivot
<1>5. CASE ~ (acc.t.lock_time[j] <= pivot)
  <2>1. next = acc
    BY <1>5 DEF partition_step
  <2>2. acc.t.lock_time[j] > pivot
    BY <1>1, <1>2, <1>3, <1>5, SlotFacts
  <2>3. \A k \in (acc.i + 1) .. j : acc.t.lock_time[k] > pivot
    <3> SUFFICES ASSUME NEW k \in (acc.i + 1) .. j PROVE acc.t.lock_time[k] > pivot
      OBVIOUS
    <3>1. k = j \/ k \in (acc.i + 1) .. (j - 1)
      BY <1>1, <1>2
    <3> QED BY <1>2, <2>2, <3>1
  <2>4. acc.i \in (l - 1) .. j /\ l + n - 1 = j
    BY <1>1, <1>2
  <2> HIDE DEF next, i, j, pivot
  <2>5. Parted(t, next, l, r, n)
    BY <1>2, <2>1, <2>3, <2>4 DEF Parted, pivot
  <2> QED BY <2>5 DEF next, j, pivot
<1> QED BY <1>4, <1>5

\* partition puts the pivot where it belongs, what is no greater before it and
\* what is greater behind it.
LEMMA Partition ==
  ASSUME NEW t \in Table, NEW l \in Slot, NEW r \in Slot, l < r
  PROVE  LET p == partition(t, l, r)
         IN  /\ p.t \in Table /\ p.i \in l .. r /\ Shuffle(t, p.t, l, r)
             /\ \A k \in l .. (p.i - 1) : p.t.lock_time[k] <= p.t.lock_time[p.i]
             /\ \A k \in (p.i + 1) .. r : p.t.lock_time[p.i] <= p.t.lock_time[k]
<1> DEFINE pivot == t.lock_time[r]
           base == [t |-> t, i |-> l - 1]
           Accs == [t : Table, i : Int]
           V == [n \in 0 .. (r - l) |-> {acc \in Accs : Parted(t, acc, l, r, n)}]
           step == [x \in (1 .. (r - l)) \X Accs |-> partition_step(x[2], l + x[1] - 1, pivot)]
           Loop(f) == f = [n \in 0 .. (r - l) |->
                             IF n = 0 THEN base ELSE partition_step(f[n - 1], l + n - 1, pivot)]
           loop == CHOOSE f : Loop(f)
           end == loop[r - l]
<1>1. /\ l \in Int /\ r \in Int /\ 0 <= l /\ r <= table_size - 1 /\ pivot \in Int
      /\ r - l \in Nat /\ table_size \in Nat
  BY SlotFacts
<1>2. Parted(t, base, l, r, 0)
  <2>1. base \in Accs /\ base.i = l - 1 /\ base.t = t
    BY <1>1
  <2>2. Shuffle(t, t, l, r - 1)
    BY <1>1, ShuffleSame
  <2> HIDE DEF base
  <2> QED BY <1>1, <2>1, <2>2 DEF Parted
<1>3. \A a : \A n \in 1 .. (r - l) : Parted(t, a, l, r, n - 1) =>
        /\ Parted(t, partition_step(a, l + n - 1, pivot), l, r, n)
        /\ partition_step(a, l + n - 1, pivot) \in Accs
  BY PartitionStep DEF Parted
<1>4. \E f : Loop(f)
  <2>1. base \in V[0]
    <3>1. 0 \in 0 .. (r - l)
      BY <1>1
    <3> QED BY <1>1, <1>2, <3>1
  <2>2. ASSUME NEW n \in 1 .. (r - l), NEW a \in V[n - 1]
        PROVE  step[<<n, a>>] = partition_step(a, l + n - 1, pivot) /\ step[<<n, a>>] \in V[n]
    <3>1. n - 1 \in 0 .. (r - l) /\ n \in 0 .. (r - l)
      BY <1>1
    <3>2. a \in Accs /\ Parted(t, a, l, r, n - 1)
      BY <3>1
    <3>3. step[<<n, a>>] = partition_step(a, l + n - 1, pivot)
      BY <3>2
    <3> HIDE DEF step, pivot, Accs
    <3> QED BY <1>3, <3>1, <3>2, <3>3
  <2> HIDE DEF V, step
  <2>3. PICK f : /\ f = [n \in 0 .. (r - l) |-> IF n = 0 THEN base ELSE step[<<n, f[n - 1]>>]]
                 /\ \A n \in 0 .. (r - l) : f[n] \in V[n]
    <3> DEFINE K == r - l
    <3> HIDE DEF base
    <3>1. K \in Nat /\ Leads(K, V, step)
      BY <1>1, <2>2 DEF Leads
    <3> HIDE DEF K
    <3>2. \E f : Iterates(K, base, step, f) /\ \A n \in 0 .. K : f[n] \in V[n]
      BY <2>1, <3>1, Iteration
    <3> QED BY <3>2 DEF K, Iterates
  <2>4. \A n \in 0 .. (r - l) :
          f[n] = IF n = 0 THEN base ELSE partition_step(f[n - 1], l + n - 1, pivot)
    <3> HIDE DEF base, pivot
    <3> SUFFICES ASSUME NEW n \in 0 .. (r - l), n # 0
                 PROVE  f[n] = partition_step(f[n - 1], l + n - 1, pivot)
      BY <2>3
    <3>1. n \in 1 .. (r - l) /\ n - 1 \in 0 .. (r - l)
      BY <1>1
    <3>2. f[n] = step[<<n, f[n - 1]>>] /\ f[n - 1] \in V[n - 1]
      BY <2>3, <3>1
    <3> QED BY <2>2, <3>1, <3>2
  <2>5. Loop(f)
    <3> HIDE DEF base, pivot
    <3>1. f = [n \in 0 .. (r - l) |-> f[n]]
      BY <2>3
    <3> QED BY <2>4, <3>1
  <2> QED BY <2>5
<1>5. Loop(loop)
  <2> HIDE DEF Loop
  <2> QED BY <1>4
<1>6. partition(t, l, r) = [t |-> swap(end.t, end.i + 1, r), i |-> end.i + 1]
  BY DEF partition
<1> HIDE DEF loop
<1>7. Parted(t, end, l, r, r - l)
  <2> DEFINE S == {n \in Nat : n <= r - l => Parted(t, loop[n], l, r, n)}
  <2>1. 0 \in S
    <3>1. loop[0] = base
      BY <1>1, <1>5
    <3> QED BY <1>2, <3>1
  <2>2. ASSUME NEW n \in Nat, n \in S PROVE n + 1 \in S
    <3> SUFFICES ASSUME n + 1 <= r - l PROVE Parted(t, loop[n + 1], l, r, n + 1)
      OBVIOUS
    <3>1. n + 1 \in 1 .. (r - l) /\ n + 1 \in 0 .. (r - l) /\ n + 1 - 1 = n /\ n + 1 # 0 /\ n <= r - l
      BY <1>1
    <3>2. Parted(t, loop[n], l, r, n)
      BY <2>2, <3>1
    <3>3. loop[n + 1] = partition_step(loop[n], l + (n + 1) - 1, pivot)
      <4> HIDE DEF base, pivot
      <4> QED BY <1>5, <3>1
    <3> HIDE DEF pivot
    <3> QED BY <1>3, <3>1, <3>2, <3>3
  <2> HIDE DEF S
  <2>3. r - l \in S
    BY <1>1, <2>1, <2>2, InductionOnSet
  <2> QED BY <1>1, <2>3 DEF S
<1> HIDE DEF end
<1> DEFINE i == end.i + 1
           w == swap(end.t, i, r)
<1>8. /\ end.t \in Table /\ end.i \in Int /\ l <= i /\ i <= r /\ i \in Slot
      /\ Shuffle(t, end.t, l, r - 1)
      /\ \A k \in l .. (i - 1) : end.t.lock_time[k] <= pivot
      /\ \A k \in i .. (r - 1) : end.t.lock_time[k] > pivot
  <2>1. end.t \in Table /\ end.i \in Int /\ l - 1 <= end.i /\ end.i <= r - 1
    BY <1>1, <1>7 DEF Parted
  <2>2. end.i + 1 - 1 = end.i /\ l + (r - l) - 1 = r - 1
    BY <1>1, <2>1
  <2>3. i \in Slot /\ l <= i /\ i <= r
    BY <1>1, <2>1, SlotFacts
  <2> QED BY <1>7, <2>1, <2>2, <2>3 DEF Parted
<1>9. end.t.lock_time[r] = pivot
  <2>1. r \notin l .. (r - 1) /\ r - 1 \in Int
    BY <1>1
  <2> QED BY <1>1, <1>8, <2>1, ShuffleInside
<1> HIDE DEF i
<1>10. /\ w \in Table
       /\ \A k \in Slot :
            w.lock_time[k] = end.t.lock_time[IF k = r THEN i ELSE IF k = i THEN r ELSE k]
  <2> DEFINE e == end.t
  <2>1. e \in Table /\ i \in Slot /\ r \in Slot
    BY <1>8
  <2> HIDE DEF e
  <2>2. /\ swap(e, i, r) \in Table
        /\ \A k \in Slot :
             swap(e, i, r).lock_time[k] = e.lock_time[IF k = r THEN i ELSE IF k = i THEN r ELSE k]
    BY <2>1, SwapEntries
  <2> QED BY <2>2 DEF e
<1>11. Shuffle(t, w, l, r)
  <2>1. Shuffle(t, end.t, l, r)
    <3>1. l .. (r - 1) \subseteq l .. r
      BY <1>1
    <3> QED BY <1>8, <3>1, ShuffleWider
  <2>2. i \in l .. r /\ r \in l .. r
    BY <1>1, <1>8, SlotFacts
  <2>3. Shuffle(end.t, w, l, r)
    BY <1>1, <1>8, <2>2, ShuffleSwap
  <2> HIDE DEF w
  <2> QED BY <1>1, <2>1, <2>3, ShuffleTwice
<1>12. w.lock_time[i] = pivot
  BY <1>8, <1>9, <1>10
<1>13. ASSUME NEW k \in l .. (i - 1) PROVE w.lock_time[k] <= pivot
  <2>1. k \in Slot /\ k # i /\ k # r
    BY <1>1, <1>8, SlotFacts
  <2>2. w.lock_time[k] = end.t.lock_time[k]
    BY <1>10, <2>1
  <2> QED BY <1>8, <2>2
<1>14. ASSUME NEW k \in (i + 1) .. r PROVE pivot <= w.lock_time[k]
  <2>0. k \in Slot /\ k # i /\ i \in Int /\ k \in Int
    BY <1>1, <1>8, SlotFacts
  <2>1. CASE k = r
    <3>1. i \in i .. (r - 1)
      BY <1>1, <2>0, <2>1
    <3>2. w.lock_time[k] = end.t.lock_time[i]
      BY <1>10, <2>0, <2>1
    <3>3. end.t.lock_time[i] > pivot
      BY <1>8, <3>1
    <3>4. end.t.lock_time[i] \in Int
      BY <1>8, SlotFacts
    <3> HIDE DEF w, pivot
    <3> QED BY <1>1, <3>2, <3>3, <3>4
  <2>2. CASE k # r
    <3>1. k \in i .. (r - 1)
      BY <1>1, <2>0, <2>2
    <3>2. w.lock_time[k] = end.t.lock_time[k]
      BY <1>10, <2>0, <2>2
    <3>3. end.t.lock_time[k] > pivot
      BY <1>8, <3>1
    <3>4. end.t.lock_time[k] \in Int
      BY <1>8, <2>0, SlotFacts
    <3> HIDE DEF w, pivot
    <3> QED BY <1>1, <3>2, <3>3, <3>4
  <2> QED BY <2>1, <2>2
<1>15. i \in l .. r
  BY <1>1, <1>8, SlotFacts
<1>16. partition(t, l, r).t = w /\ partition(t, l, r).i = i
  BY <1>6 DEF i
<1> HIDE DEF w, pivot
<1> QED BY <1>10, <1>11, <1>12, <1>13, <1>14, <1>15, <1>16
-------------------------------------------------------------------------------
\* What is rearranged on each side of the pivot stays on that side.
LEMMA ShuffleSide ==
  ASSUME NEW t, NEW u, NEW l \in Int, NEW r \in Int, NEW pivot \in Int,
         Shuffle(t, u, l, r), l >= 0, r <= table_size - 1
  PROVE  /\ (\A k \in l .. r : t.lock_time[k] <= pivot) =>
              \A k \in l .. r : u.lock_time[k] <= pivot
         /\ (\A k \in l .. r : pivot <= t.lock_time[k]) =>
              \A k \in l .. r : pivot <= u.lock_time[k]
<1>1. \A k \in l .. r : \E m \in l .. r : u.lock_time[k] = t.lock_time[m]
  BY ShuffleInside, SlotFacts
<1> QED BY <1>1

\* Sorting both sides of the pivot sorts the whole.
LEMMA ConquerSorts ==
  ASSUME NEW n \in Nat, NEW F, Sorts(F, n),
         NEW u \in Table, NEW l \in Slot, NEW r \in Slot, l < r
  PROVE  LET w == Conquer(F, u, l, r)
         IN  w \in Table /\ (r - l < n + 1 => Shuffle(u, w, l, r) /\ Sorted(w, l, r))
<1> DEFINE p == partition(u, l, r)
           t == p.t
           i == p.i
           v == F[<<t, l, i - 1>>]
           w == F[<<v, i + 1, r>>]
           pivot == t.lock_time[i]
<1>1. /\ l \in Int /\ r \in Int /\ 0 <= l /\ r <= table_size - 1 /\ table_size \in Nat
  BY SlotFacts
<1>2. /\ t \in Table /\ i \in l .. r /\ Shuffle(u, t, l, r)
      /\ \A k \in l .. (i - 1) : t.lock_time[k] <= pivot
      /\ \A k \in (i + 1) .. r : pivot <= t.lock_time[k]
  BY Partition
<1>3. Conquer(F, u, l, r) = w
  BY DEF Conquer
<1> HIDE DEF p, t, i
<1>4. /\ i \in Int /\ l <= i /\ i <= r /\ i \in Slot /\ pivot \in Int
      /\ l \in 0 .. table_size /\ i + 1 \in 0 .. table_size
      /\ r \in -1 .. (table_size - 1) /\ i - 1 \in -1 .. (table_size - 1)
      /\ i - 1 \in Int /\ i + 1 \in Int
  BY <1>1, <1>2, SlotFacts
<1> HIDE DEF v, w
<1>5. v \in Table /\ (i - 1 - l < n => Shuffle(t, v, l, i - 1) /\ Sorted(v, l, i - 1))
  BY <1>2, <1>4 DEF Sorts, v
<1>6. w \in Table /\ (r - (i + 1) < n => Shuffle(v, w, i + 1, r) /\ Sorted(w, i + 1, r))
  BY <1>4, <1>5 DEF Sorts, w
<1>7. ASSUME r - l < n + 1 PROVE Shuffle(u, w, l, r) /\ Sorted(w, l, r)
  <2>1. i - 1 - l < n /\ r - (i + 1) < n
    BY <1>1, <1>4, <1>7
  <2>2. /\ Shuffle(t, v, l, i - 1) /\ Sorted(v, l, i - 1)
        /\ Shuffle(v, w, i + 1, r) /\ Sorted(w, i + 1, r)
    BY <1>5, <1>6, <2>1
  <2>3. Shuffle(u, w, l, r)
    <3>1. l .. (i - 1) \subseteq l .. r /\ (i + 1) .. r \subseteq l .. r
      BY <1>1, <1>4
    <3>2. Shuffle(t, v, l, r) /\ Shuffle(v, w, l, r)
      BY <2>2, <3>1, ShuffleWider
    <3>3. Shuffle(u, v, l, r)
      BY <1>1, <1>2, <3>2, ShuffleTwice
    <3> QED BY <1>1, <3>2, <3>3, ShuffleTwice
  <2> DEFINE lo == i - 1
             hi == i + 1
  <2>4. lo \in Int /\ hi \in Int /\ lo <= table_size - 1 /\ hi >= 0
    BY <1>1, <1>4
  <2>5. /\ Shuffle(t, v, l, lo) /\ Shuffle(v, w, hi, r)
        /\ \A k \in l .. lo : t.lock_time[k] <= pivot
        /\ \A k \in hi .. r : pivot <= t.lock_time[k]
    BY <1>2, <2>2
  <2>6. \A k \in Slot : /\ k \in l .. i => k \notin hi .. r
                        /\ k \in hi .. r => k \notin l .. lo
    BY <1>1, <1>4
  <2>7. /\ i \in Slot /\ i \in l .. i /\ i \notin l .. lo
        /\ \A k \in l .. lo : k \in Slot /\ k \in l .. i
        /\ \A k \in hi .. r : k \in Slot
    BY <1>1, <1>4, SlotFacts
  <2> HIDE DEF lo, hi, pivot
  <2>8. \A k \in Slot : k \notin l .. lo => v.lock_time[k] = t.lock_time[k]
    BY <1>1, <2>4, <2>5, ShuffleInside
  <2>9. \A k \in Slot : k \notin hi .. r => w.lock_time[k] = v.lock_time[k]
    BY <1>1, <2>4, <2>5, ShuffleInside
  <2>10. w.lock_time[i] = pivot
    BY <2>6, <2>7, <2>8, <2>9 DEF pivot
  <2>11. \A k \in l .. lo : w.lock_time[k] = v.lock_time[k] /\ w.lock_time[k] <= pivot
    <3>1. \A k \in l .. lo : v.lock_time[k] <= pivot
      BY <1>1, <1>4, <2>4, <2>5, ShuffleSide
    <3> QED BY <2>6, <2>7, <2>9, <3>1
  <2>12. \A k \in hi .. r : pivot <= w.lock_time[k]
    <3>1. \A k \in hi .. r : pivot <= v.lock_time[k]
      BY <2>5, <2>6, <2>7, <2>8
    <3> QED BY <1>1, <1>4, <2>4, <2>5, <3>1, ShuffleSide
  <2>13. Sorted(w, l, r)
    <3> SUFFICES ASSUME NEW a \in l .. r, NEW b \in l .. r, a <= b
                 PROVE  w.lock_time[a] <= w.lock_time[b]
      BY DEF Sorted
    <3>1. /\ a \in Int /\ b \in Int /\ a \in Slot /\ b \in Slot
          /\ w.lock_time[a] \in Int /\ w.lock_time[b] \in Int
      BY <1>1, <1>6, SlotFacts
    <3>2. CASE b <= i - 1
      <4>1. a \in l .. lo /\ b \in l .. lo
        BY <1>1, <1>4, <3>1, <3>2 DEF lo
      <4> QED BY <2>2, <2>11, <4>1 DEF Sorted, lo
    <3>3. CASE a >= i + 1
      <4>1. a \in hi .. r /\ b \in hi .. r
        BY <1>1, <1>4, <3>1, <3>3 DEF hi
      <4> QED BY <2>2, <4>1 DEF Sorted, hi
    <3>4. CASE a <= i /\ i <= b
      <4>1. a = i \/ a \in l .. lo
        BY <1>1, <1>4, <3>1, <3>4 DEF lo
      <4>2. b = i \/ b \in hi .. r
        BY <1>1, <1>4, <3>1, <3>4 DEF hi
      <4>3. w.lock_time[a] <= pivot /\ pivot <= w.lock_time[b]
        BY <1>4, <2>10, <2>11, <2>12, <4>1, <4>2
      <4> QED BY <1>4, <3>1, <4>3
    <3> QED BY <1>4, <3>1, <3>2, <3>3, <3>4
  <2> QED BY <2>3, <2>13
<1> QED BY <1>3, <1>6, <1>7

\* A range of one slot, or of none, is sorted.
LEMMA ShortSorted ==
  ASSUME NEW u \in Table, NEW l \in 0 .. table_size, NEW r \in -1 .. (table_size - 1), l >= r
  PROVE  Shuffle(u, u, l, r) /\ Sorted(u, l, r)
<1>1. l \in Int /\ r \in Int
  BY SlotFacts
<1>2. \A a, b \in l .. r : a = b /\ a \in Slot
  BY <1>1, SlotFacts
<1>3. Sorted(u, l, r)
  BY <1>2, SlotFacts DEF Sorted
<1> QED BY <1>1, <1>3, ShuffleSame

\* A turn of quicksort's recursion.
LEMMA SortTurn ==
  ASSUME NEW n \in Nat, NEW F, Sorts(F, n),
         NEW u \in Table, NEW l \in 0 .. table_size, NEW r \in -1 .. (table_size - 1)
  PROVE  LET w == IF l >= r THEN u ELSE Conquer(F, u, l, r)
         IN  w \in Table /\ (r - l < n + 1 => Shuffle(u, w, l, r) /\ Sorted(w, l, r))
<1>1. CASE l >= r
  BY <1>1, ShortSorted
<1>2. CASE ~ (l >= r)
  <2>1. l \in Slot /\ r \in Slot /\ l < r
    BY <1>2, SlotFacts
  <2> QED BY <1>2, <2>1, ConquerSorts
<1> QED BY <1>1, <1>2

\* quicksort sorts by lock time and takes the unlock times along.
THEOREM Quicksort ==
  ASSUME NEW t \in Table, NEW l \in 0 .. table_size, NEW r \in -1 .. (table_size - 1)
  PROVE  /\ quicksort(t, l, r) \in Table
         /\ Shuffle(t, quicksort(t, l, r), l, r)
         /\ Sorted(quicksort(t, l, r), l, r)
<1> DEFINE N == table_size
           Dom == Table \X (0 .. table_size) \X (-1 .. (table_size - 1))
           turn(n, F) ==
             [x \in Table \X (0 .. table_size) \X (-1 .. (table_size - 1)) |->
                LET ll == x[2]
                    rr == x[3]
                    p == partition(x[1], ll, rr)
                IN  IF n = 0 \/ ll >= rr THEN x[1]
                    ELSE F[<<F[<<p.t, ll, p.i - 1>>], p.i + 1, rr>>]]
           Loop(f) == f = [n \in 0 .. table_size |-> turn(n, f[n - 1])]
           sort == CHOOSE f : Loop(f)
           V == [n \in 0 .. N |-> {F \in [Dom -> Table] : Sorts(F, n)}]
           step == [x \in (1 .. N) \X [Dom -> Table] |-> turn(x[1], x[2])]
           base == [x \in Dom |-> x[1]]
<1>1. N \in Nat
  BY SlotFacts
<1>2. base \in [Dom -> Table] /\ Sorts(base, 0)
  <2>1. base \in [Dom -> Table]
    OBVIOUS
  <2>2. ASSUME NEW u \in Table, NEW ll \in 0 .. table_size, NEW rr \in -1 .. (table_size - 1)
        PROVE  base[<<u, ll, rr>>] = u
    OBVIOUS
  <2> HIDE DEF base
  <2>3. ASSUME NEW u \in Table, NEW ll \in 0 .. table_size, NEW rr \in -1 .. (table_size - 1),
               rr - ll < 0
        PROVE  Shuffle(u, u, ll, rr) /\ Sorted(u, ll, rr)
    <3>1. ll >= rr
      BY <1>1, <2>3
    <3> QED BY <3>1, ShortSorted
  <2> QED BY <2>1, <2>2, <2>3 DEF Sorts
<1>3. ASSUME NEW n \in 1 .. N, NEW F, Sorts(F, n - 1)
      PROVE  turn(n, F) \in [Dom -> Table] /\ Sorts(turn(n, F), n)
  <2> DEFINE G == turn(n, F)
             W(u, ll, rr) == IF ll >= rr THEN u ELSE Conquer(F, u, ll, rr)
  <2>0. n - 1 \in Nat /\ n - 1 + 1 = n /\ n # 0
    BY <1>1
  <2>1. G = [x \in Dom |-> W(x[1], x[2], x[3])]
    BY <2>0 DEF Conquer
  <2>2. \A u \in Table, ll \in 0 .. table_size, rr \in -1 .. (table_size - 1) :
          /\ W(u, ll, rr) \in Table
          /\ rr - ll < n => Shuffle(u, W(u, ll, rr), ll, rr) /\ Sorted(W(u, ll, rr), ll, rr)
    BY <1>3, <2>0, SortTurn
  <2> HIDE DEF W, G
  <2>3. G \in [Dom -> Table]
    BY <2>1, <2>2
  <2>4. \A u \in Table, ll \in 0 .. table_size, rr \in -1 .. (table_size - 1) :
          G[<<u, ll, rr>>] = W(u, ll, rr)
    BY <2>1
  <2>5. Sorts(G, n)
    BY <2>2, <2>4 DEF Sorts
  <2> QED BY <2>3, <2>5 DEF G
<1>4. \E f : Loop(f)
  <2>1. base \in V[0]
    <3>1. 0 \in 0 .. N
      BY <1>1
    <3> HIDE DEF base, Dom
    <3> QED BY <1>2, <3>1
  <2>2. ASSUME NEW n \in 1 .. N, NEW F \in V[n - 1]
        PROVE  step[<<n, F>>] = turn(n, F) /\ step[<<n, F>>] \in V[n]
    <3>1. n - 1 \in 0 .. N /\ n \in 0 .. N
      BY <1>1
    <3> HIDE DEF turn, Dom
    <3>2. F \in [Dom -> Table] /\ Sorts(F, n - 1)
      BY <3>1
    <3>3. step[<<n, F>>] = turn(n, F)
      BY <3>2
    <3> HIDE DEF step
    <3> QED BY <1>3, <3>1, <3>2, <3>3
  <2>3. ASSUME NEW F PROVE turn(0, F) = base
    OBVIOUS
  <2> HIDE DEF V, step, base, turn
  <2>4. Leads(N, V, step)
    BY <2>2 DEF Leads
  <2>5. PICK f : Iterates(N, base, step, f) /\ \A n \in 0 .. N : f[n] \in V[n]
    <3> HIDE DEF N
    <3> QED BY <1>1, <2>1, <2>4, Iteration
  <2>6. \A n \in 0 .. N : f[n] = turn(n, f[n - 1])
    <3> SUFFICES ASSUME NEW n \in 0 .. N PROVE f[n] = turn(n, f[n - 1])
      OBVIOUS
    <3>1. CASE n = 0
      BY <2>3, <2>5, <3>1 DEF Iterates
    <3>2. CASE n # 0
      <4>1. n \in 1 .. N /\ n - 1 \in 0 .. N
        BY <1>1, <3>2
      <4>2. f[n] = step[<<n, f[n - 1]>>] /\ f[n - 1] \in V[n - 1]
        BY <2>5, <3>2, <4>1 DEF Iterates
      <4> QED BY <2>2, <4>1, <4>2
    <3> QED BY <3>1, <3>2
  <2>7. f = [n \in 0 .. N |-> f[n]]
    BY <2>5 DEF Iterates
  <2>8. Loop(f)
    BY <2>6, <2>7
  <2> QED BY <2>8
<1>5. Loop(sort)
  <2> HIDE DEF Loop
  <2> QED BY <1>4
<1>6. quicksort(t, l, r) = sort[N][<<t, l, r>>]
  BY DEF quicksort
<1>7. Sorts(sort[N], N)
  <2> HIDE DEF sort
  <2> DEFINE S == {n \in Nat : n <= N => Sorts(sort[n], n)}
  <2>0. \A n \in 0 .. N : sort[n] = turn(n, sort[n - 1])
    <3> HIDE DEF turn
    <3> QED BY <1>5
  <2>1. 0 \in S
    <3>1. turn(0, sort[0 - 1]) = base
      OBVIOUS
    <3>2. sort[0] = turn(0, sort[0 - 1])
      BY <1>1, <2>0
    <3> HIDE DEF turn, base
    <3> QED BY <1>2, <3>1, <3>2
  <2> HIDE DEF turn, Loop
  <2>2. ASSUME NEW n \in Nat, n \in S PROVE n + 1 \in S
    <3> SUFFICES ASSUME n + 1 <= N PROVE Sorts(sort[n + 1], n + 1)
      OBVIOUS
    <3>1. n + 1 \in 1 .. N /\ n + 1 \in 0 .. N /\ n + 1 - 1 = n /\ n <= N
      BY <1>1
    <3>2. Sorts(sort[n], n + 1 - 1) /\ sort[n + 1] = turn(n + 1, sort[n])
      BY <2>0, <2>2, <3>1
    <3>3. Sorts(turn(n + 1, sort[n]), n + 1)
      BY <1>3, <3>1, <3>2
    <3> QED BY <3>2, <3>3
  <2> HIDE DEF S
  <2>3. N \in S
    BY <1>1, <2>1, <2>2, InductionOnSet
  <2> QED BY <1>1, <2>3 DEF S
<1>8. CASE r - l < N
  <2> HIDE DEF sort
  <2> QED BY <1>6, <1>7, <1>8 DEF Sorts
<1>9. r - l < N
  BY <1>1
<1> QED BY <1>8, <1>9
-------------------------------------------------------------------------------
\* A slot is in use exactly if it has a lock time.
LEMMA UsedEntries ==
  ASSUME NEW t, WellFormed(t)
  PROVE  /\ t \in Table /\ used(t) \subseteq Slot /\ IsFiniteSet(used(t))
         /\ \A i \in Slot : i \in used(t) <=> t.lock_time[i] >= 0
         /\ \A i \in Slot : i \notin used(t) => t.lock_time[i] = -1 /\ t.unlock_time[i] = -1
         /\ \A i \in used(t) : /\ t.lock_time[i] \in Nat /\ t.unlock_time[i] \in Nat
                               /\ t.lock_time[i] < t.unlock_time[i]
<1>1. t \in Table /\ used(t) \subseteq Slot
  BY DEF WellFormed, used
<1>2. IsFiniteSet(Slot)
  BY SlotFacts, FS_Interval DEF Slot
<1>3. IsFiniteSet(used(t))
  BY <1>1, <1>2, FS_Subset
<1>4. \A i \in Slot : i \in used(t) <=> t.lock_time[i] >= 0
  BY <1>1, SlotFacts DEF WellFormed, used, FREE
<1>5. \A i \in Slot : i \notin used(t) => t.lock_time[i] = -1 /\ t.unlock_time[i] = -1
  BY <1>1 DEF WellFormed, used, FREE
<1>6. ASSUME NEW i \in used(t)
      PROVE  /\ t.lock_time[i] \in Nat /\ t.unlock_time[i] \in Nat
             /\ t.lock_time[i] < t.unlock_time[i]
  <2>1. i \in Slot /\ t.lock_time[i] # FREE /\ t.unlock_time[i] # FREE
    BY <1>1 DEF WellFormed, used
  <2> QED BY <1>1, <2>1, SlotFacts DEF WellFormed, FREE
<1> QED BY <1>1, <1>3, <1>4, <1>5, <1>6

\* Releasing takes the expired entries out and leaves the others where they are.
LEMMA Released ==
  ASSUME NEW t, WellFormed(t), NEW time \in Nat
  PROVE  LET u == release(t, time)
         IN  /\ WellFormed(u)
             /\ Cardinality(used(u)) = Cardinality(used(t)) - Cardinality(expired(t, time))
             /\ reservations(u) = {r \in reservations(t) : r[2] > time}
             /\ \A i \in used(u) : u.unlock_time[i] > time
<1> DEFINE u == release(t, time)
           E == expired(t, time)
<1>1. /\ t \in Table /\ used(t) \subseteq Slot /\ IsFiniteSet(used(t))
      /\ \A i \in used(t) : t.lock_time[i] \in Nat /\ t.unlock_time[i] \in Nat
  BY UsedEntries
<1>2. E \subseteq used(t) /\ \A i \in used(t) : i \notin E <=> t.unlock_time[i] > time
  BY <1>1 DEF expired
<1>3. /\ u \in Table
      /\ \A i \in Slot : i \in E => u.lock_time[i] = FREE /\ u.unlock_time[i] = FREE
      /\ \A i \in Slot : i \notin E =>
           u.lock_time[i] = t.lock_time[i] /\ u.unlock_time[i] = t.unlock_time[i]
  BY <1>1 DEF release, Table
<1> HIDE DEF u, E
<1>4. used(u) = used(t) \ E
  <2>1. \A i \in Slot : i \in used(u) <=> i \in used(t) /\ i \notin E
    BY <1>2, <1>3 DEF used
  <2>2. used(u) \subseteq Slot
    BY DEF used
  <2> QED BY <1>1, <2>1, <2>2
<1>5. WellFormed(u)
  <2>1. \A i \in used(u) :
          /\ i \in used(t) /\ i \in Slot
          /\ u.lock_time[i] = t.lock_time[i] /\ u.unlock_time[i] = t.unlock_time[i]
    BY <1>1, <1>3, <1>4
  <2>2. \A i \in Slot : (u.lock_time[i] = FREE) = (u.unlock_time[i] = FREE)
    BY <1>3 DEF WellFormed
  <2>3. \A i \in used(u) : u.lock_time[i] < u.unlock_time[i]
    BY <2>1 DEF WellFormed
  <2>4. \A i, j \in used(u) :
          i # j => u.unlock_time[i] <= u.lock_time[j] \/ u.unlock_time[j] <= u.lock_time[i]
    BY <2>1 DEF WellFormed
  <2> QED BY <1>3, <2>2, <2>3, <2>4 DEF WellFormed
<1>6. Cardinality(used(u)) = Cardinality(used(t)) - Cardinality(E)
  <2>1. used(t) \cap E = E
    BY <1>2
  <2> QED BY <1>1, <1>4, <2>1, FS_Difference
<1>7. reservations(u) = {r \in reservations(t) : r[2] > time}
  <2>1. \A i \in used(u) : /\ i \in used(t) /\ t.unlock_time[i] > time
                           /\ u.lock_time[i] = t.lock_time[i]
                           /\ u.unlock_time[i] = t.unlock_time[i]
    BY <1>1, <1>2, <1>3, <1>4
  <2>2. \A i \in used(t) : t.unlock_time[i] > time => i \in used(u)
    BY <1>2, <1>4
  <2> QED BY <2>1, <2>2 DEF reservations
<1>8. \A i \in used(u) : u.unlock_time[i] > time
  BY <1>1, <1>2, <1>3, <1>4
<1> QED BY <1>5, <1>6, <1>7, <1>8 DEF u, E

\* Rearranging the entries keeps them all, and keeps them apart.
LEMMA ShuffleKeeps ==
  ASSUME NEW t, WellFormed(t), NEW u \in Table, NEW l \in Int, NEW r \in Int,
         Shuffle(t, u, l, r)
  PROVE  /\ WellFormed(u)
         /\ Cardinality(used(u)) = Cardinality(used(t))
         /\ reservations(u) = reservations(t)
<1>1. PICK pi \in Rearrangements(l, r) : \A i \in Slot :
        u.lock_time[i] = t.lock_time[pi[i]] /\ u.unlock_time[i] = t.unlock_time[pi[i]]
  BY DEF Shuffle
<1>2. /\ \A i \in Slot : pi[i] \in Slot
      /\ \A i, j \in Slot : pi[i] = pi[j] => i = j
      /\ \A j \in Slot : \E i \in Slot : pi[i] = j
  BY DEF Rearrangements
<1>3. used(t) \subseteq Slot /\ used(u) \subseteq Slot /\ IsFiniteSet(used(t))
  BY UsedEntries DEF used
<1>4. \A i \in Slot : i \in used(u) <=> pi[i] \in used(t)
  BY <1>1, <1>2 DEF used
<1>5. WellFormed(u)
  <2>1. \A i \in Slot : (u.lock_time[i] = FREE) = (u.unlock_time[i] = FREE)
    BY <1>1, <1>2 DEF WellFormed
  <2>2. \A i \in used(u) : u.lock_time[i] < u.unlock_time[i]
    BY <1>1, <1>3, <1>4 DEF WellFormed
  <2>3. ASSUME NEW i \in used(u), NEW j \in used(u), i # j
        PROVE  u.unlock_time[i] <= u.lock_time[j] \/ u.unlock_time[j] <= u.lock_time[i]
    <3>1. pi[i] \in used(t) /\ pi[j] \in used(t) /\ pi[i] # pi[j]
      BY <1>2, <1>3, <1>4, <2>3
    <3>2. \/ t.unlock_time[pi[i]] <= t.lock_time[pi[j]]
          \/ t.unlock_time[pi[j]] <= t.lock_time[pi[i]]
      BY <3>1 DEF WellFormed
    <3> QED BY <1>1, <1>3, <3>2
  <2> QED BY <2>1, <2>2, <2>3 DEF WellFormed
<1>6. Cardinality(used(u)) = Cardinality(used(t))
  <2> DEFINE f == [i \in used(u) |-> pi[i]]
  <2>1. f \in [used(u) -> used(t)]
    BY <1>3, <1>4
  <2>2. \A i, j \in used(u) : f[i] = f[j] => i = j
    BY <1>2, <1>3
  <2>3. ASSUME NEW k \in used(t) PROVE \E i \in used(u) : f[i] = k
    <3>1. PICK i \in Slot : pi[i] = k
      BY <1>2, <1>3
    <3>2. i \in used(u)
      BY <1>4, <3>1
    <3> QED BY <3>1, <3>2
  <2> HIDE DEF f
  <2>4. f \in Bijection(used(u), used(t))
    BY <2>1, <2>2, <2>3 DEF Bijection, Injection, Surjection, IsInjective
  <2>5. ExistsBijection(used(u), used(t))
    BY <2>4 DEF ExistsBijection
  <2>6. IsFiniteSet(used(u))
    BY <1>5, UsedEntries
  <2> QED BY <2>5, <2>6, FS_Bijection
<1>7. reservations(u) = reservations(t)
  <2>1. \A i \in used(u) :
          /\ pi[i] \in used(t)
          /\ <<u.lock_time[i], u.unlock_time[i]>> = <<t.lock_time[pi[i]], t.unlock_time[pi[i]]>>
    BY <1>1, <1>3, <1>4
  <2>2. \A k \in used(t) : \E i \in used(u) : pi[i] = k
    BY <1>2, <1>3, <1>4
  <2>3. reservations(u) \subseteq reservations(t)
    BY <2>1 DEF reservations
  <2>4. ASSUME NEW k \in used(t)
        PROVE  <<t.lock_time[k], t.unlock_time[k]>> \in reservations(u)
    <3>1. PICK i \in used(u) : pi[i] = k
      BY <2>2
    <3>2. <<u.lock_time[i], u.unlock_time[i]>> = <<t.lock_time[k], t.unlock_time[k]>>
      BY <2>1, <3>1
    <3> QED BY <3>2 DEF reservations
  <2>5. reservations(t) \subseteq reservations(u)
    BY <2>4 DEF reservations
  <2> QED BY <2>3, <2>5
<1> QED BY <1>5, <1>6, <1>7

\* ssd_channel_unlock: what has not expired is left, sorted.
LEMMA Unlocked ==
  ASSUME NEW t, WellFormed(t), NEW time \in Nat
  PROVE  LET u == unlocked(t, time)
         IN  /\ WellFormed(u) /\ Sorted(u, 0, table_size - 1)
             /\ Cardinality(used(u)) = Cardinality(used(t)) - Cardinality(expired(t, time))
             /\ reservations(u) = {r \in reservations(t) : r[2] > time}
             /\ \A i \in used(u) : u.unlock_time[i] > time
<1> DEFINE v == release(t, time)
           u == unlocked(t, time)
<1>1. /\ WellFormed(v)
      /\ Cardinality(used(v)) = Cardinality(used(t)) - Cardinality(expired(t, time))
      /\ reservations(v) = {r \in reservations(t) : r[2] > time}
      /\ \A i \in used(v) : v.unlock_time[i] > time
  BY Released
<1>2. u = quicksort(v, 0, table_size - 1)
  BY DEF unlocked
<1> HIDE DEF u, v
<1>3. v \in Table
  BY <1>1 DEF WellFormed
<1>4. 0 \in 0 .. table_size /\ table_size - 1 \in -1 .. (table_size - 1)
  BY SlotFacts
<1>5. u \in Table /\ Shuffle(v, u, 0, table_size - 1) /\ Sorted(u, 0, table_size - 1)
  BY <1>2, <1>3, <1>4, Quicksort
<1>6. /\ WellFormed(u) /\ Cardinality(used(u)) = Cardinality(used(v))
      /\ reservations(u) = reservations(v)
  <2>1. 0 \in Int /\ table_size - 1 \in Int
    BY SlotFacts
  <2> QED BY <1>1, <1>5, <2>1, ShuffleKeeps
<1>7. \A i \in used(u) : u.unlock_time[i] > time
  <2> SUFFICES ASSUME NEW i \in used(u) PROVE u.unlock_time[i] > time
    OBVIOUS
  <2>1. <<u.lock_time[i], u.unlock_time[i]>> \in reservations(v)
    BY <1>6 DEF reservations
  <2>2. PICK k \in used(v) :
          <<u.lock_time[i], u.unlock_time[i]>> = <<v.lock_time[k], v.unlock_time[k]>>
    BY <2>1 DEF reservations
  <2>3. u.unlock_time[i] = v.unlock_time[k]
    BY <2>2
  <2> QED BY <1>1, <2>3
<1> QED BY <1>1, <1>5, <1>6, <1>7 DEF u
-------------------------------------------------------------------------------
\* A table sorted by lock time is sorted by unlock time, free slots first: it is
\* because reservations do not overlap.
LEMMA FinishOrder ==
  ASSUME NEW t, WellFormed(t), Sorted(t, 0, table_size - 1)
  PROVE  /\ \A i, j \in Slot : i <= j => t.lock_time[i] <= t.lock_time[j]
         /\ \A i, j \in Slot : i <= j => t.unlock_time[i] <= t.unlock_time[j]
         /\ \A i, j \in Slot : i <= j /\ i \in used(t) => j \in used(t)
<1>1. ASSUME NEW i \in Slot, NEW j \in Slot, i <= j PROVE t.lock_time[i] <= t.lock_time[j]
  BY <1>1 DEF Sorted, Slot
<1>2. ASSUME NEW i \in Slot, NEW j \in Slot, i <= j, i \in used(t) PROVE j \in used(t)
  BY <1>1, <1>2, UsedEntries, SlotFacts
<1>3. ASSUME NEW i \in Slot, NEW j \in Slot, i <= j
      PROVE  t.unlock_time[i] <= t.unlock_time[j]
  <2>0. /\ t.unlock_time[i] \in Nat \cup {-1} /\ t.unlock_time[j] \in Nat \cup {-1}
        /\ t.unlock_time[i] \in Int /\ t.unlock_time[j] \in Int
    BY UsedEntries, SlotFacts
  <2>1. CASE i = j
    BY <2>0, <2>1
  <2>2. CASE i \notin used(t)
    <3>1. t.unlock_time[i] = -1
      BY <2>2, UsedEntries
    <3> QED BY <2>0, <3>1
  <2>3. CASE i # j /\ i \in used(t)
    <3>1. j \in used(t)
      BY <1>2, <1>3, <2>3
    <3>2. /\ t.lock_time[i] \in Nat /\ t.unlock_time[i] \in Nat
          /\ t.lock_time[j] \in Nat /\ t.unlock_time[j] \in Nat
          /\ t.lock_time[i] < t.unlock_time[i] /\ t.lock_time[j] < t.unlock_time[j]
      BY <2>3, <3>1, UsedEntries
    <3>3. t.unlock_time[i] <= t.lock_time[j] \/ t.unlock_time[j] <= t.lock_time[i]
      BY <2>3, <3>1 DEF WellFormed
    <3>4. t.lock_time[i] <= t.lock_time[j]
      BY <1>1, <1>3
    <3> QED BY <3>2, <3>3, <3>4
  <2> QED BY <2>1, <2>2, <2>3
<1> QED BY <1>1, <1>2, <1>3

\* Slot 0 of a sorted table is free unless all slots are in use.
LEMMA FirstSlotFree ==
  ASSUME NEW t, WellFormed(t), Sorted(t, 0, table_size - 1), Cardinality(used(t)) < table_size
  PROVE  0 \notin used(t)
<1> SUFFICES ASSUME 0 \in used(t) PROVE FALSE
  OBVIOUS
<1>1. \A j \in Slot : j \in used(t)
  <2>1. 0 \in Slot /\ \A j \in Slot : 0 <= j
    BY SlotFacts
  <2> QED BY <2>1, FinishOrder
<1>2. used(t) = Slot
  BY <1>1, UsedEntries
<1>3. Cardinality(Slot) = table_size
  <2>1. Cardinality(0 .. (table_size - 1)) = (table_size - 1) - 0 + 1
    BY SlotFacts, FS_Interval
  <2> QED BY <2>1, SlotFacts DEF Slot
<1> QED BY <1>2, <1>3, SlotFacts

\* The least element of a set of slots.
LEMMA LeastSlot ==
  ASSUME NEW S \in SUBSET Slot, S # {}
  PROVE  Min(S) \in S /\ \A k \in S : Min(S) <= k
<1>1. S \in SUBSET Nat
  BY SlotFacts
<1>2. \E x \in S : \A y \in S : x <= y
  BY <1>1, LeastNat
<1> QED BY <1>2 DEF Min

\* Where ssd_channel_lock2 puts an event nothing else is: before all, in a gap,
\* and after all leave no other case.
LEMMA SchedTime ==
  ASSUME NEW t, WellFormed(t), Sorted(t, 0, table_size - 1),
         NEW start \in Nat, NEW d \in Nat \ {0},
         \A i \in used(t) : t.unlock_time[i] > start
  PROVE  LET s == sched_time2(t, start, d)
         IN  /\ s \in Nat /\ s >= start
             /\ \A i \in used(t) : t.unlock_time[i] <= s \/ s + d <= t.lock_time[i]
<1> DEFINE s == sched_time2(t, start, d)
           first == Min(used(t))
           G == gaps(t, first, start, d)
           g == Min(G)
<1> SUFFICES /\ s \in Nat /\ s >= start
             /\ \A i \in used(t) : t.unlock_time[i] <= s \/ s + d <= t.lock_time[i]
  OBVIOUS
<1>1. /\ used(t) \subseteq Slot
      /\ \A i \in used(t) : t.lock_time[i] \in Nat /\ t.unlock_time[i] \in Nat
  BY UsedEntries
<1>2. /\ \A i, j \in Slot : i <= j => t.lock_time[i] <= t.lock_time[j]
      /\ \A i, j \in Slot : i <= j => t.unlock_time[i] <= t.unlock_time[j]
      /\ \A i, j \in Slot : i <= j /\ i \in used(t) => j \in used(t)
  BY FinishOrder
<1>3. CASE used(t) = {}
  BY <1>3 DEF sched_time2
<1>4. CASE used(t) # {}
  <2>1. /\ first \in used(t) /\ first \in Slot /\ first \in Int
        /\ \A k \in used(t) : k \in Slot /\ k \in Int /\ first <= k /\ k <= table_size - 1
    BY <1>1, <1>4, LeastSlot, SlotFacts
  <2> HIDE DEF first
  <2>2. CASE fits_before(t, first, start, d)
    <3>1. s = start
      BY <1>4, <2>2 DEF sched_time2, first
    <3>2. t.lock_time[first] - start >= d
      BY <2>2 DEF fits_before
    <3>3. ASSUME NEW i \in used(t) PROVE start + d <= t.lock_time[i]
      <4>1. t.lock_time[first] <= t.lock_time[i]
        BY <1>2, <2>1
      <4>2. t.lock_time[first] \in Nat /\ t.lock_time[i] \in Nat
        BY <1>1, <2>1
      <4> QED BY <3>2, <4>1, <4>2
    <3> HIDE DEF s
    <3> QED BY <3>1, <3>3
  <2>3. CASE ~ fits_before(t, first, start, d) /\ G # {}
    <3>1. s = t.unlock_time[g]
      BY <1>4, <2>3 DEF sched_time2, first
    <3>2. G \in SUBSET Slot
      BY <2>1, SlotFacts DEF gaps
    <3>3. g \in G
      BY <2>3, <3>2, LeastSlot
    <3>4. /\ g \in first .. (table_size - 3) /\ t.unlock_time[g] >= start
          /\ t.lock_time[g + 1] - t.unlock_time[g] >= d
      BY <3>3 DEF gaps
    <3> HIDE DEF s, g, G
    <3>5. g \in Int /\ first <= g /\ g \in Slot /\ g + 1 \in Slot
      BY <2>1, <3>4, SlotFacts
    <3>6. g \in used(t) /\ g + 1 \in used(t)
      BY <1>2, <2>1, <3>5
    <3>7. s \in Nat /\ t.lock_time[g + 1] \in Nat /\ s + d <= t.lock_time[g + 1]
      BY <1>1, <3>1, <3>4, <3>6
    <3>8. ASSUME NEW i \in used(t) PROVE t.unlock_time[i] <= s \/ s + d <= t.lock_time[i]
      <4>1. CASE i <= g
        BY <1>2, <2>1, <3>1, <3>5, <4>1
      <4>2. CASE g + 1 <= i
        <5>1. t.lock_time[g + 1] <= t.lock_time[i] /\ t.lock_time[i] \in Nat
          BY <1>1, <1>2, <2>1, <3>5, <4>2
        <5> QED BY <3>7, <5>1
      <4> QED BY <2>1, <3>5, <4>1, <4>2
    <3> QED BY <3>1, <3>4, <3>7, <3>8
  <2>4. CASE ~ fits_before(t, first, start, d) /\ G = {}
    <3> DEFINE z == table_size - 1
    <3>1. s = t.unlock_time[z]
      BY <1>4, <2>4 DEF sched_time2, first
    <3>2. z \in Slot /\ first <= z
      BY <2>1, SlotFacts
    <3>3. \A i \in used(t) : i \in Slot /\ i <= z
      BY <2>1
    <3> HIDE DEF s, z, G
    <3>4. z \in used(t)
      BY <1>2, <2>1, <3>2
    <3>5. s \in Nat /\ s > start
      BY <1>1, <3>1, <3>4
    <3>6. \A i \in used(t) : t.unlock_time[i] <= s
      BY <1>2, <3>1, <3>2, <3>3
    <3> QED BY <3>5, <3>6
  <2> QED BY <2>2, <2>3, <2>4
<1> QED BY <1>3, <1>4

\* If there was room at x, sooner than where the event was put, then only between
\* the last two entries.
LEMMA SoonerRoom ==
  ASSUME NEW t, WellFormed(t), Sorted(t, 0, table_size - 1),
         NEW start \in Nat, NEW d \in Nat \ {0},
         \A i \in used(t) : t.unlock_time[i] > start,
         NEW x \in Nat, start <= x, x < sched_time2(t, start, d),
         \A i \in used(t) : t.unlock_time[i] <= x \/ x + d <= t.lock_time[i]
  PROVE  LET z == table_size - 1
         IN  /\ z \in used(t) /\ x + d <= t.lock_time[z]
             /\ \A i \in used(t) : i # z => t.unlock_time[i] <= x
             /\ \E i \in used(t) : i # z
<1> DEFINE s == sched_time2(t, start, d)
           first == Min(used(t))
           G == gaps(t, first, start, d)
           g == Min(G)
           z == table_size - 1
           A == {i \in used(t) : t.unlock_time[i] <= x}
<1>1. /\ used(t) \subseteq Slot
      /\ \A i \in used(t) : t.lock_time[i] \in Nat /\ t.unlock_time[i] \in Nat
  BY UsedEntries
<1>2. /\ \A i, j \in Slot : i <= j => t.lock_time[i] <= t.lock_time[j]
      /\ \A i, j \in Slot : i <= j => t.unlock_time[i] <= t.unlock_time[j]
      /\ \A i, j \in Slot : i <= j /\ i \in used(t) => j \in used(t)
  BY FinishOrder
<1>3. used(t) # {}
  BY DEF sched_time2
<1>4. /\ first \in used(t) /\ first \in Slot /\ first \in Int
      /\ \A k \in used(t) : k \in Slot /\ k \in Int /\ first <= k /\ k <= z
      /\ z \in Slot /\ z \in Int /\ z \in used(t)
  <2>1. first \in used(t) /\ \A k \in used(t) : first <= k
    BY <1>1, <1>3, LeastSlot
  <2> HIDE DEF first
  <2>2. \A k \in used(t) : k \in Slot /\ k \in Int /\ k <= z
    BY <1>1, SlotFacts
  <2>3. z \in Slot /\ z \in Int
    BY SlotFacts
  <2> HIDE DEF z
  <2> QED BY <1>2, <2>1, <2>2, <2>3
<1>5. s = IF fits_before(t, first, start, d) THEN start
          ELSE IF G # {} THEN t.unlock_time[g] ELSE t.unlock_time[z]
  BY <1>3 DEF sched_time2
<1>6. x < s
  OBVIOUS
<1>7. G = {i \in first .. (table_size - 3) : /\ t.unlock_time[i] >= start
                                           /\ t.lock_time[i + 1] - t.unlock_time[i] >= d}
  BY DEF gaps
<1>g. G # {} => \A k \in G : k \in Slot /\ g \in Slot /\ g <= k
  <2>1. G \in SUBSET Slot
    <3> HIDE DEF G, first
    <3> QED BY <1>4, <1>7, SlotFacts
  <2> QED BY <2>1, LeastSlot
<1> HIDE DEF s, first, G, g
<1>8. ~ fits_before(t, first, start, d)
  BY <1>5, <1>6
<1>9. ASSUME NEW i \in used(t), i # z, t.unlock_time[i] <= x, x + d <= t.lock_time[i + 1]
      PROVE  i = z - 1
  <2> SUFFICES ASSUME i # z - 1 PROVE FALSE
    OBVIOUS
  <2>1. i \in first .. (table_size - 3) /\ i + 1 \in Slot
    BY <1>4, <1>9, SlotFacts
  <2>2. i + 1 \in used(t)
    BY <1>2, <1>4, <2>1
  <2>3. t.lock_time[i + 1] - t.unlock_time[i] >= d /\ t.unlock_time[i] >= start
    BY <1>1, <1>9, <2>2
  <2>4. i \in G
    BY <1>7, <2>1, <2>3
  <2>5. s = t.unlock_time[g] /\ t.unlock_time[g] <= t.unlock_time[i]
    BY <1>2, <1>4, <1>5, <1>8, <1>g, <2>4
  <2>6. g \in Slot /\ t.unlock_time[g] \in Int /\ t.unlock_time[i] \in Int
    BY <1>1, <1>4, <1>g, <2>4, UsedEntries, SlotFacts
  <2> QED BY <1>6, <1>9, <2>5, <2>6
<1>10. A # {}
  <2> SUFFICES ASSUME A = {} PROVE FALSE
    OBVIOUS
  <2>1. x + d <= t.lock_time[first]
    BY <1>4
  <2>2. t.lock_time[first] \in Nat
    BY <1>1, <1>4
  <2>3. t.lock_time[first] > start /\ t.lock_time[first] - start >= d
    BY <2>1, <2>2
  <2> QED BY <1>8, <2>3 DEF fits_before
<1>11. PICK i \in A : \A k \in A : k <= i
  <2>1. A \in SUBSET Nat /\ z \in Nat /\ \A k \in A : k <= z
    BY <1>1, <1>4, SlotFacts
  <2> HIDE DEF A, z
  <2> QED BY <1>10, <2>1, GreatestNat
<1>12. i \in used(t) /\ i \in Int /\ t.unlock_time[i] <= x
  BY <1>4, <1>11
<1>13. i # z
  <2> SUFFICES ASSUME i = z PROVE FALSE
    OBVIOUS
  <2>1. s <= t.unlock_time[z] /\ s \in Int
    <3>1. CASE G = {}
      BY <1>1, <1>4, <1>5, <1>8, <3>1
    <3>2. CASE G # {}
      <4>1. g \in Slot /\ g <= z
        BY <1>g, <1>4, <3>2, SlotFacts
      <4>2. t.unlock_time[g] \in Int
        BY <4>1, UsedEntries, SlotFacts
      <4> QED BY <1>2, <1>4, <1>5, <1>8, <3>2, <4>1, <4>2
    <3> QED BY <3>1, <3>2
  <2>2. t.unlock_time[z] \in Nat
    BY <1>1, <1>4
  <2> QED BY <1>6, <1>12, <2>1, <2>2
<1>14. i + 1 \in used(t) /\ i + 1 \notin A
  <2>1. i + 1 \in Slot
    BY <1>4, <1>12, <1>13, SlotFacts
  <2>2. i + 1 \in used(t)
    BY <1>2, <1>4, <1>12, <2>1
  <2>3. ~ (i + 1 <= i)
    BY <1>12
  <2> HIDE DEF A
  <2> QED BY <1>11, <2>2, <2>3
<1>15. x + d <= t.lock_time[i + 1]
  BY <1>14
<1>16. i = z - 1
  BY <1>9, <1>12, <1>13, <1>15
<1>17. \A k \in used(t) : k # z => t.unlock_time[k] <= x
  <2> SUFFICES ASSUME NEW k \in used(t), k # z PROVE t.unlock_time[k] <= x
    OBVIOUS
  <2>1. k <= i
    BY <1>4, <1>12, <1>16
  <2>2. t.unlock_time[k] <= t.unlock_time[i]
    BY <1>2, <1>4, <1>12, <2>1
  <2>3. t.unlock_time[k] \in Nat /\ t.unlock_time[i] \in Nat
    BY <1>1, <1>12
  <2> QED BY <1>12, <2>2, <2>3
<1>18. i + 1 = z
  BY <1>4, <1>16
<1> QED BY <1>4, <1>12, <1>13, <1>15, <1>17, <1>18

\* A table with a new reservation in its free slot 0.
LEMMA Inserted ==
  ASSUME NEW t, WellFormed(t), Sorted(t, 0, table_size - 1), 0 \notin used(t),
         NEW s \in Nat, NEW e \in Nat, s < e,
         \A i \in used(t) : t.unlock_time[i] <= s \/ e <= t.lock_time[i]
  PROVE  LET u == [lock_time   |-> [t.lock_time EXCEPT ![0] = s],
                   unlock_time |-> [t.unlock_time EXCEPT ![0] = e]]
         IN  /\ WellFormed(u)
             /\ Cardinality(used(u)) = Cardinality(used(t)) + 1
             /\ reservations(u) = reservations(t) \cup {<<s, e>>}
             /\ \A i, j \in 1 .. (table_size - 1) : i < j => u.unlock_time[i] <= u.unlock_time[j]
<1> DEFINE u == [lock_time   |-> [t.lock_time EXCEPT ![0] = s],
                 unlock_time |-> [t.unlock_time EXCEPT ![0] = e]]
<1>1. t \in Table /\ used(t) \subseteq Slot /\ IsFiniteSet(used(t)) /\ 0 \in Slot
  BY UsedEntries, SlotFacts
<1>2. /\ u \in Table /\ u.lock_time[0] = s /\ u.unlock_time[0] = e
      /\ \A i \in Slot : i # 0 =>
           u.lock_time[i] = t.lock_time[i] /\ u.unlock_time[i] = t.unlock_time[i]
  BY <1>1 DEF Table
<1> HIDE DEF u
<1>3. used(u) = used(t) \cup {0}
  <2>1. \A i \in Slot : i \in used(u) <=> i \in used(t) \/ i = 0
    BY <1>2 DEF used, FREE
  <2>2. used(u) \subseteq Slot
    BY DEF used
  <2> QED BY <1>1, <2>1, <2>2
<1>4. \A i \in used(t) :
        /\ i # 0 /\ i \in Slot
        /\ u.lock_time[i] = t.lock_time[i] /\ u.unlock_time[i] = t.unlock_time[i]
  BY <1>1, <1>2
<1>5. WellFormed(u)
  <2>1. \A i \in Slot : (u.lock_time[i] = FREE) = (u.unlock_time[i] = FREE)
    <3>1. s # FREE /\ e # FREE
      BY DEF FREE
    <3> QED BY <1>2, <3>1 DEF WellFormed
  <2>2. \A i \in used(u) : u.lock_time[i] < u.unlock_time[i]
    BY <1>2, <1>3, <1>4 DEF WellFormed
  <2>3. \A i, j \in used(u) :
          i # j => u.unlock_time[i] <= u.lock_time[j] \/ u.unlock_time[j] <= u.lock_time[i]
    BY <1>2, <1>3, <1>4 DEF WellFormed
  <2> QED BY <1>2, <2>1, <2>2, <2>3 DEF WellFormed
<1>6. Cardinality(used(u)) = Cardinality(used(t)) + 1
  BY <1>1, <1>3, FS_AddElement
<1>7. reservations(u) = reservations(t) \cup {<<s, e>>}
  <2>1. reservations(u) = {<<u.lock_time[i], u.unlock_time[i]>> : i \in used(t)} \cup {<<s, e>>}
    BY <1>2, <1>3 DEF reservations
  <2>2. {<<u.lock_time[i], u.unlock_time[i]>> : i \in used(t)} = reservations(t)
    BY <1>4 DEF reservations
  <2> QED BY <2>1, <2>2
<1>8. \A i, j \in 1 .. (table_size - 1) : i < j => u.unlock_time[i] <= u.unlock_time[j]
  <2>1. \A i \in 1 .. (table_size - 1) : i \in Slot /\ i # 0
    BY SlotFacts
  <2>2. \A i, j \in 1 .. (table_size - 1) : i < j => i <= j
    OBVIOUS
  <2> QED BY <1>2, <2>1, <2>2, FinishOrder
<1> QED BY <1>5, <1>6, <1>7, <1>8 DEF u
-------------------------------------------------------------------------------
\* Every slot is free at first.
LEMMA TableInitInv == TableInit => TableInv
<1> SUFFICES ASSUME TableInit PROVE TableInv
  OBVIOUS
<1>1. table \in Table /\ \A i \in Slot : table.lock_time[i] = FREE /\ table.unlock_time[i] = FREE
  BY DEF TableInit, Table
<1>2. used(table) = {}
  BY <1>1 DEF used
<1>3. WellFormed(table)
  BY <1>1, <1>2 DEF WellFormed
<1>4. TableTypeOK
  <2>1. table_entries = 0 /\ last.wait \in Nat
    BY DEF TableInit
  <2> QED BY <1>1, <1>2, <2>1, FS_EmptySet DEF TableTypeOK
<1>5. SortedByFinish
  <2>1. \A i \in 1 .. (table_size - 1) : i \in Slot
    BY SlotFacts
  <2> QED BY <1>1, <2>1 DEF SortedByFinish, FREE
<1> QED BY <1>3, <1>4, <1>5 DEF TableInv

\* A successful call leaves what had not expired and the new reservation.
LEMMA Lock2Keeps ==
  ASSUME TableInv, NEW start \in StartTimes, NEW d \in LockDurations, Lock2(start, d)
  PROVE  /\ TableInv'
         /\ last'.start = start
         /\ reservations(table') =
              {r \in reservations(table) : r[2] > last'.start} \cup
              {<<last'.start + last'.wait, last'.start + last'.wait + last'.duration>>}
<1> DEFINE t == unlocked(table, start)
           s == sched_time2(t, start, d)
           u == [lock_time   |-> [t.lock_time EXCEPT ![0] = s],
                 unlock_time |-> [t.unlock_time EXCEPT ![0] = s + d]]
<1>1. /\ start \in Nat /\ d \in Nat \ {0} /\ WellFormed(table)
      /\ table_entries = Cardinality(used(table))
  BY TableTimesAssumption DEF TableInv, TableTypeOK
<1>2. /\ table' = u /\ entries_after(start) < table_size
      /\ table_entries' = entries_after(start) + 1
      /\ last' = [start |-> start, duration |-> d, ret |-> "SUCCESS", wait |-> s - start]
  BY DEF Lock2
<1> HIDE DEF t
<1>3. /\ WellFormed(t) /\ Sorted(t, 0, table_size - 1)
      /\ Cardinality(used(t)) = Cardinality(used(table)) - Cardinality(expired(table, start))
      /\ reservations(t) = {r \in reservations(table) : r[2] > start}
      /\ \A i \in used(t) : t.unlock_time[i] > start
  BY <1>1, Unlocked DEF t
<1> HIDE DEF s
<1>4. /\ s \in Nat /\ s >= start
      /\ \A i \in used(t) : t.unlock_time[i] <= s \/ s + d <= t.lock_time[i]
  BY <1>1, <1>3, SchedTime DEF s
<1>5. Cardinality(used(t)) = entries_after(start) /\ 0 \notin used(t)
  BY <1>1, <1>2, <1>3, FirstSlotFree DEF entries_after
<1>6. s + d \in Nat /\ s < s + d /\ s - start \in Nat /\ start + (s - start) = s
  BY <1>1, <1>4
<1> DEFINE e == s + d
<1>7. /\ WellFormed(u)
      /\ Cardinality(used(u)) = Cardinality(used(t)) + 1
      /\ reservations(u) = reservations(t) \cup {<<s, s + d>>}
      /\ \A i, j \in 1 .. (table_size - 1) : i < j => u.unlock_time[i] <= u.unlock_time[j]
  <2>1. e \in Nat /\ s < e /\ \A i \in used(t) : t.unlock_time[i] <= s \/ e <= t.lock_time[i]
    BY <1>4, <1>6
  <2> HIDE DEF e
  <2>2. LET w == [lock_time   |-> [t.lock_time EXCEPT ![0] = s],
                  unlock_time |-> [t.unlock_time EXCEPT ![0] = e]]
        IN  /\ WellFormed(w)
            /\ Cardinality(used(w)) = Cardinality(used(t)) + 1
            /\ reservations(w) = reservations(t) \cup {<<s, e>>}
            /\ \A i, j \in 1 .. (table_size - 1) : i < j => w.unlock_time[i] <= w.unlock_time[j]
    BY <1>3, <1>4, <1>5, <2>1, Inserted
  <2> QED BY <2>2 DEF e
<1> HIDE DEF u
<1>8. /\ last'.start = start /\ last'.wait = s - start /\ last'.duration = d
      /\ last'.wait \in Nat
  BY <1>2, <1>6
<1>9. TableInv'
  <2>1. WellFormed(table)'
    BY <1>2, <1>7 DEF WellFormed, used
  <2>2. SortedByFinish'
    BY <1>2, <1>7 DEF SortedByFinish
  <2>3. used(table)' = used(u) /\ table_entries' = Cardinality(used(u))
    BY <1>2, <1>5, <1>7 DEF used
  <2>4. TableTypeOK'
    BY <1>2, <1>7, <1>8, <2>3 DEF TableTypeOK, WellFormed
  <2> QED BY <2>1, <2>2, <2>4 DEF TableInv
<1>10. reservations(table') = {r \in reservations(table) : r[2] > start} \cup {<<s, s + d>>}
  BY <1>2, <1>3, <1>7
<1>11. last'.start + last'.wait = s /\ last'.start + last'.wait + last'.duration = s + d
  BY <1>6, <1>8
<1> QED BY <1>8, <1>9, <1>10, <1>11

\* A call that finds the table full leaves it empty.
LEMMA Lock2FullKeeps ==
  ASSUME TableInv, NEW start \in StartTimes, NEW d \in LockDurations, Lock2Full(start, d)
  PROVE  TableInv' /\ last'.ret # "SUCCESS"
<1>1. /\ (table \in Table)'
      /\ \A i \in Slot : table'.lock_time[i] = FREE /\ table'.unlock_time[i] = FREE
  BY DEF Lock2Full, Table
<1>2. used(table)' = {}
  BY <1>1 DEF used
<1>3. WellFormed(table)'
  BY <1>1, <1>2 DEF WellFormed
<1>4. table_entries' = 0 /\ last'.wait \in Nat /\ last'.ret # "SUCCESS"
  BY TableTimesAssumption DEF Lock2Full
<1>5. TableTypeOK'
  BY <1>1, <1>2, <1>4, FS_EmptySet DEF TableTypeOK
<1>6. SortedByFinish'
  <2>1. \A i \in 1 .. (table_size - 1) : i \in Slot
    BY SlotFacts
  <2> QED BY <1>1, <2>1 DEF SortedByFinish, FREE
<1> QED BY <1>3, <1>4, <1>5, <1>6 DEF TableInv

\* A successful call makes an event wait for the gap before the last reservation
\* only.
LEMMA Lock2Waits ==
  ASSUME TableInv, NEW start \in StartTimes, NEW d \in LockDurations, Lock2(start, d),
         NEW x \in last'.start .. (last'.start + last'.wait - 1),
         Room({r \in reservations(table) : r[2] > last'.start}, x, last'.duration)
  PROVE  LET R == {r \in reservations(table) : r[2] > last'.start}
         IN  \E r \in R : /\ R # {r} /\ x + last'.duration <= r[1]
                          /\ \A q \in R \ {r} : q[2] <= x
<1> DEFINE t == unlocked(table, start)
           s == sched_time2(t, start, d)
           R == {r \in reservations(table) : r[2] > start}
           z == table_size - 1
<1>1. start \in Nat /\ d \in Nat \ {0} /\ WellFormed(table)
  BY TableTimesAssumption DEF TableInv
<1>2. last'.start = start /\ last'.duration = d /\ last'.wait = s - start
  BY DEF Lock2
<1> HIDE DEF t
<1>3. /\ WellFormed(t) /\ Sorted(t, 0, table_size - 1)
      /\ reservations(t) = R
      /\ \A i \in used(t) : t.unlock_time[i] > start
  BY <1>1, Unlocked DEF t
<1> HIDE DEF R
<1>4. s \in Nat /\ s >= start
  BY <1>1, <1>3, SchedTime
<1>5. x \in Nat /\ start <= x /\ x < s
  <2> HIDE DEF s
  <2> QED BY <1>1, <1>2, <1>4
<1>6. Room(R, x, d)
  BY <1>2 DEF R
<1>7. \A i \in used(t) : <<t.lock_time[i], t.unlock_time[i]>> \in R
  BY <1>3 DEF reservations
<1>8. \A i \in used(t) : t.unlock_time[i] <= x \/ x + d <= t.lock_time[i]
  BY <1>6, <1>7 DEF Room
<1>9. /\ z \in used(t) /\ x + d <= t.lock_time[z]
      /\ \A i \in used(t) : i # z => t.unlock_time[i] <= x
      /\ \E i \in used(t) : i # z
  BY <1>1, <1>3, <1>5, <1>8, SoonerRoom
<1> HIDE DEF z, s
<1> DEFINE r == <<t.lock_time[z], t.unlock_time[z]>>
<1>10. r \in R /\ r[1] = t.lock_time[z] /\ r[2] = t.unlock_time[z]
  BY <1>7, <1>9
<1>11. ASSUME NEW i \in used(t), i # z
       PROVE  /\ t.unlock_time[i] <= x
              /\ <<t.lock_time[i], t.unlock_time[i]>> # r
  <2>1. t.unlock_time[i] <= x
    BY <1>9, <1>11
  <2>2. /\ t.unlock_time[i] \in Nat /\ t.lock_time[z] \in Nat /\ t.unlock_time[z] \in Nat
        /\ t.lock_time[z] < t.unlock_time[z]
    BY <1>3, <1>9, UsedEntries
  <2>3. t.unlock_time[i] # t.unlock_time[z]
    BY <1>1, <1>5, <1>9, <2>1, <2>2
  <2> QED BY <2>1, <2>3
<1>12. R # {r}
  BY <1>7, <1>9, <1>11
<1>13. ASSUME NEW q \in R, q # r PROVE q[2] <= x
  <2>1. PICK i \in used(t) : q = <<t.lock_time[i], t.unlock_time[i]>>
    BY <1>3 DEF reservations
  <2>2. i # z /\ q[2] = t.unlock_time[i]
    BY <1>13, <2>1
  <2> QED BY <1>11, <2>2
<1> HIDE DEF r
<1>14. /\ r \in R /\ R # {r} /\ x + d <= r[1]
       /\ \A q \in R \ {r} : q[2] <= x
  BY <1>9, <1>10, <1>12, <1>13
<1> QED BY <1>2, <1>14 DEF R

LEMMA TableNextInv == TableInv /\ [TableNext]_table_vars => TableInv'
<1> SUFFICES ASSUME TableInv, [TableNext]_table_vars PROVE TableInv'
  OBVIOUS
<1>1. ASSUME NEW start \in StartTimes, NEW d \in LockDurations,
             Lock2(start, d) \/ Lock2Full(start, d)
      PROVE  TableInv'
  BY <1>1, Lock2Keeps, Lock2FullKeeps
<1>2. CASE UNCHANGED table_vars
  BY <1>2 DEF table_vars, TableInv, TableTypeOK, WellFormed, SortedByFinish, used
<1> QED BY <1>1, <1>2 DEF TableNext

LEMMA TableInvariant == TableSpec => []TableInv
<1> QED BY TableInitInv, TableNextInv, PTL DEF TableSpec

\* ssd_channel_lock2 keeps its table well formed and its count right.
THEOREM TableTypeCorrect == TableSpec => []TableTypeOK
<1>1. TableInv => TableTypeOK
  BY DEF TableInv
<1> QED BY <1>1, TableInvariant, PTL

\* The reservations in the table of ssd_channel_lock2 never overlap, whatever
\* the order of the start times.
THEOREM TableReservationsDisjoint == TableSpec => []SlotsDisjoint
<1>1. TableInv => SlotsDisjoint
  BY DEF TableInv, WellFormed, SlotsDisjoint
<1> QED BY <1>1, TableInvariant, PTL

\* The table that ssd_channel_unlock sorts by lock times is sorted by finish
\* times as well, as its comment has it, but for slot 0, which lock2 fills.
THEOREM TableSortedByFinish == TableSpec => []SortedByFinish
<1>1. TableInv => SortedByFinish
  BY DEF TableInv
<1> QED BY <1>1, TableInvariant, PTL

\* After a successful call the table holds the reservations that had not
\* expired, the new one, and nothing else.
THEOREM ReservationsKept == TableSpec => KeepsReservations
<1> DEFINE Kept == last'.ret = "SUCCESS" =>
                     reservations(table') =
                       {r \in reservations(table) : r[2] > last'.start} \cup
                       {<<last'.start + last'.wait,
                          last'.start + last'.wait + last'.duration>>}
<1>1. TableInv /\ [TableNext]_table_vars => [Kept]_table_vars
  <2> SUFFICES ASSUME TableInv, TableNext PROVE Kept
    OBVIOUS
  <2>1. PICK start \in StartTimes, d \in LockDurations : Lock2(start, d) \/ Lock2Full(start, d)
    BY DEF TableNext
  <2> QED BY <2>1, Lock2Keeps, Lock2FullKeeps
<1> QED BY <1>1, TableInvariant, PTL DEF TableSpec, KeepsReservations

\* An event sent over the channel is made to wait longer than it must in one case:
\* ssd_channel_lock2 does not look at the gap before the last reservation.
THEOREM OnlyLastGapMissed == TableSpec => WaitsForLastGapOnly
<1> DEFINE Waits ==
             last'.ret = "SUCCESS" =>
               LET R == {r \in reservations(table) : r[2] > last'.start}
                   d == last'.duration
               IN  \A s \in last'.start .. (last'.start + last'.wait - 1) :
                     Room(R, s, d) =>
                       \E r \in R : /\ R # {r} /\ s + d <= r[1]
                                    /\ \A q \in R \ {r} : q[2] <= s
<1>1. TableInv /\ [TableNext]_table_vars => [Waits]_table_vars
  <2> SUFFICES ASSUME TableInv, TableNext, last'.ret = "SUCCESS" PROVE Waits
    OBVIOUS
  <2>1. PICK start \in StartTimes, d \in LockDurations : Lock2(start, d) \/ Lock2Full(start, d)
    BY DEF TableNext
  <2>2. Lock2(start, d)
    BY <2>1, Lock2FullKeeps
  <2> QED BY <2>2, Lock2Waits
<1> QED BY <1>1, TableInvariant, PTL DEF TableSpec, WaitsForLastGapOnly
===============================================================================
