---------------------------- MODULE CompletionQueue ----------------------------
(***************************************************************************)
(* How the driver ends requests (brd.c): do_request on several CPUs puts  *)
(* each simulated request on a queue sorted by the time at which it is    *)
(* due, and handle_queue, called by do_request and by two high-resolution *)
(* timers, ends those whose time has come.                                *)
(*                                                                         *)
(* A step is a section of code that no other context can see inside: one  *)
(* under queuelock, or one between two accesses of shared state.  rq_lock *)
(* is the request queue's own lock, which __blk_end_request_all needs.    *)
(* The block layer (which calls do_request with rq_lock held and owns     *)
(* unfetched requests) and the hrtimer core are external.                 *)
(***************************************************************************)
EXTENDS Integers, Sequences, FiniteSets

CONSTANTS Cpu,                 \* contexts that run do_request
          Requests,
          BadRequests,         \* those beyond the disk's capacity
          Latencies,           \* simulated service times
          KmallocFails,        \* whether kmalloc may return NULL
          Timeout,             \* DEFAULT_TIMEOUT, the second timer's period
          MaxTime              \* bound on the clock: all later times are equal

ASSUME BadRequestsAssumption == BadRequests \subseteq Requests
ASSUME LatenciesAssumption   == Latencies \subseteq Nat
ASSUME KmallocAssumption     == KmallocFails \in BOOLEAN
ASSUME TimeoutAssumption     == Timeout \in Nat \ {0}
ASSUME CqMaxTimeAssumption   == MaxTime \in Nat

Timer   == {"timer", "timer2"}     \* hrtimer_callback and hrtimer_callback2
Context == Cpu \cup Timer
Time    == 0 .. MaxTime

ASSUME CpuAssumption == Cpu \cap Timer = {}

Entry == [req : Requests, ktime : Time]     \* struct bio_queue

cap(t) == IF t > MaxTime THEN MaxTime ELSE t

VARIABLES now,      \* the monotonic clock
          rq_lock,  \* the set holding the lock's owner, if any
          pending,  \* requests submitted to the block layer and not fetched
          queue,    \* brd->queue, without its list head
          pc,       \* where each context is
          clock,    \* per context: the time handle_queue compares with
          done,     \* per context: the list handle_queue took off the queue
          req,      \* per CPU: the set holding the fetched request, if any
          uptime,   \* per CPU: when the simulation of its request started
          head,     \* per timer: the entry its callback has a pointer to
          timer,    \* per timer: the hrtimer
          ended,    \* requests returned to the block layer
          lost      \* requests that no one will ever end

vars == <<now, rq_lock, pending, queue, pc, clock, done, req, uptime, head,
          timer, ended, lost>>

cpu_pc   == {"out", "fetch", "pop", "end", "io", "early", "add", "relock", "stuck"}
timer_pc == {"off", "pop", "end", "peek", "reread", "deref", "norestart", "oops"}

Init ==
  /\ now = 0
  /\ rq_lock = {}
  /\ pending = {}
  /\ queue = <<>>
  /\ pc = [x \in Context |-> IF x \in Cpu THEN "out" ELSE "off"]
  /\ clock = [x \in Context |-> 0]
  /\ done = [x \in Context |-> <<>>]
  /\ req = [c \in Cpu |-> {}]
  /\ uptime = [c \in Cpu |-> 0]
  /\ head = [t \in Timer |-> {}]
  /\ timer = [t \in Timer |-> [state   |-> IF t = "timer2" THEN "enqueued" ELSE "inactive",
                               expires |-> cap(1)]]
  /\ ended = {}
  /\ lost = {}

goto(x, label) == pc' = [pc EXCEPT ![x] = label]
-------------------------------------------------------------------------------
(* Time, and the block layer.                                              *)

Tick ==
  /\ now < MaxTime
  /\ now' = now + 1
  /\ UNCHANGED <<rq_lock, pending, queue, pc, clock, done, req, uptime, head,
                 timer, ended, lost>>

unknown ==
  {r \in Requests \ (pending \cup ended \cup lost) :
     /\ \A c \in Cpu : r \notin req[c]
     /\ \A i \in 1 .. Len(queue) : queue[i].req # r
     /\ \A x \in Context : \A i \in 1 .. Len(done[x]) : done[x][i].req # r}

Submit(r) ==
  /\ r \in unknown
  /\ pending' = pending \cup {r}
  /\ UNCHANGED <<now, rq_lock, queue, pc, clock, done, req, uptime, head,
                 timer, ended, lost>>

\* The block layer takes the queue lock and calls do_request.
Enter(c) ==
  /\ pc[c] = "out" /\ pending # {}
  /\ rq_lock = {}
  /\ rq_lock' = {c}
  /\ goto(c, "fetch")
  /\ UNCHANGED <<now, pending, queue, clock, done, req, uptime, head, timer, ended, lost>>

\* blk_fetch_request finds nothing: do_request returns, its caller unlocks.
Return(c) ==
  /\ pc[c] = "fetch" /\ pending = {}
  /\ rq_lock' = {}
  /\ goto(c, "out")
  /\ UNCHANGED <<now, pending, queue, clock, done, req, uptime, head, timer, ended, lost>>

\* A request is fetched; handle_queue reads the clock before it takes queuelock.
Fetch(c, r) ==
  /\ pc[c] = "fetch" /\ r \in pending \ BadRequests
  /\ pending' = pending \ {r}
  /\ req' = [req EXCEPT ![c] = {r}]
  /\ clock' = [clock EXCEPT ![c] = now]
  /\ goto(c, "pop")
  /\ UNCHANGED <<now, rq_lock, queue, done, uptime, head, timer, ended, lost>>

\* A request beyond the capacity is ended with blk_end_request, which takes the
\* queue lock that this CPU is holding: it spins for ever.
FetchBad(c, r) ==
  /\ pc[c] = "fetch" /\ r \in pending \cap BadRequests
  /\ pending' = pending \ {r}
  /\ lost' = lost \cup {r}
  /\ goto(c, "stuck")
  /\ UNCHANGED <<now, rq_lock, queue, clock, done, req, uptime, head, timer, ended>>
-------------------------------------------------------------------------------
(* handle_queue.                                                           *)

\* (mutant of due_count) an entry that is not yet due is taken as well.
due_count_plus(t) ==
  Cardinality({i \in 1 .. Len(queue) : i = 1 \/ queue[i - 1].ktime <= t})

\* How many entries the loop takes: it stops at the first that is not due.
due_count(t) ==
  Cardinality({i \in 1 .. Len(queue) : \A j \in 1 .. i : queue[j].ktime <= t})

\* (mutant of HandleQueuePop) the entries are ended but stay on the queue.
HandleQueueCopy(x) ==
  /\ pc[x] = "pop"
  /\ LET n == due_count(clock[x])
     IN  done' = [done EXCEPT ![x] = [i \in 1 .. n |-> queue[n + 1 - i]]]
  /\ clock' = [clock EXCEPT ![x] = 0]
  /\ goto(x, "end")
  /\ UNCHANGED <<now, rq_lock, pending, queue, req, uptime, head, timer, ended, lost>>

\* Under queuelock: move the due entries, the last one first, to a list.  (A
\* local that is no longer used is set back to 0, here and below.)
HandleQueuePop(x) ==
  /\ pc[x] = "pop"
  /\ LET n == due_count(clock[x])
     IN  /\ done' = [done EXCEPT ![x] = [i \in 1 .. n |-> queue[n + 1 - i]]]
         /\ queue' = SubSeq(queue, n + 1, Len(queue))
  /\ clock' = [clock EXCEPT ![x] = 0]
  /\ goto(x, "end")
  /\ UNCHANGED <<now, rq_lock, pending, req, uptime, head, timer, ended, lost>>

\* __blk_end_request_all for the first entry of the list, and kfree.
HandleQueueEnd(x) ==
  /\ pc[x] = "end" /\ done[x] # <<>>
  /\ ended' = ended \cup {Head(done[x]).req}
  /\ done' = [done EXCEPT ![x] = Tail(@)]
  /\ UNCHANGED <<now, rq_lock, pending, queue, pc, clock, req, uptime, head, timer, lost>>

\* (mutant of HandleQueueReturn) a callback forgets to unlock.
HandleQueueReturnLocked(x) ==
  /\ pc[x] = "end" /\ done[x] = <<>>
  /\ rq_lock' = IF x \in Cpu THEN {} ELSE rq_lock
  /\ goto(x, IF x \in Cpu THEN "io" ELSE "peek")
  /\ UNCHANGED <<now, pending, queue, clock, done, req, uptime, head, timer, ended, lost>>

\* The list is empty: handle_queue returns and its caller unlocks rq_lock.
HandleQueueReturn(x) ==
  /\ pc[x] = "end" /\ done[x] = <<>>
  /\ rq_lock' = {}
  /\ goto(x, IF x \in Cpu THEN "io" ELSE "peek")
  /\ UNCHANGED <<now, pending, queue, clock, done, req, uptime, head, timer, ended, lost>>
-------------------------------------------------------------------------------
(* The hrtimer core, and reset_timer.                                      *)

\* my_ktime_sub: a time that has passed is 101 ns away, one unit of this clock.
interval_to(t) == IF t > now THEN t - now ELSE 1

\* hrtimer_forward_now: the first expiry after now, in steps of interval; a
\* timer that has not expired is left alone.
forward_now(h, interval) ==
  IF now < h.expires THEN h
  ELSE [h EXCEPT !.expires =
          cap(@ + ((now - @) \div interval + 1) * interval)]

\* reset_timer as add_io_timer calls it, with the queue's new head due at t: a
\* timer that is waiting is not brought forward.
reset_timer(t) ==
  LET h == timer["timer"]
  IN  timer' = [timer EXCEPT !["timer"] =
        CASE h.state = "inactive" -> [state |-> "enqueued",
                                      expires |-> cap(now + interval_to(t))]
          [] h.state = "callback" -> forward_now(h, interval_to(t))
          [] OTHER -> h]

\* (mutant of Fire) the callback goes on without the lock it failed to get.
FireUnlocked(t) ==
  /\ timer[t].state = "enqueued" /\ timer[t].expires <= now
  /\ timer' = [timer EXCEPT ![t].state = "callback"]
  /\ rq_lock' = IF rq_lock = {} THEN {t} ELSE rq_lock
  /\ clock' = [clock EXCEPT ![t] = now]
  /\ goto(t, "pop")
  /\ UNCHANGED <<now, pending, queue, done, req, uptime, head, ended, lost>>

\* The timer expires and its callback runs: spin_trylock, and, if it gets the
\* lock, handle_queue; if not, on to the timer at once.
Fire(t) ==
  /\ timer[t].state = "enqueued" /\ timer[t].expires <= now
  /\ timer' = [timer EXCEPT ![t].state = "callback"]
  /\ IF rq_lock = {}
     THEN /\ rq_lock' = {t}
          /\ clock' = [clock EXCEPT ![t] = now]
          /\ goto(t, "pop")
     ELSE goto(t, "peek") /\ UNCHANGED <<rq_lock, clock>>
  /\ UNCHANGED <<now, pending, queue, done, req, uptime, head, ended, lost>>

\* The callback of t returns HRTIMER_RESTART with the timer as h.
restart(t, h) ==
  /\ timer' = [timer EXCEPT ![t] = [h EXCEPT !.state = "enqueued"]]
  /\ goto(t, "off")

\* (mutant of PeekEmpty) the second timer stops as the first one does.
PeekEmptyStops(t) ==
  /\ pc[t] = "peek" /\ queue = <<>>
  /\ goto(t, "norestart")
  /\ UNCHANGED <<now, rq_lock, pending, queue, clock, done, req, uptime, head,
                 timer, ended, lost>>

\* Without any lock: is there a head of the queue?  The first timer stops if
\* there is none, the second takes its default period.
PeekEmpty(t) ==
  /\ pc[t] = "peek" /\ queue = <<>>
  /\ IF t = "timer" THEN goto(t, "norestart") /\ UNCHANGED timer
                    ELSE restart(t, forward_now(timer[t], Timeout))
  /\ UNCHANGED <<now, rq_lock, pending, queue, clock, done, req, uptime, head, ended, lost>>

PeekHead(t) ==
  /\ pc[t] = "peek" /\ queue # <<>>
  /\ goto(t, "reread")
  /\ UNCHANGED <<now, rq_lock, pending, queue, clock, done, req, uptime, head,
                 timer, ended, lost>>

\* There was a head: brd->queue.next is read once more, for the entry that is the
\* head by now.  (A build that keeps the first value reads both at one moment.)
ReadHead(t) ==
  /\ pc[t] = "reread" /\ queue # <<>>
  /\ head' = [head EXCEPT ![t] = {Head(queue)}]
  /\ goto(t, "deref")
  /\ UNCHANGED <<now, rq_lock, pending, queue, clock, done, req, uptime, timer, ended, lost>>

\* Another context has emptied the queue in between: the ktime is read through a
\* NULL pointer.  The callback never returns, so its timer never expires again.
ReadNull(t) ==
  /\ pc[t] = "reread" /\ queue = <<>>
  /\ goto(t, "oops")
  /\ UNCHANGED <<now, rq_lock, pending, queue, clock, done, req, uptime, head,
                 timer, ended, lost>>

\* Whether an entry's memory is still that entry: not freed by HandleQueueEnd.
allocated(e) ==
  \/ \E i \in 1 .. Len(queue) : queue[i] = e
  \/ \E x \in Context : \E i \in 1 .. Len(done[x]) : done[x][i] = e

\* The ktime behind the pointer is read, and the timer set to it.  If the entry
\* has been freed since, the memory holds any time.
Deref(t) ==
  /\ pc[t] = "deref"
  /\ \E e \in head[t] : \E k \in IF allocated(e) THEN {e.ktime} ELSE Time :
        restart(t, forward_now(timer[t], interval_to(k)))
  /\ head' = [head EXCEPT ![t] = {}]
  /\ UNCHANGED <<now, rq_lock, pending, queue, clock, done, req, uptime, ended, lost>>

\* The callback has returned HRTIMER_NORESTART, whatever happened since.
NoRestart(t) ==
  /\ pc[t] = "norestart"
  /\ timer' = [timer EXCEPT ![t].state = "inactive"]
  /\ goto(t, "off")
  /\ UNCHANGED <<now, rq_lock, pending, queue, clock, done, req, uptime, head, ended, lost>>
-------------------------------------------------------------------------------
(* The rest of do_request, without rq_lock.                                *)

\* The data has been copied and the simulation starts; or the copy failed or
\* the request is one sector long, and it is to be ended without simulation.
Io(c) ==
  /\ pc[c] = "io"
  /\ \/ goto(c, "early") /\ UNCHANGED uptime
     \/ goto(c, "add") /\ uptime' = [uptime EXCEPT ![c] = now]
  /\ UNCHANGED <<now, rq_lock, pending, queue, clock, done, req, head, timer, ended, lost>>

\* blk_end_request: takes the queue lock for itself.
EndEarly(c) ==
  /\ pc[c] = "early" /\ rq_lock = {}
  /\ ended' = ended \cup req[c]
  /\ req' = [req EXCEPT ![c] = {}]
  /\ goto(c, "relock")
  /\ UNCHANGED <<now, rq_lock, pending, queue, clock, done, uptime, head, timer, lost>>

\* (mutant of insert) new entries go to the end of the queue.
insert_last(q, e) == Append(q, e)

\* add_to_queue: before the first entry that is due later.
insert(q, e) ==
  LET n == Cardinality({i \in 1 .. Len(q) : \A j \in 1 .. i : q[j].ktime <= e.ktime})
  IN  SubSeq(q, 1, n) \o <<e>> \o SubSeq(q, n + 1, Len(q))

\* add_io_timer, under queuelock: the request is due latency after its uptime.
AddIoTimer(c, latency) ==
  /\ pc[c] = "add"
  /\ \E r \in req[c] :
       queue' = insert(queue, [req |-> r, ktime |-> cap(uptime[c] + latency)])
  /\ reset_timer(Head(queue').ktime)
  /\ req' = [req EXCEPT ![c] = {}]
  /\ uptime' = [uptime EXCEPT ![c] = 0]
  /\ goto(c, "relock")
  /\ UNCHANGED <<now, rq_lock, pending, clock, done, head, ended, lost>>

\* kmalloc fails: add_io_timer returns -1, which do_request does not look at.
AddIoTimerFails(c) ==
  /\ pc[c] = "add" /\ KmallocFails
  /\ lost' = lost \cup req[c]
  /\ req' = [req EXCEPT ![c] = {}]
  /\ uptime' = [uptime EXCEPT ![c] = 0]
  /\ goto(c, "relock")
  /\ UNCHANGED <<now, rq_lock, pending, queue, clock, done, head, timer, ended>>

\* (mutant of Relock) the lock is taken without waiting for it.
RelockAnyway(c) ==
  /\ pc[c] = "relock"
  /\ rq_lock' = {c}
  /\ goto(c, "fetch")
  /\ UNCHANGED <<now, pending, queue, clock, done, req, uptime, head, timer, ended, lost>>

\* spin_lock(&rq_lock), and back to repeat.
Relock(c) ==
  /\ pc[c] = "relock" /\ rq_lock = {}
  /\ rq_lock' = {c}
  /\ goto(c, "fetch")
  /\ UNCHANGED <<now, pending, queue, clock, done, req, uptime, head, timer, ended, lost>>
-------------------------------------------------------------------------------
HandleQueue(x) == HandleQueuePop(x) \/ HandleQueueEnd(x) \/ HandleQueueReturn(x)

\* The steps a CPU takes on its own, and those for which it needs the lock.
CpuRuns(c) ==
  \/ Return(c) \/ HandleQueue(c) \/ Io(c) \/ AddIoTimerFails(c)
  \/ \E r \in Requests : Fetch(c, r) \/ FetchBad(c, r)
  \/ \E l \in Latencies : AddIoTimer(c, l)
CpuLocks(c) == Enter(c) \/ EndEarly(c) \/ Relock(c)

TimerRuns(t) ==
  \/ Fire(t) \/ HandleQueue(t)
  \/ PeekEmpty(t) \/ PeekHead(t) \/ ReadHead(t) \/ ReadNull(t) \/ Deref(t)
  \/ NoRestart(t)

Next ==
  \/ Tick
  \/ \E r \in Requests : Submit(r)
  \/ \E c \in Cpu : CpuRuns(c) \/ CpuLocks(c)
  \/ \E t \in Timer : TimerRuns(t)

Spec == Init /\ [][Next]_vars

\* The clock advances, a running CPU and a due timer run, and a CPU that spins
\* on the queue lock gets it: the kernel's spin locks are first come first served.
Fairness ==
  /\ WF_vars(Tick)
  /\ \A c \in Cpu : WF_vars(CpuRuns(c)) /\ SF_vars(CpuLocks(c))
  /\ \A t \in Timer : WF_vars(TimerRuns(t))

FairSpec == Spec /\ Fairness
-------------------------------------------------------------------------------
\* Everything is in its range, the second timer is always armed or running, and
\* the lock's owner is the one context in a section that holds it.
TypeOK ==
  /\ now \in Time
  /\ queue \in Seq(Entry)
  /\ pc \in [Context -> cpu_pc \cup timer_pc]
  /\ clock \in [Context -> Time]
  /\ done \in [Context -> Seq(Entry)]
  /\ req \in [Cpu -> SUBSET Requests]
  /\ uptime \in [Cpu -> Time]
  /\ head \in [Timer -> SUBSET Entry]
  /\ timer \in [Timer -> [state : {"inactive", "enqueued", "callback"}, expires : Time]]
  /\ timer["timer2"].state # "inactive"
  /\ {pending, ended, lost} \subseteq SUBSET Requests
  /\ rq_lock = {x \in Context : pc[x] \in {"fetch", "pop", "end", "stuck"}}

entries_of(q, r) == {i \in 1 .. Len(q) : q[i].req = r}

\* The places that hold request r: a set or list, whose it is, and the position.
places(r) ==
       (IF r \in pending THEN {<<"pending", "", 0>>} ELSE {})
  \cup (IF r \in ended THEN {<<"ended", "", 0>>} ELSE {})
  \cup (IF r \in lost THEN {<<"lost", "", 0>>} ELSE {})
  \cup {<<"fetched", c, 0>> : c \in {c \in Cpu : r \in req[c]}}
  \cup {<<"queued", "", i>> : i \in entries_of(queue, r)}
  \cup UNION {{<<"done", x, i>> : i \in entries_of(done[x], r)} : x \in Context}

\* A request has one owner at any moment: with do_request on every CPU and two
\* timer callbacks taking entries off one queue, none is ended twice, ended while
\* still queued, or queued twice.
OneOwner == \A r \in Requests : \A p, q \in places(r) : p = q

\* No request is ended before its simulated time: what handle_queue is about to
\* end is due by the clock, even though it was compared with an older reading.
NeverEarly ==
  \A x \in Context : \A i \in 1 .. Len(done[x]) : done[x][i].ktime <= now

\* __blk_end_request_all needs the queue lock: whoever has entries to end is the
\* owner of rq_lock, in do_request and in both callbacks.
EndsUnderLock == \A x \in Context : done[x] # <<>> => rq_lock = {x}

\* handle_queue leaves nothing behind that was due: it stops at the first entry
\* that is not, which is right as long as the queue is sorted.
TakesAllDue ==
  [][\A x \in Context :
       (pc[x] = "pop" /\ pc'[x] = "end") =>
         \A i \in 1 .. Len(queue') : queue'[i].ktime > clock[x]]_vars

\* Every request given to the driver is ended, unless the second timer's callback
\* has gone through a NULL pointer.  The first timer can miss a new head of the
\* queue (it is not brought forward, and an entry added while its callback is
\* stopping does not restart it) or crash; the second timer makes up for both.
EveryRequestEnds ==
  \A r \in Requests : r \in pending ~> (r \in ended \/ pc["timer2"] = "oops")

\* do_request always returns to the block layer.
DoRequestReturns == \A c \in Cpu : pc[c] # "out" ~> pc[c] = "out"
===============================================================================
