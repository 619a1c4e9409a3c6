---------------------------- MODULE CompletionProofs ----------------------------
(***************************************************************************)
(* Proofs about CompletionQueue, for any CPUs, requests, latencies and    *)
(* times.  The inductive invariant adds to the checked ones that the      *)
(* queue is sorted, that the clock readings in use are past, that at most *)
(* one context is in a section that holds the queue lock, and where each  *)
(* timer's callback is.                                                   *)
(***************************************************************************)
EXTENDS CompletionQueue, FiniteSetTheorems, SequenceTheorems, TLAPS

\* Where a context holds the queue lock.
Inside == {"fetch", "pop", "end", "stuck"}

\* The values of an hrtimer.
Hrtimer == [state : {"inactive", "enqueued", "callback"}, expires : Time]

\* A CPU is in do_request and a timer in its callback, which runs exactly while
\* the hrtimer core says so; the second timer's callback never stops it; and
\* one context at most holds the queue lock.
Control ==
  /\ \A c \in Cpu : pc[c] \in cpu_pc
  /\ \A t \in Timer : /\ pc[t] \in timer_pc
                      /\ timer[t].state = "callback" <=> pc[t] # "off"
  /\ pc["timer2"] # "norestart"
  /\ \A x, y \in Context : (pc[x] \in Inside /\ pc[y] \in Inside) => x = y

\* Only handle_queue has entries to end.
DoneInHandleQueue == \A x \in Context : done[x] # <<>> => pc[x] = "end"

\* A reading of the clock is not in the future.
ReadingsPast == \A x \in Context : clock[x] <= now

\* add_to_queue keeps the queue in the order of the times.
Sorted == \A i, j \in 1 .. Len(queue) : i <= j => queue[i].ktime <= queue[j].ktime

\* The requests that no one works on, and those that a CPU has fetched.
Settled == pending \cup ended \cup lost
Fetched == UNION {req[c] : c \in Cpu}

\* Ownership, place by place: the request of an entry is nowhere else.
AloneInQueue(i) ==
  /\ queue[i].req \notin Settled /\ queue[i].req \notin Fetched
  /\ \A j \in 1 .. Len(queue) : queue[j].req = queue[i].req => j = i

AloneInDone(x, i) ==
  /\ done[x][i].req \notin Settled /\ done[x][i].req \notin Fetched
  /\ \A j \in 1 .. Len(queue) : queue[j].req # done[x][i].req
  /\ \A y \in Context : \A j \in 1 .. Len(done[y]) :
       done[y][j].req = done[x][i].req => (y = x /\ j = i)

Disjoint ==
  /\ pending \cap ended = {} /\ pending \cap lost = {} /\ ended \cap lost = {}
  /\ Fetched \cap Settled = {}
  /\ \A c, d \in Cpu : c # d => req[c] \cap req[d] = {}
  /\ \A i \in 1 .. Len(queue) : AloneInQueue(i)
  /\ \A x \in Context : \A i \in 1 .. Len(done[x]) : AloneInDone(x, i)

IInv ==
  /\ TypeOK
  /\ Control
  /\ DoneInHandleQueue
  /\ ReadingsPast
  /\ Sorted
  /\ NeverEarly
  /\ Disjoint
-------------------------------------------------------------------------------
\* cap keeps a time within the bound.
LEMMA CapTime == ASSUME NEW t \in Nat PROVE cap(t) \in Time
  BY CqMaxTimeAssumption DEF cap, Time

\* The time my_ktime_sub answers is positive.
LEMMA IntervalPositive ==
  ASSUME now \in Time, NEW t \in Time PROVE interval_to(t) \in Nat \ {0}
  BY CqMaxTimeAssumption DEF interval_to, Time

\* hrtimer_forward_now leaves a timer a timer, in the state it was.
LEMMA ForwardNow ==
  ASSUME now \in Time, NEW i \in Nat \ {0},
         NEW h \in Hrtimer
  PROVE  /\ forward_now(h, i) \in Hrtimer
         /\ forward_now(h, i).state = h.state
<1>1. CASE now < h.expires
  BY <1>1 DEF forward_now
<1>2. CASE ~(now < h.expires)
  <2>1. now - h.expires \in Nat /\ h.expires \in Nat
    BY <1>2, CqMaxTimeAssumption DEF Time, Hrtimer
  <2>2. (now - h.expires) \div i \in Nat
    BY <2>1
  <2>3. ((now - h.expires) \div i + 1) * i \in Nat
    BY <2>2
  <2>4. h.expires + ((now - h.expires) \div i + 1) * i \in Nat
    BY <2>1, <2>3
  <2> QED
    BY <1>2, <2>4, CapTime DEF forward_now, Hrtimer
<1> QED BY <1>1, <1>2

\* A set of positions that holds with a position all those before it is the set
\* of the first ones, as many as it has.
LEMMA FirstPositions ==
  ASSUME NEW n \in Nat, NEW S \in SUBSET (1 .. n),
         \A i \in S : \A j \in 1 .. i : j \in S
  PROVE  Cardinality(S) \in 0 .. n /\ S = 1 .. Cardinality(S)
<1>1. IsFiniteSet(1 .. n) /\ Cardinality(1 .. n) = n
  BY FS_Interval
<1>2. IsFiniteSet(S) /\ Cardinality(S) <= n
  <2> DEFINE I == 1 .. n
  <2>1. IsFiniteSet(I) /\ Cardinality(I) = n /\ S \in SUBSET I
    BY <1>1
  <2> HIDE DEF I
  <2> QED BY <2>1, FS_Subset
<1>3. Cardinality(S) \in Nat
  BY <1>2, FS_CardinalityType
<1>4. ASSUME NEW i \in S PROVE i <= Cardinality(S)
  <2>1. IsFiniteSet(1 .. i) /\ Cardinality(1 .. i) = i
    BY FS_Interval
  <2>2. 1 .. i \in SUBSET S
    OBVIOUS
  <2> QED BY <1>2, <2>1, <2>2, FS_Subset
<1>5. S \in SUBSET (1 .. Cardinality(S))
  BY <1>3, <1>4
<1>6. /\ IsFiniteSet(1 .. Cardinality(S))
      /\ Cardinality(1 .. Cardinality(S)) = Cardinality(S)
  BY <1>3, FS_Interval
<1>7. S = 1 .. Cardinality(S)
  <2> DEFINE I == 1 .. Cardinality(S)
  <2>1. IsFiniteSet(I) /\ Cardinality(I) = Cardinality(S) /\ S \in SUBSET I
    BY <1>5, <1>6
  <2> HIDE DEF I
  <2>2. I = S
    BY <2>1, FS_Subset
  <2> QED BY <2>2 DEF I
<1> QED BY <1>2, <1>3, <1>7

\* The loops of handle_queue and add_to_queue, which stop at the first entry due
\* later than t, pass over the entries up to some position and no other.
LEMMA DuePrefix ==
  ASSUME NEW q \in Seq(Entry), NEW t \in Int
  PROVE  LET n == Cardinality({i \in 1 .. Len(q) : \A j \in 1 .. i : q[j].ktime <= t})
         IN  /\ n \in 0 .. Len(q)
             /\ \A i \in 1 .. n : q[i].ktime <= t
             /\ n < Len(q) => \E j \in 1 .. n + 1 : ~(q[j].ktime <= t)
<1> DEFINE S == {i \in 1 .. Len(q) : \A j \in 1 .. i : q[j].ktime <= t}
<1>1. Len(q) \in Nat /\ S \in SUBSET (1 .. Len(q))
  OBVIOUS
<1>2. \A i \in S : \A j \in 1 .. i : j \in S
  OBVIOUS
<1>3. Cardinality(S) \in 0 .. Len(q) /\ S = 1 .. Cardinality(S)
  BY <1>1, <1>2, FirstPositions
<1>4. \A i \in 1 .. Cardinality(S) : q[i].ktime <= t
  <2>1. ASSUME NEW i \in S PROVE q[i].ktime <= t
    OBVIOUS
  <2> QED BY <1>3, <2>1
<1>5. ASSUME Cardinality(S) < Len(q)
      PROVE  \E j \in 1 .. Cardinality(S) + 1 : ~(q[j].ktime <= t)
  <2> DEFINE n == Cardinality(S)
  <2>1. n + 1 \in 1 .. Len(q) /\ n + 1 \notin S
    <3> HIDE DEF S
    <3> QED BY <1>1, <1>3, <1>5
  <2>2. ~ \A j \in 1 .. n + 1 : q[j].ktime <= t
    <3> HIDE DEF n
    <3> QED BY <2>1
  <2> QED BY <2>2
<1> HIDE DEF S
<1>6. /\ Cardinality(S) \in 0 .. Len(q)
      /\ \A i \in 1 .. Cardinality(S) : q[i].ktime <= t
      /\ Cardinality(S) < Len(q) => \E j \in 1 .. Cardinality(S) + 1 : ~(q[j].ktime <= t)
  BY <1>3, <1>4, <1>5
<1> QED BY <1>6 DEF S

\* An entry of a list is a request with a time.
LEMMA EntryAt ==
  ASSUME NEW q \in Seq(Entry), NEW i \in 1 .. Len(q)
  PROVE  q[i] \in Entry /\ q[i].req \in Requests /\ q[i].ktime \in Time /\ q[i].ktime \in Int
<1>1. q[i] \in Entry
  BY ElementOfSeq
<1> QED BY <1>1, CqMaxTimeAssumption DEF Entry, Time

\* The entries that handle_queue takes, the last due one first, and those it
\* leaves: the queue is sorted, so none of these is due.
LEMMA PoppedEntries ==
  ASSUME TypeOK, NEW x \in Context
  PROVE  LET n    == due_count(clock[x])
             took == [i \in 1 .. n |-> queue[n + 1 - i]]
             left == SubSeq(queue, n + 1, Len(queue))
         IN  /\ n \in 0 .. Len(queue)
             /\ took \in Seq(Entry) /\ Len(took) = n
             /\ left \in Seq(Entry) /\ Len(left) = Len(queue) - n
             /\ \A i \in 1 .. n : took[i].ktime <= clock[x]
             /\ \A i \in 1 .. Len(left) : left[i] = queue[n + i]
             /\ Sorted => \A i \in 1 .. Len(left) : left[i].ktime > clock[x]
<1> DEFINE n    == due_count(clock[x])
           took == [i \in 1 .. n |-> queue[n + 1 - i]]
           left == SubSeq(queue, n + 1, Len(queue))
<1>1. queue \in Seq(Entry) /\ clock[x] \in Int /\ Len(queue) \in Nat
  BY CqMaxTimeAssumption DEF TypeOK, Time
<1>2. /\ n \in 0 .. Len(queue)
      /\ \A i \in 1 .. n : queue[i].ktime <= clock[x]
      /\ n < Len(queue) => \E j \in 1 .. n + 1 : ~(queue[j].ktime <= clock[x])
  BY <1>1, DuePrefix DEF due_count
<1> HIDE DEF n
<1>3. took \in Seq(Entry) /\ Len(took) = n
  BY <1>1, <1>2
<1>4. \A i \in 1 .. n : took[i].ktime <= clock[x]
  <2>1. \A i \in 1 .. n : n + 1 - i \in 1 .. n
    BY <1>2
  <2> QED BY <1>2, <2>1
<1>5. /\ left \in Seq(Entry) /\ Len(left) = Len(queue) - n
      /\ \A i \in 1 .. Len(left) : left[i] = queue[n + i]
  BY <1>1, <1>2
<1>6. ASSUME Sorted, NEW i \in 1 .. Len(left) PROVE left[i].ktime > clock[x]
  <2>1. n + i \in 1 .. Len(queue) /\ left[i] = queue[n + i] /\ n < Len(queue)
    BY <1>1, <1>2, <1>5
  <2>2. PICK j \in 1 .. n + 1 : ~(queue[j].ktime <= clock[x])
    BY <1>2, <2>1
  <2>3. j \in 1 .. Len(queue) /\ j <= n + i
    BY <1>2, <2>1
  <2>4. queue[j].ktime <= queue[n + i].ktime
    BY <1>6, <2>1, <2>3 DEF Sorted
  <2>5. queue[j].ktime \in Int /\ queue[n + i].ktime \in Int
    BY <1>1, <2>1, <2>3, EntryAt
  <2> HIDE DEF left
  <2> QED BY <1>1, <2>1, <2>2, <2>4, <2>5
<1> HIDE DEF took, left
<1>7. /\ n \in 0 .. Len(queue)
      /\ took \in Seq(Entry) /\ Len(took) = n
      /\ left \in Seq(Entry) /\ Len(left) = Len(queue) - n
      /\ \A i \in 1 .. n : took[i].ktime <= clock[x]
      /\ \A i \in 1 .. Len(left) : left[i] = queue[n + i]
      /\ Sorted => \A i \in 1 .. Len(left) : left[i].ktime > clock[x]
  BY <1>2, <1>3, <1>4, <1>5, <1>6
<1> QED BY <1>7 DEF n, took, left

\* add_to_queue puts the entry between those due no later and the others.
LEMMA Inserted ==
  ASSUME NEW q \in Seq(Entry), NEW e \in Entry
  PROVE  /\ insert(q, e) \in Seq(Entry)
         /\ Len(insert(q, e)) = Len(q) + 1
         /\ Head(insert(q, e)) \in Entry
         /\ \E n \in 0 .. Len(q) :
              /\ \A i \in 1 .. Len(q) + 1 :
                   insert(q, e)[i] = IF i <= n THEN q[i]
                                     ELSE IF i = n + 1 THEN e ELSE q[i - 1]
              /\ \A i \in 1 .. n : q[i].ktime <= e.ktime
              /\ n < Len(q) => \E j \in 1 .. n + 1 : ~(q[j].ktime <= e.ktime)
<1> DEFINE n == Cardinality({i \in 1 .. Len(q) : \A j \in 1 .. i : q[j].ktime <= e.ktime})
           before == SubSeq(q, 1, n)
           after  == SubSeq(q, n + 1, Len(q))
<1>1. e.ktime \in Int /\ Len(q) \in Nat
  BY CqMaxTimeAssumption DEF Entry, Time
<1>2. /\ n \in 0 .. Len(q)
      /\ \A i \in 1 .. n : q[i].ktime <= e.ktime
      /\ n < Len(q) => \E j \in 1 .. n + 1 : ~(q[j].ktime <= e.ktime)
  BY <1>1, DuePrefix
<1>3. insert(q, e) = before \o <<e>> \o after
  BY DEF insert
<1> HIDE DEF n
<1>4. /\ before \in Seq(Entry) /\ Len(before) = n
      /\ \A i \in 1 .. n : before[i] = q[i]
  BY <1>1, <1>2
<1>5. /\ after \in Seq(Entry) /\ Len(after) = Len(q) - n
      /\ \A i \in 1 .. Len(q) - n : after[i] = q[n + i]
  BY <1>1, <1>2
<1> HIDE DEF before, after
<1>6. /\ before \o <<e>> \in Seq(Entry) /\ Len(before \o <<e>>) = n + 1
      /\ \A i \in 1 .. n + 1 : (before \o <<e>>)[i] = IF i <= n THEN q[i] ELSE e
  BY <1>2, <1>4
<1> DEFINE first == before \o <<e>>
<1>7. /\ insert(q, e) \in Seq(Entry) /\ Len(insert(q, e)) = Len(q) + 1
      /\ \A i \in 1 .. Len(q) + 1 :
           insert(q, e)[i] = IF i <= n + 1 THEN first[i] ELSE after[i - (n + 1)]
  <2> HIDE DEF first
  <2>1. first \in Seq(Entry) /\ Len(first) = n + 1
    BY <1>6 DEF first
  <2>2. insert(q, e) = first \o after
    BY <1>3 DEF first
  <2>3. n + 1 + (Len(q) - n) = Len(q) + 1
    BY <1>1, <1>2
  <2> QED BY <1>5, <2>1, <2>2, <2>3, ConcatProperties
<1>8. ASSUME NEW i \in 1 .. Len(q) + 1
      PROVE  insert(q, e)[i] = IF i <= n THEN q[i] ELSE IF i = n + 1 THEN e ELSE q[i - 1]
  <2>1. CASE i <= n + 1
    BY <1>1, <1>2, <1>6, <1>7, <2>1
  <2>2. CASE ~(i <= n + 1)
    <3>1. i - (n + 1) \in 1 .. Len(q) - n /\ n + (i - (n + 1)) = i - 1
      BY <1>1, <1>2, <2>2
    <3>2. after[i - (n + 1)] = q[i - 1]
      BY <1>5, <3>1
    <3>3. ~(i <= n) /\ i # n + 1
      BY <1>1, <1>2, <2>2
    <3> QED BY <1>7, <2>2, <3>2, <3>3
  <2> QED BY <2>1, <2>2
<1>9. Head(insert(q, e)) \in Entry
  BY <1>1, <1>7, HeadTailProperties, EmptySeq
<1> QED BY <1>2, <1>7, <1>8, <1>9

\* What add_io_timer queues.
LEMMA NewEntry ==
  ASSUME TypeOK, NEW c \in Cpu, NEW l \in Latencies, AddIoTimer(c, l)
  PROVE  \E e \in Entry : e.req \in req[c] /\ queue' = insert(queue, e)
<1>1. PICK r \in req[c] :
        queue' = insert(queue, [req |-> r, ktime |-> cap(uptime[c] + l)])
  BY DEF AddIoTimer
<1>2. uptime[c] + l \in Nat
  BY LatenciesAssumption, CqMaxTimeAssumption DEF TypeOK, Time
<1>3. cap(uptime[c] + l) \in Time /\ r \in Requests
  BY <1>2, CapTime DEF TypeOK
<1> QED BY <1>1, <1>3 DEF Entry

\* A change of one hrtimer's state.
LEMMA StateSet ==
  ASSUME TypeOK, NEW t \in Timer, NEW s \in {"inactive", "enqueued", "callback"},
         timer' = [timer EXCEPT ![t].state = s]
  PROVE  /\ timer' \in [Timer -> Hrtimer] /\ timer'[t].state = s
         /\ \A u \in Timer \ {t} : timer'[u] = timer[u]
  BY DEF TypeOK, Hrtimer

\* A callback that restarts its timer is over, and the timer waits.
LEMMA Restarted ==
  ASSUME TypeOK, NEW t \in Timer, NEW h \in Hrtimer, restart(t, h)
  PROVE  /\ timer' \in [Timer -> Hrtimer] /\ timer'[t].state = "enqueued"
         /\ \A u \in Timer \ {t} : timer'[u] = timer[u]
         /\ pc' = [pc EXCEPT ![t] = "off"]
  BY DEF restart, TypeOK, Hrtimer, goto

\* When a timer's callback goes on to a place where it does not have the queue
\* lock, from one where it did not have it or back to the core, or takes the
\* free lock, and the hrtimer's state is right, then the control is.
LEMMA CallbackStep ==
  ASSUME TypeOK, Control, NEW t \in Timer, NEW label \in timer_pc,
         pc' = [pc EXCEPT ![t] = label],
         timer' \in [Timer -> Hrtimer],
         \A u \in Timer \ {t} : timer'[u] = timer[u],
         timer'[t].state = "callback" <=> label # "off",
         t = "timer2" => (label # "norestart" /\ timer'[t].state # "inactive"),
         pc[t] \notin Inside,
         label \in Inside => rq_lock = {},
         rq_lock' = IF label \in Inside THEN {t} ELSE rq_lock,
         clock' \in [Context -> Time], head' \in [Timer -> SUBSET Entry],
         UNCHANGED <<now, pending, queue, done, req, uptime, ended, lost>>
  PROVE  TypeOK' /\ Control'
<1>1. "timer2" \in Timer
  BY DEF Timer
<1>2. pc \in [Context -> cpu_pc \cup timer_pc] /\ t \in Context
  BY DEF TypeOK, Context
<1>3. pc' \in [Context -> cpu_pc \cup timer_pc]
  BY <1>2
<1>4. \A x \in Context : pc'[x] = IF x = t THEN label ELSE pc[x]
  BY <1>2
<1>5. rq_lock = {x \in Context : pc[x] \in Inside}
  BY DEF TypeOK, Inside
<1>6. {x \in Context : pc'[x] \in Inside} = IF label \in Inside THEN {t} ELSE rq_lock
  BY <1>2, <1>4, <1>5
<1>7. \A x, y \in Context : (pc'[x] \in Inside /\ pc'[y] \in Inside) => x = y
  BY <1>2, <1>4, <1>5 DEF Control
<1>8. \A c \in Cpu : pc'[c] \in cpu_pc
  BY <1>4, CpuAssumption DEF Control, Context
<1>9. \A u \in Timer : /\ pc'[u] \in timer_pc
                      /\ timer'[u].state = "callback" <=> pc'[u] # "off"
  BY <1>4 DEF Control, Context
<1>10. pc'["timer2"] # "norestart" /\ timer'["timer2"].state # "inactive"
  BY <1>1, <1>4 DEF Control, Context, TypeOK
<1>11. Control'
  BY <1>7, <1>8, <1>9, <1>10 DEF Control
<1>12. TypeOK'
  BY <1>3, <1>6, <1>10 DEF TypeOK, Inside, Hrtimer
<1> QED BY <1>11, <1>12

\* reset_timer neither stops a timer nor starts or ends a callback.
LEMMA TimerReset ==
  ASSUME TypeOK, NEW k \in Time, reset_timer(k)
  PROVE  /\ timer' \in [Timer -> Hrtimer]
         /\ \A t \in Timer :
              /\ timer'[t].state = "callback" <=> timer[t].state = "callback"
              /\ timer[t].state # "inactive" => timer'[t].state # "inactive"
<1> DEFINE h == timer["timer"]
<1>1. h \in Hrtimer /\ now \in Time
  BY DEF TypeOK, Timer, Hrtimer
<1>2. interval_to(k) \in Nat \ {0}
  BY <1>1, IntervalPositive
<1>3. cap(now + interval_to(k)) \in Time
  BY <1>1, <1>2, CapTime, CqMaxTimeAssumption DEF Time
<1>4. forward_now(h, interval_to(k)) \in Hrtimer
      /\ forward_now(h, interval_to(k)).state = h.state
  BY <1>1, <1>2, ForwardNow DEF Hrtimer
<1>5. CASE h.state = "inactive"
  BY <1>1, <1>3, <1>5 DEF reset_timer, TypeOK, Hrtimer, Timer
<1>6. CASE h.state = "callback"
  BY <1>1, <1>4, <1>6 DEF reset_timer, TypeOK, Hrtimer, Timer
<1>7. CASE h.state = "enqueued"
  BY <1>1, <1>7 DEF reset_timer, TypeOK, Hrtimer, Timer
<1> QED BY <1>1, <1>5, <1>6, <1>7 DEF Hrtimer

-------------------------------------------------------------------------------
\* Everything stays in its range, and the control as described.
LEMMA ControlStep ==
  ASSUME TypeOK, Control, Next
  PROVE  TypeOK' /\ Control'
<1> USE DEF Context, Inside, cpu_pc, timer_pc, goto, Hrtimer
<1>0. "timer2" \in Timer /\ "timer" # "timer2"
  BY DEF Timer
<1>1. CASE Tick
  <2>1. now' \in Time
    BY <1>1, CqMaxTimeAssumption DEF Tick, TypeOK, Time
  <2> QED BY <1>1, <2>1 DEF Tick, TypeOK, Control
<1>2. ASSUME NEW r \in Requests, Submit(r) PROVE TypeOK' /\ Control'
  BY <1>2 DEF Submit, TypeOK, Control
<1>3. ASSUME NEW c \in Cpu, Enter(c) PROVE TypeOK' /\ Control'
  BY <1>0, <1>3, CpuAssumption DEF Enter, TypeOK, Control
<1>4. ASSUME NEW c \in Cpu, Return(c) PROVE TypeOK' /\ Control'
  BY <1>0, <1>4, CpuAssumption DEF Return, TypeOK, Control
<1>5. ASSUME NEW c \in Cpu, NEW r \in Requests, Fetch(c, r) PROVE TypeOK' /\ Control'
  BY <1>0, <1>5, CpuAssumption DEF Fetch, TypeOK, Control
<1>6. ASSUME NEW c \in Cpu, NEW r \in Requests, FetchBad(c, r) PROVE TypeOK' /\ Control'
  BY <1>0, <1>6, CpuAssumption DEF FetchBad, TypeOK, Control
<1>7. ASSUME NEW x \in Context, HandleQueuePop(x) PROVE TypeOK' /\ Control'
  <2> DEFINE n == due_count(clock[x])
             d == [i \in 1 .. n |-> queue[n + 1 - i]]
  <2>1. /\ d \in Seq(Entry)
        /\ SubSeq(queue, n + 1, Len(queue)) \in Seq(Entry)
    BY <1>7, PoppedEntries
  <2> HIDE DEF n, d
  <2>2. queue' \in Seq(Entry) /\ done' \in [Context -> Seq(Entry)]
    BY <1>7, <2>1 DEF HandleQueuePop, TypeOK, n, d
  <2>3. 0 \in Time
    BY CqMaxTimeAssumption DEF Time
  <2> QED BY <1>0, <1>7, <2>2, <2>3, CpuAssumption DEF HandleQueuePop, TypeOK, Control
<1>8. ASSUME NEW x \in Context, HandleQueueEnd(x) PROVE TypeOK' /\ Control'
  <2>1. done[x] \in Seq(Entry) /\ done[x] # <<>>
    BY <1>8 DEF HandleQueueEnd, TypeOK
  <2>2. Head(done[x]) \in Entry /\ Tail(done[x]) \in Seq(Entry)
    BY <2>1, HeadTailProperties
  <2>3. ended' \in SUBSET Requests /\ done' \in [Context -> Seq(Entry)]
    BY <1>8, <2>2 DEF HandleQueueEnd, TypeOK, Entry
  <2> QED BY <1>0, <1>8, <2>3 DEF HandleQueueEnd, TypeOK, Control
<1>9. ASSUME NEW x \in Context, HandleQueueReturn(x) PROVE TypeOK' /\ Control'
  BY <1>0, <1>9, CpuAssumption DEF HandleQueueReturn, TypeOK, Control
<1>10. ASSUME NEW t \in Timer, Fire(t) PROVE TypeOK' /\ Control'
  <2>0. /\ timer' \in [Timer -> Hrtimer] /\ timer'[t].state = "callback"
        /\ \A u \in Timer \ {t} : timer'[u] = timer[u]
    BY <1>10, StateSet DEF Fire
  <2>1. CASE rq_lock = {}
    <3>1. pc' = [pc EXCEPT ![t] = "pop"] /\ pc[t] = "off"
      BY <1>10, <2>1 DEF Fire, Control
    <3>2. clock' \in [Context -> Time]
      BY <1>10, <2>1 DEF Fire, TypeOK
    <3> QED BY <1>10, <2>0, <2>1, <3>1, <3>2, CallbackStep DEF Fire, TypeOK
  <2>2. CASE rq_lock # {}
    <3>1. pc' = [pc EXCEPT ![t] = "peek"] /\ pc[t] = "off"
      BY <1>10, <2>2 DEF Fire, Control
    <3>2. /\ clock' \in [Context -> Time] /\ head' \in [Timer -> SUBSET Entry]
          /\ rq_lock' = rq_lock
          /\ UNCHANGED <<now, pending, queue, done, req, uptime, ended, lost>>
      BY <1>10, <2>2 DEF Fire, TypeOK
    <3> QED BY <2>0, <3>1, <3>2, CallbackStep
  <2> QED BY <2>1, <2>2
<1>11. ASSUME NEW t \in Timer, PeekEmpty(t) PROVE TypeOK' /\ Control'
  <2> DEFINE h == forward_now(timer[t], Timeout)
  <2>1. h \in Hrtimer
    BY TimeoutAssumption, ForwardNow DEF TypeOK
  <2> HIDE DEF h
  <2>2. CASE t = "timer"
    <3>1. pc' = [pc EXCEPT ![t] = "norestart"] /\ UNCHANGED timer /\ pc[t] = "peek"
      BY <1>11, <2>2 DEF PeekEmpty
    <3>2. timer[t].state = "callback" /\ timer \in [Timer -> Hrtimer]
      BY <3>1 DEF Control, TypeOK
    <3> QED BY <1>0, <1>11, <2>2, <3>1, <3>2, CallbackStep DEF PeekEmpty, TypeOK
  <2>3. CASE t # "timer"
    <3>1. restart(t, h)
      BY <1>11, <2>3 DEF PeekEmpty, h
    <3> QED BY <1>11, <2>1, <3>1, Restarted, CallbackStep DEF PeekEmpty, TypeOK
  <2> QED BY <2>2, <2>3
<1>12. ASSUME NEW t \in Timer, PeekHead(t) \/ ReadNull(t) PROVE TypeOK' /\ Control'
  <2>1. pc[t] \in {"peek", "reread"} /\ \E l \in {"reread", "oops"} : goto(t, l)
    BY <1>12 DEF PeekHead, ReadNull
  <2>2. UNCHANGED <<now, rq_lock, pending, queue, clock, done, req, uptime, head,
                    timer, ended, lost>>
    BY <1>12 DEF PeekHead, ReadNull
  <2> QED BY <1>0, <2>1, <2>2, CpuAssumption DEF TypeOK, Control
<1>13. ASSUME NEW t \in Timer, ReadHead(t) PROVE TypeOK' /\ Control'
  <2>1. Head(queue) \in Entry
    BY <1>13, HeadTailProperties DEF ReadHead, TypeOK
  <2> QED BY <1>0, <1>13, <2>1, CpuAssumption DEF ReadHead, TypeOK, Control
<1>14. ASSUME NEW t \in Timer, Deref(t) PROVE TypeOK' /\ Control'
  <2>1. PICK k \in Time : restart(t, forward_now(timer[t], interval_to(k)))
    BY <1>14 DEF Deref, TypeOK, Entry
  <2>2. forward_now(timer[t], interval_to(k)) \in Hrtimer
    BY IntervalPositive, ForwardNow DEF TypeOK
  <2>3. UNCHANGED <<now, rq_lock, pending, queue, clock, done, req, uptime, ended, lost>>
        /\ head' = [head EXCEPT ![t] = {}] /\ pc[t] = "deref"
    BY <1>14 DEF Deref
  <2> QED BY <2>1, <2>2, <2>3, Restarted, CallbackStep DEF TypeOK
<1>15. ASSUME NEW t \in Timer, NoRestart(t) PROVE TypeOK' /\ Control'
  <2>1. /\ timer' \in [Timer -> Hrtimer] /\ timer'[t].state = "inactive"
        /\ \A u \in Timer \ {t} : timer'[u] = timer[u]
    BY <1>15, StateSet DEF NoRestart
  <2>2. t # "timer2"
    BY <1>15 DEF NoRestart, Control
  <2> QED BY <1>15, <2>1, <2>2, CallbackStep DEF NoRestart, TypeOK
<1>16. ASSUME NEW c \in Cpu, Io(c) PROVE TypeOK' /\ Control'
  <2>1. now \in Time
    BY DEF TypeOK
  <2>2. CASE goto(c, "early") /\ UNCHANGED uptime
    BY <1>0, <1>16, <2>2, CpuAssumption DEF Io, TypeOK, Control
  <2>3. CASE goto(c, "add") /\ uptime' = [uptime EXCEPT ![c] = now]
    BY <1>0, <1>16, <2>3, CpuAssumption DEF Io, TypeOK, Control
  <2> QED BY <1>0, <1>16, <2>2, <2>3 DEF Io
<1>17. ASSUME NEW c \in Cpu, EndEarly(c) PROVE TypeOK' /\ Control'
  BY <1>0, <1>17, CpuAssumption DEF EndEarly, TypeOK, Control
<1>18. ASSUME NEW c \in Cpu, NEW l \in Latencies, AddIoTimer(c, l) PROVE TypeOK' /\ Control'
  <2>1. PICK e \in Entry : queue' = insert(queue, e)
    BY <1>18, NewEntry
  <2>2. queue' \in Seq(Entry) /\ Head(queue') \in Entry
    BY <2>1, Inserted DEF TypeOK
  <2>3. timer' \in [Timer -> Hrtimer] /\ \A t \in Timer :
          /\ timer'[t].state = "callback" <=> timer[t].state = "callback"
          /\ timer[t].state # "inactive" => timer'[t].state # "inactive"
    BY <1>0, <1>18, <2>2, TimerReset DEF AddIoTimer, Entry
  <2>4. 0 \in Time
    BY CqMaxTimeAssumption DEF Time
  <2> QED BY <1>0, <1>18, <2>2, <2>3, <2>4, CpuAssumption DEF AddIoTimer, TypeOK, Control, Hrtimer
<1>19. ASSUME NEW c \in Cpu, AddIoTimerFails(c) PROVE TypeOK' /\ Control'
  <2>1. 0 \in Time
    BY CqMaxTimeAssumption DEF Time
  <2> QED BY <1>0, <1>19, <2>1, CpuAssumption DEF AddIoTimerFails, TypeOK, Control
<1>20. ASSUME NEW c \in Cpu, Relock(c) PROVE TypeOK' /\ Control'
  BY <1>0, <1>20, CpuAssumption DEF Relock, TypeOK, Control
<1> QED
  BY <1>1, <1>2, <1>3, <1>4, <1>5, <1>6, <1>7, <1>8, <1>9, <1>10, <1>11, <1>12,
     <1>13, <1>14, <1>15, <1>16, <1>17, <1>18, <1>19, <1>20
  DEF Next, CpuRuns, CpuLocks, TimerRuns, HandleQueue

-------------------------------------------------------------------------------
\* The state in which a request can be: what ownership is about.
own_vars == <<pending, ended, lost, req, queue, done>>

\* Steps that touch neither a list nor a clock, and do not leave handle_queue.
LEMMA QuietStep ==
  ASSUME IInv, UNCHANGED <<queue, done, clock, now>>,
         \A x \in Context : pc[x] = "end" => pc'[x] = "end"
  PROVE  DoneInHandleQueue' /\ ReadingsPast' /\ Sorted' /\ NeverEarly'
BY DEF IInv, DoneInHandleQueue, ReadingsPast, Sorted, NeverEarly

\* The clock advances.
LEMMA TickDue ==
  ASSUME IInv, Tick
  PROVE  DoneInHandleQueue' /\ ReadingsPast' /\ Sorted' /\ NeverEarly'
<1>1. now \in Int /\ now' = now + 1 /\ UNCHANGED <<queue, done, clock, pc>>
  BY CqMaxTimeAssumption DEF IInv, TypeOK, Tick, Time
<1>2. \A x \in Context : clock[x] \in Int
  BY CqMaxTimeAssumption DEF IInv, TypeOK, Time
<1>3. \A x \in Context : \A i \in 1 .. Len(done[x]) : done[x][i].ktime \in Int
  BY EntryAt DEF IInv, TypeOK
<1>4. NeverEarly'
  BY <1>1, <1>3 DEF IInv, NeverEarly
<1>5. ReadingsPast'
  BY <1>1, <1>2 DEF IInv, ReadingsPast
<1> QED BY <1>1, <1>4, <1>5 DEF IInv, DoneInHandleQueue, Sorted

\* handle_queue takes entries that are due by its reading, and so by now, and
\* leaves the others in their order.
LEMMA PopDue ==
  ASSUME IInv, NEW x \in Context, HandleQueuePop(x)
  PROVE  DoneInHandleQueue' /\ ReadingsPast' /\ Sorted' /\ NeverEarly'
<1> DEFINE n    == due_count(clock[x])
           took == [i \in 1 .. n |-> queue[n + 1 - i]]
           left == SubSeq(queue, n + 1, Len(queue))
<1>1. /\ n \in 0 .. Len(queue) /\ Len(queue) \in Nat
      /\ took \in Seq(Entry) /\ Len(took) = n
      /\ left \in Seq(Entry) /\ Len(left) = Len(queue) - n
      /\ \A i \in 1 .. n : took[i].ktime <= clock[x]
      /\ \A i \in 1 .. Len(left) : left[i] = queue[n + i]
  BY PoppedEntries DEF IInv, TypeOK
<1>2. /\ done' = [done EXCEPT ![x] = took] /\ queue' = left
      /\ clock' = [clock EXCEPT ![x] = 0] /\ pc' = [pc EXCEPT ![x] = "end"]
      /\ now' = now
  BY DEF HandleQueuePop, goto
<1> HIDE DEF n, took, left
<1>3. /\ clock \in [Context -> Time] /\ now \in Nat /\ now \in Int
      /\ done \in [Context -> Seq(Entry)]
      /\ pc \in [Context -> cpu_pc \cup timer_pc]
      /\ clock[x] \in Int /\ clock[x] <= now
  BY CqMaxTimeAssumption DEF IInv, TypeOK, Time, ReadingsPast
<1>4. Sorted'
  <2> SUFFICES ASSUME NEW i \in 1 .. Len(left), NEW j \in 1 .. Len(left), i <= j
               PROVE  left[i].ktime <= left[j].ktime
    BY <1>2 DEF Sorted
  <2>1. n + i \in 1 .. Len(queue) /\ n + j \in 1 .. Len(queue) /\ n + i <= n + j
    BY <1>1
  <2> QED BY <1>1, <2>1 DEF IInv, Sorted
<1>5. NeverEarly'
  <2>1. ASSUME NEW i \in 1 .. Len(took) PROVE took[i].ktime <= now
    <3>1. took[i].ktime \in Int /\ took[i].ktime <= clock[x]
      BY <1>1, EntryAt
    <3> QED BY <1>3, <3>1
  <2> QED BY <1>2, <1>3, <2>1 DEF IInv, NeverEarly
<1>6. ReadingsPast'
  BY <1>2, <1>3 DEF IInv, ReadingsPast
<1>7. DoneInHandleQueue'
  BY <1>2, <1>3 DEF IInv, DoneInHandleQueue
<1> QED BY <1>4, <1>5, <1>6, <1>7

\* An entry is ended: the others stay due.
LEMMA EndDue ==
  ASSUME IInv, NEW x \in Context, HandleQueueEnd(x)
  PROVE  DoneInHandleQueue' /\ ReadingsPast' /\ Sorted' /\ NeverEarly'
<1> DEFINE d == done[x]
           e == Tail(d)
<1>1. /\ Len(d) \in Nat /\ Len(e) = Len(d) - 1
      /\ \A i \in 1 .. Len(e) : e[i] = d[i + 1]
      /\ done \in [Context -> Seq(Entry)]
  BY HeadTailProperties DEF IInv, TypeOK, HandleQueueEnd
<1>2. /\ done' = [done EXCEPT ![x] = e] /\ pc[x] = "end"
      /\ UNCHANGED <<queue, clock, now, pc>>
  BY DEF HandleQueueEnd
<1>3. ASSUME NEW i \in 1 .. Len(e) PROVE e[i].ktime <= now
  <2>1. i + 1 \in 1 .. Len(d)
    BY <1>1
  <2> QED BY <1>1, <2>1 DEF IInv, NeverEarly
<1> HIDE DEF d, e
<1>4. NeverEarly'
  BY <1>1, <1>2, <1>3 DEF IInv, NeverEarly
<1>5. DoneInHandleQueue'
  BY <1>1, <1>2 DEF IInv, DoneInHandleQueue
<1> QED BY <1>2, <1>4, <1>5 DEF IInv, ReadingsPast, Sorted

\* The new entry comes after those due no later, and so, as the queue is sorted,
\* before all that are due later.
LEMMA AddDue ==
  ASSUME IInv, NEW c \in Cpu, NEW l \in Latencies, AddIoTimer(c, l)
  PROVE  DoneInHandleQueue' /\ ReadingsPast' /\ Sorted' /\ NeverEarly'
<1>1. PICK e \in Entry : queue' = insert(queue, e)
  BY NewEntry DEF IInv
<1>2. queue \in Seq(Entry) /\ Len(queue) \in Nat /\ e.ktime \in Int
  BY CqMaxTimeAssumption DEF IInv, TypeOK, Entry, Time
<1>3. PICK n \in 0 .. Len(queue) :
        /\ Len(queue') = Len(queue) + 1
        /\ \A i \in 1 .. Len(queue) + 1 :
             queue'[i] = IF i <= n THEN queue[i]
                         ELSE IF i = n + 1 THEN e ELSE queue[i - 1]
        /\ \A i \in 1 .. n : queue[i].ktime <= e.ktime
        /\ n < Len(queue) => \E j \in 1 .. n + 1 : ~(queue[j].ktime <= e.ktime)
  BY <1>1, <1>2, Inserted
<1>4. ASSUME NEW i \in n + 1 .. Len(queue) PROVE e.ktime <= queue[i].ktime
  <2>1. PICK j \in 1 .. n + 1 : ~(queue[j].ktime <= e.ktime)
    BY <1>2, <1>3
  <2>2. j \in 1 .. Len(queue) /\ i \in 1 .. Len(queue) /\ j <= i
    BY <1>2
  <2>3. queue[j].ktime \in Int /\ queue[i].ktime \in Int /\ queue[j].ktime <= queue[i].ktime
    BY <1>2, <2>2, EntryAt DEF IInv, Sorted
  <2> QED BY <1>2, <2>1, <2>3
<1>5. Sorted'
  <2> SUFFICES ASSUME NEW i \in 1 .. Len(queue) + 1, NEW j \in 1 .. Len(queue) + 1, i <= j
               PROVE  queue'[i].ktime <= queue'[j].ktime
    BY <1>3 DEF Sorted
  <2>1. CASE j <= n
    BY <1>2, <1>3, <2>1 DEF IInv, Sorted
  <2>2. CASE j = n + 1
    BY <1>2, <1>3, <2>2
  <2>3. CASE j > n + 1
    <3>1. j - 1 \in n + 1 .. Len(queue) /\ queue'[j] = queue[j - 1]
      BY <1>2, <1>3, <2>3
    <3>2. CASE i <= n
      BY <1>2, <1>3, <2>3, <3>1, <3>2 DEF IInv, Sorted
    <3>3. CASE i = n + 1
      <4>1. queue'[i] = e
        BY <1>2, <1>3, <3>3
      <4>2. e.ktime <= queue[j - 1].ktime
        BY <1>4, <3>1
      <4> QED BY <3>1, <4>1, <4>2
    <3>4. CASE i > n + 1
      <4>1. i - 1 \in 1 .. Len(queue) /\ queue'[i] = queue[i - 1] /\ i - 1 <= j - 1
        BY <1>2, <1>3, <3>4
      <4>2. j - 1 \in 1 .. Len(queue)
        BY <1>2, <2>3
      <4> QED BY <3>1, <4>1, <4>2 DEF IInv, Sorted
    <3> QED BY <1>2, <3>2, <3>3, <3>4
  <2> QED BY <1>2, <2>1, <2>2, <2>3
<1>6. /\ UNCHANGED <<done, clock, now>> /\ pc' = [pc EXCEPT ![c] = "relock"]
      /\ pc[c] = "add" /\ pc \in [Context -> cpu_pc \cup timer_pc]
  BY DEF AddIoTimer, goto, IInv, TypeOK
<1>7. DoneInHandleQueue'
  BY <1>6 DEF IInv, DoneInHandleQueue
<1> QED BY <1>5, <1>6, <1>7 DEF IInv, ReadingsPast, NeverEarly

\* Every step keeps the times in order.
LEMMA DueStep ==
  ASSUME IInv, Next
  PROVE  DoneInHandleQueue' /\ ReadingsPast' /\ Sorted' /\ NeverEarly'
<1> DEFINE Goal == DoneInHandleQueue' /\ ReadingsPast' /\ Sorted' /\ NeverEarly'
<1>0. /\ pc \in [Context -> cpu_pc \cup timer_pc] /\ clock \in [Context -> Time]
      /\ now \in Nat /\ 0 <= now
  BY CqMaxTimeAssumption DEF IInv, TypeOK, Time
<1>1. CASE Tick
  BY <1>1, TickDue
<1>2. ASSUME NEW r \in Requests, Submit(r) PROVE Goal
  BY <1>2, QuietStep DEF Submit
<1>3. ASSUME NEW c \in Cpu, Enter(c) \/ Return(c) \/ Io(c) \/ EndEarly(c)
                            \/ AddIoTimerFails(c) \/ Relock(c) PROVE Goal
  <2>1. UNCHANGED <<queue, done, clock, now>> /\ pc[c] # "end"
        /\ \A x \in Context \ {c} : pc'[x] = pc[x]
    BY <1>0, <1>3 DEF Enter, Return, Io, EndEarly, AddIoTimerFails, Relock, goto
  <2> QED BY <2>1, QuietStep
<1>4. ASSUME NEW c \in Cpu, NEW r \in Requests, FetchBad(c, r) PROVE Goal
  <2>1. UNCHANGED <<queue, done, clock, now>> /\ pc[c] # "end"
        /\ \A x \in Context \ {c} : pc'[x] = pc[x]
    BY <1>0, <1>4 DEF FetchBad, goto
  <2> QED BY <2>1, QuietStep
<1>5. ASSUME NEW c \in Cpu, NEW r \in Requests, Fetch(c, r) PROVE Goal
  BY <1>0, <1>5 DEF Fetch, goto, IInv, DoneInHandleQueue, ReadingsPast, Sorted, NeverEarly
<1>6. ASSUME NEW x \in Context, HandleQueuePop(x) PROVE Goal
  BY <1>6, PopDue
<1>7. ASSUME NEW x \in Context, HandleQueueEnd(x) PROVE Goal
  BY <1>7, EndDue
<1>8. ASSUME NEW x \in Context, HandleQueueReturn(x) PROVE Goal
  BY <1>0, <1>8 DEF HandleQueueReturn, goto, IInv, DoneInHandleQueue, ReadingsPast, Sorted, NeverEarly
<1>9. ASSUME NEW t \in Timer, Fire(t) PROVE Goal
  <2>1. pc[t] = "off" /\ UNCHANGED <<queue, done, now>>
        /\ \A x \in Context \ {t} : pc'[x] = pc[x]
    BY <1>0, <1>9 DEF Fire, goto, IInv, Control
  <2>2. \A x \in Context : clock'[x] = clock[x] \/ clock'[x] = now
    BY <1>0, <1>9 DEF Fire
  <2> QED BY <1>0, <2>1, <2>2 DEF IInv, DoneInHandleQueue, ReadingsPast, Sorted, NeverEarly
<1>10. ASSUME NEW t \in Timer,
              \/ PeekEmpty(t) \/ PeekHead(t) \/ ReadHead(t) \/ ReadNull(t)
              \/ Deref(t) \/ NoRestart(t)
       PROVE  Goal
  <2>1. UNCHANGED <<queue, done, clock, now>> /\ pc[t] # "end"
        /\ \A x \in Context \ {t} : pc'[x] = pc[x]
    BY <1>0, <1>10 DEF PeekEmpty, PeekHead, ReadHead, ReadNull, Deref, NoRestart, restart, goto
  <2> QED BY <2>1, QuietStep
<1>11. ASSUME NEW c \in Cpu, NEW l \in Latencies, AddIoTimer(c, l) PROVE Goal
  BY <1>11, AddDue
<1> QED
  BY <1>1, <1>2, <1>3, <1>4, <1>5, <1>6, <1>7, <1>8, <1>9, <1>10, <1>11
  DEF Next, CpuRuns, CpuLocks, TimerRuns, HandleQueue, Context

-------------------------------------------------------------------------------
\* handle_queue moves entries from the queue to its own list.
LEMMA PopDisjoint ==
  ASSUME IInv, NEW x \in Context, HandleQueuePop(x)
  PROVE  Disjoint'
<1> DEFINE n    == due_count(clock[x])
           took == [i \in 1 .. n |-> queue[n + 1 - i]]
           left == SubSeq(queue, n + 1, Len(queue))
<1>1. /\ n \in 0 .. Len(queue) /\ Len(queue) \in Nat
      /\ took \in Seq(Entry) /\ Len(took) = n
      /\ left \in Seq(Entry) /\ Len(left) = Len(queue) - n
      /\ \A i \in 1 .. Len(left) : left[i] = queue[n + i]
  BY PoppedEntries DEF IInv, TypeOK
<1>2. \A i \in 1 .. n : took[i] = queue[n + 1 - i]
  OBVIOUS
<1>3. /\ done' = [done EXCEPT ![x] = took] /\ queue' = left
      /\ UNCHANGED <<pending, ended, lost, req>>
      /\ done \in [Context -> Seq(Entry)]
  BY DEF HandleQueuePop, IInv, TypeOK
<1> HIDE DEF n, took, left
<1>4. \A y \in Context : done'[y] = IF y = x THEN took ELSE done[y]
  BY <1>3
<1>5. /\ \A i \in 1 .. Len(left) : n + i \in 1 .. Len(queue)
      /\ \A i \in 1 .. n : n + 1 - i \in 1 .. Len(queue)
  BY <1>1
<1>6. /\ \A i, j \in 1 .. Len(left) : n + i = n + j => i = j
      /\ \A i, j \in 1 .. n : n + 1 - i = n + 1 - j => i = j
      /\ \A i \in 1 .. Len(left) : \A j \in 1 .. n : n + i # n + 1 - j
  BY <1>1
<1>7. Settled' = Settled /\ Fetched' = Fetched
  BY <1>3 DEF Settled, Fetched
<1>8. ASSUME NEW i \in 1 .. Len(queue') PROVE AloneInQueue(i)'
  <2>1. i \in 1 .. Len(left) /\ n + i \in 1 .. Len(queue) /\ queue'[i] = queue[n + i]
    BY <1>1, <1>3, <1>5
  <2>2. AloneInQueue(n + i)
    BY <2>1 DEF IInv, Disjoint
  <2>3. ASSUME NEW j \in 1 .. Len(queue'), queue'[j].req = queue'[i].req PROVE j = i
    <3>1. j \in 1 .. Len(left) /\ n + j \in 1 .. Len(queue) /\ queue'[j] = queue[n + j]
      BY <1>1, <1>3, <1>5
    <3>2. n + j = n + i
      BY <2>1, <2>2, <2>3, <3>1 DEF AloneInQueue
    <3> QED BY <1>6, <2>1, <3>1, <3>2
  <2> QED BY <1>7, <2>1, <2>2, <2>3 DEF AloneInQueue
<1>9. ASSUME NEW y \in Context, NEW i \in 1 .. Len(done'[y]) PROVE AloneInDone(y, i)'
  <2>1. CASE y = x
    <3>1. i \in 1 .. n /\ done'[y][i] = queue[n + 1 - i] /\ n + 1 - i \in 1 .. Len(queue)
      BY <1>1, <1>2, <1>4, <1>5, <2>1
    <3>2. AloneInQueue(n + 1 - i)
      BY <3>1 DEF IInv, Disjoint
    <3>3. ASSUME NEW j \in 1 .. Len(queue') PROVE queue'[j].req # done'[y][i].req
      <4>1. j \in 1 .. Len(left) /\ queue'[j] = queue[n + j] /\ n + j \in 1 .. Len(queue)
        BY <1>1, <1>3, <1>5
      <4>2. n + j # n + 1 - i
        BY <1>6, <3>1, <4>1
      <4> QED BY <3>1, <3>2, <4>1, <4>2 DEF AloneInQueue
    <3>4. ASSUME NEW z \in Context, NEW j \in 1 .. Len(done'[z]),
                 done'[z][j].req = done'[y][i].req
          PROVE  z = y /\ j = i
      <4>1. CASE z = x
        <5>1. j \in 1 .. n /\ done'[z][j] = queue[n + 1 - j] /\ n + 1 - j \in 1 .. Len(queue)
          BY <1>1, <1>2, <1>4, <1>5, <4>1
        <5>2. n + 1 - j = n + 1 - i
          BY <3>1, <3>2, <3>4, <5>1 DEF AloneInQueue
        <5> QED BY <1>6, <2>1, <3>1, <4>1, <5>1, <5>2
      <4>2. CASE z # x
        BY <1>4, <3>1, <3>4, <4>2 DEF IInv, Disjoint, AloneInDone
      <4> QED BY <4>1, <4>2
    <3> QED BY <1>7, <3>1, <3>2, <3>3, <3>4 DEF AloneInQueue, AloneInDone
  <2>2. CASE y # x
    <3>1. done'[y] = done[y] /\ AloneInDone(y, i)
      BY <1>4, <2>2 DEF IInv, Disjoint
    <3>2. \A j \in 1 .. Len(queue') : queue'[j].req # done'[y][i].req
      BY <1>1, <1>3, <1>5, <3>1 DEF AloneInDone
    <3>3. ASSUME NEW z \in Context, NEW j \in 1 .. Len(done'[z]),
                 done'[z][j].req = done'[y][i].req
          PROVE  z = y /\ j = i
      <4>1. CASE z = x
        <5>1. done'[z][j] = queue[n + 1 - j] /\ n + 1 - j \in 1 .. Len(queue)
          BY <1>1, <1>2, <1>4, <1>5, <4>1
        <5> QED BY <3>1, <3>3, <5>1 DEF AloneInDone
      <4>2. CASE z # x
        BY <1>4, <3>1, <3>3, <4>2 DEF AloneInDone
      <4> QED BY <4>1, <4>2
    <3> QED BY <1>7, <3>1, <3>2, <3>3 DEF AloneInDone
  <2> QED BY <2>1, <2>2
<1> QED BY <1>3, <1>7, <1>8, <1>9 DEF IInv, Disjoint

\* An entry leaves handle_queue's list, and its request goes back.
LEMMA EndDisjoint ==
  ASSUME IInv, NEW x \in Context, HandleQueueEnd(x)
  PROVE  Disjoint'
<1> DEFINE d == done[x]
           e == Tail(d)
           r == Head(d).req
<1>1. /\ Len(d) \in Nat /\ Len(d) > 0 /\ Len(e) = Len(d) - 1
      /\ \A i \in 1 .. Len(e) : e[i] = d[i + 1]
      /\ Head(d) = d[1]
      /\ done \in [Context -> Seq(Entry)]
  BY HeadTailProperties DEF IInv, TypeOK, HandleQueueEnd
<1>2. /\ done' = [done EXCEPT ![x] = e] /\ ended' = ended \cup {r}
      /\ UNCHANGED <<queue, pending, lost, req>>
  BY DEF HandleQueueEnd
<1>3. AloneInDone(x, 1) /\ r = done[x][1].req
  BY <1>1 DEF IInv, Disjoint
<1> HIDE DEF d, e, r
<1>4. \A y \in Context : done'[y] = IF y = x THEN e ELSE done[y]
  BY <1>1, <1>2
<1>5. ASSUME NEW y \in Context, NEW i \in 1 .. Len(done'[y])
      PROVE  \E k \in 1 .. Len(done[y]) :
               /\ done'[y][i] = done[y][k] /\ k = (IF y = x THEN i + 1 ELSE i)
               /\ y = x => k # 1
  BY <1>1, <1>4 DEF d
<1>6. Settled' = Settled \cup {r} /\ Fetched' = Fetched
  BY <1>2 DEF Settled, Fetched
<1>7. ASSUME NEW y \in Context, NEW i \in 1 .. Len(done'[y]) PROVE AloneInDone(y, i)'
  <2>1. PICK k \in 1 .. Len(done[y]) :
          /\ done'[y][i] = done[y][k] /\ k = (IF y = x THEN i + 1 ELSE i)
          /\ y = x => k # 1
    BY <1>5
  <2>2. AloneInDone(y, k)
    BY DEF IInv, Disjoint
  <2>3. done[y][k].req # r
    BY <1>1, <1>3, <2>1, <2>2 DEF AloneInDone, d
  <2>4. ASSUME NEW z \in Context, NEW j \in 1 .. Len(done'[z]),
               done'[z][j].req = done'[y][i].req
        PROVE  z = y /\ j = i
    <3>1. PICK m \in 1 .. Len(done[z]) :
            done'[z][j] = done[z][m] /\ m = (IF z = x THEN j + 1 ELSE j)
      BY <1>5
    <3>2. z = y /\ m = k
      BY <2>1, <2>2, <2>4, <3>1 DEF AloneInDone
    <3> QED BY <2>1, <3>1, <3>2
  <2> QED BY <1>2, <1>6, <2>1, <2>2, <2>3, <2>4 DEF AloneInDone
<1>8. ASSUME NEW i \in 1 .. Len(queue') PROVE AloneInQueue(i)'
  <2>1. AloneInQueue(i) /\ queue' = queue
    BY <1>2 DEF IInv, Disjoint
  <2>2. queue[i].req # r
    BY <1>2, <1>3 DEF AloneInDone
  <2> QED BY <1>6, <2>1, <2>2 DEF AloneInQueue
<1> QED BY <1>2, <1>3, <1>6, <1>7, <1>8 DEF IInv, Disjoint, AloneInDone, Settled

\* A new entry's request was fetched by this CPU, and no longer is.
LEMMA AddDisjoint ==
  ASSUME IInv, NEW c \in Cpu, NEW l \in Latencies, AddIoTimer(c, l)
  PROVE  Disjoint'
<1>1. PICK e \in Entry : e.req \in req[c] /\ queue' = insert(queue, e)
  BY NewEntry DEF IInv
<1>2. queue \in Seq(Entry) /\ Len(queue) \in Nat
  BY DEF IInv, TypeOK
<1>3. PICK n \in 0 .. Len(queue) :
        /\ Len(queue') = Len(queue) + 1
        /\ \A i \in 1 .. Len(queue) + 1 :
             queue'[i] = IF i <= n THEN queue[i]
                         ELSE IF i = n + 1 THEN e ELSE queue[i - 1]
  <2> DEFINE q == insert(queue, e)
  <2>1. \E n \in 0 .. Len(queue) :
          /\ Len(q) = Len(queue) + 1
          /\ \A i \in 1 .. Len(queue) + 1 :
               q[i] = IF i <= n THEN queue[i] ELSE IF i = n + 1 THEN e ELSE queue[i - 1]
    BY <1>2, Inserted
  <2> HIDE DEF q
  <2> QED BY <1>1, <2>1 DEF q
<1>4. /\ req' = [req EXCEPT ![c] = {}] /\ UNCHANGED <<pending, done, ended, lost>>
      /\ req \in [Cpu -> SUBSET Requests]
  BY DEF AddIoTimer, IInv, TypeOK
<1>5. \A d \in Cpu : req'[d] = IF d = c THEN {} ELSE req[d]
  BY <1>4
<1>6. e.req \in Fetched /\ Fetched' \subseteq Fetched /\ Settled' = Settled
  BY <1>1, <1>4, <1>5 DEF Fetched, Settled
<1>7. e.req \notin Fetched'
  BY <1>1, <1>5 DEF Fetched, IInv, Disjoint
<1>8. ASSUME NEW i \in 1 .. Len(queue')
      PROVE  \/ i = n + 1 /\ queue'[i] = e
             \/ \E k \in 1 .. Len(queue) :
                  i # n + 1 /\ queue'[i] = queue[k] /\ k = (IF i <= n THEN i ELSE i - 1)
  <2>1. CASE i <= n
    BY <1>2, <1>3, <2>1
  <2>2. CASE i = n + 1
    BY <1>2, <1>3, <2>2
  <2>3. CASE i > n + 1
    <3>1. i - 1 \in 1 .. Len(queue) /\ queue'[i] = queue[i - 1] /\ ~(i <= n)
      BY <1>2, <1>3, <2>3
    <3> QED BY <1>2, <2>3, <3>1
  <2> QED BY <1>2, <1>3, <2>1, <2>2, <2>3
<1>9. \A k \in 1 .. Len(queue) : queue[k].req # e.req
  BY <1>6 DEF IInv, Disjoint, AloneInQueue
<1>10. ASSUME NEW i \in 1 .. Len(queue') PROVE AloneInQueue(i)'
  <2>1. ASSUME NEW j \in 1 .. Len(queue'), queue'[j].req = queue'[i].req PROVE j = i
    <3>1. CASE i = n + 1 \/ j = n + 1
      BY <1>8, <1>9, <2>1, <3>1
    <3>2. CASE i # n + 1 /\ j # n + 1
      <4>1. PICK k \in 1 .. Len(queue) :
              queue'[i] = queue[k] /\ k = (IF i <= n THEN i ELSE i - 1)
        BY <1>8, <3>2
      <4>2. PICK m \in 1 .. Len(queue) :
              queue'[j] = queue[m] /\ m = (IF j <= n THEN j ELSE j - 1)
        BY <1>8, <3>2
      <4>3. m = k
        BY <2>1, <4>1, <4>2 DEF IInv, Disjoint, AloneInQueue
      <4> QED BY <1>2, <1>3, <3>2, <4>1, <4>2, <4>3
    <3> QED BY <3>1, <3>2
  <2>2. queue'[i].req \notin Settled /\ queue'[i].req \notin Fetched'
    BY <1>6, <1>7, <1>8 DEF IInv, Disjoint, AloneInQueue
  <2> QED BY <1>6, <2>1, <2>2 DEF AloneInQueue
<1>11. ASSUME NEW y \in Context, NEW i \in 1 .. Len(done'[y]) PROVE AloneInDone(y, i)'
  <2>1. AloneInDone(y, i) /\ done' = done
    BY <1>4 DEF IInv, Disjoint
  <2>2. \A j \in 1 .. Len(queue') : queue'[j].req # done[y][i].req
    BY <1>6, <1>8, <2>1 DEF AloneInDone
  <2> QED BY <1>6, <2>1, <2>2 DEF AloneInDone
<1> QED BY <1>4, <1>5, <1>6, <1>10, <1>11 DEF IInv, Disjoint

\* When the lists stay as they are, it is enough that each request moves from one
\* of the sets to another that no one else's entry is in.
LEMMA SetsDisjoint ==
  ASSUME IInv, UNCHANGED <<queue, done>>,
         pending' \cap ended' = {}, pending' \cap lost' = {}, ended' \cap lost' = {},
         Fetched' \cap Settled' = {},
         \A c, d \in Cpu : c # d => req'[c] \cap req'[d] = {},
         \A i \in 1 .. Len(queue) : queue[i].req \notin Settled' \cup Fetched',
         \A x \in Context : \A i \in 1 .. Len(done[x]) : done[x][i].req \notin Settled' \cup Fetched'
  PROVE  Disjoint'
<1>1. \A i \in 1 .. Len(queue') : AloneInQueue(i)'
  BY DEF IInv, Disjoint, AloneInQueue
<1>2. \A x \in Context : \A i \in 1 .. Len(done'[x]) : AloneInDone(x, i)'
  BY DEF IInv, Disjoint, AloneInDone
<1> QED BY <1>1, <1>2 DEF Disjoint

\* Every step leaves each request in at most one place.
LEMMA DisjointStep ==
  ASSUME IInv, Next
  PROVE  Disjoint'
<1>0. /\ req \in [Cpu -> SUBSET Requests]
      /\ pending \subseteq Settled /\ ended \subseteq Settled /\ lost \subseteq Settled
      /\ \A c \in Cpu : req[c] \subseteq Fetched
      /\ Fetched \cap Settled = {}
      /\ pending \cap ended = {} /\ pending \cap lost = {} /\ ended \cap lost = {}
      /\ \A c, d \in Cpu : c # d => req[c] \cap req[d] = {}
  BY DEF IInv, TypeOK, Disjoint, Settled, Fetched
<1>1. /\ \A i \in 1 .. Len(queue) : queue[i].req \notin Settled \cup Fetched
      /\ \A x \in Context : \A i \in 1 .. Len(done[x]) :
           done[x][i].req \notin Settled \cup Fetched
  BY DEF IInv, Disjoint, AloneInQueue, AloneInDone
<1>2. ASSUME UNCHANGED own_vars PROVE Disjoint'
  <2>1. Settled' = Settled /\ Fetched' = Fetched
    BY <1>2 DEF own_vars, Settled, Fetched
  <2> QED BY <1>0, <1>1, <1>2, <2>1, SetsDisjoint DEF own_vars
<1>3. ASSUME NEW r \in Requests, Submit(r) PROVE Disjoint'
  <2>1. /\ r \notin Settled /\ r \notin Fetched
        /\ \A i \in 1 .. Len(queue) : queue[i].req # r
        /\ \A x \in Context : \A i \in 1 .. Len(done[x]) : done[x][i].req # r
    BY <1>3 DEF Submit, unknown, Settled, Fetched
  <2>2. Settled' = Settled \cup {r} /\ Fetched' = Fetched
    BY <1>3 DEF Submit, Settled, Fetched
  <2>3. pending' = pending \cup {r} /\ UNCHANGED <<queue, done, ended, lost, req>>
    BY <1>3 DEF Submit
  <2> QED BY <1>0, <1>1, <2>1, <2>2, <2>3, SetsDisjoint
<1>4. ASSUME NEW c \in Cpu, NEW r \in Requests, Fetch(c, r) PROVE Disjoint'
  <2>1. /\ r \in pending /\ pending' = pending \ {r} /\ req' = [req EXCEPT ![c] = {r}]
        /\ UNCHANGED <<queue, done, ended, lost>>
    BY <1>4 DEF Fetch
  <2>2. \A d \in Cpu : req'[d] = IF d = c THEN {r} ELSE req[d]
    BY <1>0, <2>1
  <2>3. Settled' = Settled \ {r} /\ Fetched' \subseteq Fetched \cup {r}
    BY <1>0, <2>1, <2>2 DEF Settled, Fetched
  <2>4. \A d, e \in Cpu : d # e => req'[d] \cap req'[e] = {}
    BY <1>0, <2>1, <2>2
  <2>5. r \in Settled
    BY <1>0, <2>1
  <2> QED BY <1>0, <1>1, <2>1, <2>3, <2>4, <2>5, SetsDisjoint
<1>5. ASSUME NEW c \in Cpu, NEW r \in Requests, FetchBad(c, r) PROVE Disjoint'
  <2>1. /\ r \in pending /\ pending' = pending \ {r} /\ lost' = lost \cup {r}
        /\ UNCHANGED <<queue, done, ended, req>>
    BY <1>5 DEF FetchBad
  <2>2. Settled' = Settled /\ Fetched' = Fetched
    BY <2>1 DEF Settled, Fetched
  <2> QED BY <1>0, <1>1, <2>1, <2>2, SetsDisjoint
<1>6. ASSUME NEW c \in Cpu, EndEarly(c) \/ AddIoTimerFails(c) PROVE Disjoint'
  <2>1. /\ req' = [req EXCEPT ![c] = {}] /\ UNCHANGED <<queue, done, pending>>
        /\ \/ ended' = ended \cup req[c] /\ lost' = lost
           \/ lost' = lost \cup req[c] /\ ended' = ended
    BY <1>6 DEF EndEarly, AddIoTimerFails
  <2>2. \A d \in Cpu : req'[d] = IF d = c THEN {} ELSE req[d]
    BY <1>0, <2>1
  <2>3. Settled' = Settled \cup req[c] /\ Fetched' \subseteq Fetched \ req[c]
    BY <1>0, <2>1, <2>2 DEF Settled, Fetched
  <2>4. \A d, e \in Cpu : d # e => req'[d] \cap req'[e] = {}
    BY <1>0, <2>2
  <2> QED BY <1>0, <1>1, <2>1, <2>3, <2>4, SetsDisjoint
<1>7. ASSUME NEW c \in Cpu, NEW l \in Latencies, AddIoTimer(c, l) PROVE Disjoint'
  BY <1>7, AddDisjoint
<1>8. ASSUME NEW x \in Context, HandleQueuePop(x) PROVE Disjoint'
  BY <1>8, PopDisjoint
<1>9. ASSUME NEW x \in Context, HandleQueueEnd(x) PROVE Disjoint'
  BY <1>9, EndDisjoint
<1>10. CASE Tick
  BY <1>2, <1>10 DEF Tick, own_vars
<1>11. ASSUME NEW c \in Cpu, Enter(c) \/ Return(c) \/ Io(c) \/ Relock(c) PROVE Disjoint'
  BY <1>2, <1>11 DEF Enter, Return, Io, Relock, own_vars
<1>12. ASSUME NEW x \in Context, HandleQueueReturn(x) PROVE Disjoint'
  BY <1>2, <1>12 DEF HandleQueueReturn, own_vars
<1>13. ASSUME NEW t \in Timer,
              \/ Fire(t) \/ PeekEmpty(t) \/ PeekHead(t) \/ ReadHead(t) \/ ReadNull(t)
              \/ Deref(t) \/ NoRestart(t)
       PROVE  Disjoint'
  BY <1>2, <1>13
  DEF Fire, PeekEmpty, PeekHead, ReadHead, ReadNull, Deref, NoRestart, own_vars
<1> QED
  BY <1>3, <1>4, <1>5, <1>6, <1>7, <1>8, <1>9, <1>10, <1>11, <1>12, <1>13
  DEF Next, CpuRuns, CpuLocks, TimerRuns, HandleQueue, Context
-------------------------------------------------------------------------------
\* The driver starts with nothing submitted, queued or running.
LEMMA InitIInv == Init => IInv
<1> SUFFICES ASSUME Init PROVE IInv
  OBVIOUS
<1>1. 0 \in Time /\ cap(1) \in Time
  BY CqMaxTimeAssumption, CapTime DEF Time
<1>2. TypeOK
  BY <1>1, CpuAssumption DEF Init, TypeOK, Context, Timer, cpu_pc, timer_pc
<1>3. Control
  BY CpuAssumption DEF Init, Control, Context, Timer, Inside, cpu_pc, timer_pc
<1>4. DoneInHandleQueue /\ ReadingsPast /\ Sorted /\ NeverEarly
  BY DEF Init, DoneInHandleQueue, ReadingsPast, Sorted, NeverEarly
<1>5. Disjoint
  BY DEF Init, Disjoint, Settled, Fetched
<1> QED BY <1>2, <1>3, <1>4, <1>5 DEF IInv

\* The invariant is inductive.
LEMMA NextIInv == IInv /\ [Next]_vars => IInv'
<1> SUFFICES ASSUME IInv, [Next]_vars PROVE IInv'
  OBVIOUS
<1>1. CASE Next
  BY <1>1, ControlStep, DueStep, DisjointStep DEF IInv
<1>2. CASE UNCHANGED vars
  <2>1. TypeOK' /\ Control'
    BY <1>2 DEF vars, IInv, TypeOK, Control
  <2>2. DoneInHandleQueue' /\ ReadingsPast' /\ Sorted' /\ NeverEarly'
    BY <1>2, QuietStep DEF vars
  <2>3. Disjoint'
    BY <1>2 DEF vars, IInv, Disjoint, AloneInQueue, AloneInDone, Settled, Fetched
  <2> QED BY <2>1, <2>2, <2>3 DEF IInv
<1> QED BY <1>1, <1>2

\* IInv is an invariant.
THEOREM Invariance == Spec => []IInv
  BY InitIInv, NextIInv, PTL DEF Spec

\* Everything stays in its range, the second timer is always armed or running,
\* and the queue lock has the one owner that do_request's, handle_queue's and the
\* callbacks' locking gives it.
THEOREM TypeCorrect == Spec => []TypeOK
<1>1. IInv => TypeOK
  BY DEF IInv
<1> QED BY <1>1, Invariance, PTL

\* The places of a request, one by one, as ownership excludes them.
LEMMA DisjointOwner == IInv => OneOwner
<1> SUFFICES ASSUME IInv, NEW r \in Requests, NEW p \in places(r), NEW q \in places(r)
             PROVE  p = q
  BY DEF OneOwner
<1> DEFINE In(pl) ==
      \/ pl = <<"pending", "", 0>> /\ r \in pending
      \/ pl = <<"ended", "", 0>> /\ r \in ended
      \/ pl = <<"lost", "", 0>> /\ r \in lost
      \/ \E c \in Cpu : pl = <<"fetched", c, 0>> /\ r \in req[c]
      \/ \E i \in 1 .. Len(queue) : pl = <<"queued", "", i>> /\ queue[i].req = r
      \/ \E x \in Context : \E i \in 1 .. Len(done[x]) :
           pl = <<"done", x, i>> /\ done[x][i].req = r
<1>1. ASSUME NEW pl \in places(r) PROVE In(pl)
  <2>1. CASE pl \in {<<"fetched", c, 0>> : c \in {c \in Cpu : r \in req[c]}}
    BY <2>1
  <2>2. CASE pl \in {<<"queued", "", i>> : i \in entries_of(queue, r)}
    BY <2>2 DEF entries_of
  <2>3. CASE pl \in UNION {{<<"done", x, i>> : i \in entries_of(done[x], r)} : x \in Context}
    <3>1. PICK x \in Context : pl \in {<<"done", x, i>> : i \in entries_of(done[x], r)}
      BY <2>3
    <3> QED BY <3>1 DEF entries_of
  <2> QED BY <2>1, <2>2, <2>3 DEF places
<1>2. /\ r \in pending => (r \notin ended /\ r \notin lost)
      /\ r \in ended => r \notin lost
      /\ r \in Settled <=> (r \in pending \/ r \in ended \/ r \in lost)
      /\ r \in Fetched <=> \E c \in Cpu : r \in req[c]
      /\ ~(r \in Settled /\ r \in Fetched)
      /\ \A c, d \in Cpu : (r \in req[c] /\ r \in req[d]) => c = d
  BY DEF IInv, Disjoint, Settled, Fetched
<1>3. ASSUME NEW i \in 1 .. Len(queue), queue[i].req = r
      PROVE  /\ r \notin Settled /\ r \notin Fetched
             /\ \A j \in 1 .. Len(queue) : queue[j].req = r => j = i
  BY <1>3 DEF IInv, Disjoint, AloneInQueue
<1>4. ASSUME NEW x \in Context, NEW i \in 1 .. Len(done[x]), done[x][i].req = r
      PROVE  /\ r \notin Settled /\ r \notin Fetched
             /\ \A j \in 1 .. Len(queue) : queue[j].req # r
             /\ \A y \in Context : \A j \in 1 .. Len(done[y]) :
                  done[y][j].req = r => (y = x /\ j = i)
  BY <1>4 DEF IInv, Disjoint, AloneInDone
<1>5. CASE r \in Settled
  <2>1. ASSUME NEW pl \in places(r)
        PROVE  \/ pl = <<"pending", "", 0>> /\ r \in pending
               \/ pl = <<"ended", "", 0>> /\ r \in ended
               \/ pl = <<"lost", "", 0>> /\ r \in lost
    BY <1>1, <1>2, <1>3, <1>4, <1>5
  <2> HIDE DEF In
  <2> QED BY <1>2, <2>1
<1>6. CASE r \in Fetched
  <2>1. ASSUME NEW pl \in places(r)
        PROVE  \E c \in Cpu : pl = <<"fetched", c, 0>> /\ r \in req[c]
    BY <1>1, <1>2, <1>3, <1>4, <1>6
  <2> HIDE DEF In
  <2> QED BY <1>2, <2>1
<1>7. ASSUME NEW i \in 1 .. Len(queue), queue[i].req = r PROVE p = q
  <2>1. ASSUME NEW pl \in places(r) PROVE pl = <<"queued", "", i>>
    BY <1>1, <1>2, <1>3, <1>4, <1>7
  <2> HIDE DEF In
  <2> QED BY <2>1
<1>8. ASSUME NEW x \in Context, NEW i \in 1 .. Len(done[x]), done[x][i].req = r
      PROVE  p = q
  <2>1. ASSUME NEW pl \in places(r) PROVE pl = <<"done", x, i>>
    <3>1. \E y \in Context : \E j \in 1 .. Len(done[y]) :
            pl = <<"done", y, j>> /\ done[y][j].req = r
      BY <1>1, <1>2, <1>4, <1>8
    <3> QED BY <1>4, <1>8, <3>1
  <2> HIDE DEF In
  <2> QED BY <2>1
<1> QED
  <2>1. In(p)
    BY <1>1
  <2> QED BY <1>2, <1>5, <1>6, <1>7, <1>8, <2>1

\* A request has one owner at any moment: none is ended twice, ended while it is
\* still queued, or queued twice, by whatever number of CPUs and by both timers.
THEOREM OwnedOnce == Spec => []OneOwner
  BY DisjointOwner, Invariance, PTL

\* No request is ended before its simulated time.
THEOREM EndedWhenDue == Spec => []NeverEarly
<1>1. IInv => NeverEarly
  BY DEF IInv
<1> QED BY <1>1, Invariance, PTL

\* Whoever has entries to end holds the queue lock that __blk_end_request_all needs.
THEOREM EndedUnderLock == Spec => []EndsUnderLock
<1>1. ASSUME IInv PROVE EndsUnderLock
  <2> SUFFICES ASSUME NEW x \in Context, done[x] # <<>> PROVE rq_lock = {x}
    BY DEF EndsUnderLock
  <2>1. pc[x] = "end"
    BY <1>1 DEF IInv, DoneInHandleQueue
  <2> QED BY <1>1, <2>1 DEF IInv, TypeOK, Control, Inside
<1> QED BY <1>1, Invariance, PTL

\* handle_queue leaves nothing behind that was due by the time it read: it stops
\* at the first entry that is not, and the queue is sorted.
THEOREM AllDueTaken == Spec => TakesAllDue
<1>1. ASSUME IInv, [Next]_vars, NEW x \in Context, pc[x] = "pop", pc'[x] = "end"
      PROVE  \A i \in 1 .. Len(queue') : queue'[i].ktime > clock[x]
  <2>1. HandleQueuePop(x)
    <3>1. pc \in [Context -> cpu_pc \cup timer_pc]
      BY <1>1 DEF IInv, TypeOK
    <3> QED
      BY <1>1, <3>1, CpuAssumption
      DEF Next, CpuRuns, CpuLocks, TimerRuns, HandleQueue, vars, Tick, Submit, Enter,
          Return, Fetch, FetchBad, HandleQueuePop, HandleQueueEnd, HandleQueueReturn,
          Fire, restart, PeekEmpty, PeekHead, ReadHead, ReadNull, Deref, NoRestart,
          Io, EndEarly,
          AddIoTimer, AddIoTimerFails, Relock, goto, Context
  <2> QED BY <1>1, <2>1, PoppedEntries DEF HandleQueuePop, IInv
<1>2. IInv /\ [Next]_vars =>
        [\A x \in Context : (pc[x] = "pop" /\ pc'[x] = "end") =>
           \A i \in 1 .. Len(queue') : queue'[i].ktime > clock[x]]_vars
  BY <1>1
<1> QED BY <1>2, Invariance, PTL DEF Spec, TakesAllDue
===============================================================================
