----------------------------- MODULE ChannelTable -----------------------------
(***************************************************************************)
(* The scheduling table of a bus channel as ssd_channel_lock2 uses it     *)
(* (ssd_channel.c, ssd_quicksort.c): it looks for a gap between the       *)
(* reservations it knows.  Nothing calls it at present; ssd_channel_lock  *)
(* (BusChannel.tla) took its place.  simlock would serialise the calls.   *)
(***************************************************************************)
EXTENDS Integers, FiniteSetsExt

CONSTANTS table_size,
          StartTimes, LockDurations,
          BLOCK_ERASE_DELAY,
          Horizon              \* bound on unlock times

ASSUME TableSizeAssumption == table_size \in Nat /\ table_size >= 2
ASSUME TableTimesAssumption ==
  StartTimes \subseteq Nat /\ LockDurations \subseteq Nat \ {0} /\ BLOCK_ERASE_DELAY \in Nat

FREE == -1                     \* BUS_CHANNEL_FREE_FLAG
Slot == 0 .. (table_size - 1)

Table == [lock_time : [Slot -> Nat \cup {FREE}], unlock_time : [Slot -> Nat \cup {FREE}]]

VARIABLES table,               \* the arrays lock_time and unlock_time
          table_entries,       \* how many slots are in use
          last                 \* the last call and its outcome

table_vars == <<table, table_entries, last>>

TableInit ==
  /\ table = [lock_time |-> [i \in Slot |-> FREE], unlock_time |-> [i \in Slot |-> FREE]]
  /\ table_entries = 0
  /\ last = [start |-> 0, duration |-> 0, ret |-> "none", wait |-> 0]
-------------------------------------------------------------------------------
exchange(f, i, j) == [f EXCEPT ![i] = f[j], ![j] = f[i]]

\* (mutant of swap) the second array is forgotten.
swap_first(t, i, j) == [t EXCEPT !.lock_time = exchange(@, i, j)]

\* _swap in both arrays.
swap(t, i, j) ==
  [lock_time |-> exchange(t.lock_time, i, j), unlock_time |-> exchange(t.unlock_time, i, j)]

\* The body of partition's loop: acc has the arrays and the last slot of those
\* found to be no greater than the pivot.
partition_step(acc, j, pivot) ==
  IF acc.t.lock_time[j] <= pivot
  THEN [t |-> swap(acc.t, acc.i + 1, j), i |-> acc.i + 1]
  ELSE acc

\* partition: the table rearranged around the last element, and where that went.
\* loop[n] is what n turns of the loop leave.
partition(t, left, right) ==
  LET loop[n \in 0 .. (right - left)] ==
        IF n = 0 THEN [t |-> t, i |-> left - 1]
        ELSE partition_step(loop[n - 1], left + n - 1, t.lock_time[right])
      end == loop[right - left]
  IN  [t |-> swap(end.t, end.i + 1, right), i |-> end.i + 1]

\* quicksort: sort[n] is what it does to at most n slots.
quicksort(t, left, right) ==
  LET sort[n \in 0 .. table_size] ==
        [x \in Table \X (0 .. table_size) \X (-1 .. (table_size - 1)) |->
           LET l == x[2]
               r == x[3]
               p == partition(x[1], l, r)
           IN  IF n = 0 \/ l >= r THEN x[1]
               ELSE sort[n - 1][<<sort[n - 1][<<p.t, l, p.i - 1>>], p.i + 1, r>>]]
  IN  sort[table_size][<<t, left, right>>]

used(t)          == {i \in Slot : t.unlock_time[i] # FREE}
expired(t, time) == {i \in used(t) : t.unlock_time[i] <= time}

\* The first half of ssd_channel_unlock: expired entries are freed.
release(t, time) ==
  [lock_time   |-> [i \in Slot |-> IF i \in expired(t, time) THEN FREE ELSE t.lock_time[i]],
   unlock_time |-> [i \in Slot |-> IF i \in expired(t, time) THEN FREE ELSE t.unlock_time[i]]]

\* ssd_channel_unlock.
unlocked(t, time) == quicksort(release(t, time), 0, table_size - 1)

\* (mutant of fits_before) the event need only start before the first one.
starts_before(t, first, start, d) == t.lock_time[first] > start

\* The first entry leaves enough time before it.
fits_before(t, first, start, d) ==
  t.lock_time[first] > start /\ t.lock_time[first] - start >= d

\* (mutant of gaps) only time to spare will do.
gaps_wider(t, first, start, d) ==
  {i \in first .. (table_size - 3) : /\ t.unlock_time[i] >= start
                                     /\ t.lock_time[i + 1] - t.unlock_time[i] > d}

\* The slots after which there is enough time; the last but one is not tried.
gaps(t, first, start, d) ==
  {i \in first .. (table_size - 3) : /\ t.unlock_time[i] >= start
                                     /\ t.lock_time[i + 1] - t.unlock_time[i] >= d}

\* Where ssd_channel_lock2 puts an event, in a sorted table with a free slot.
sched_time2(t, start, d) ==
  IF used(t) = {} THEN start
  ELSE LET first == Min(used(t))
       IN  IF fits_before(t, first, start, d) THEN start
           ELSE IF gaps(t, first, start, d) # {}
                THEN t.unlock_time[Min(gaps(t, first, start, d))]
           ELSE t.unlock_time[table_size - 1]

\* (mutant of entries_after) an expired entry stays counted.
entries_kept(start) == table_entries

\* table_entries after the unlock.
entries_after(start) == table_entries - Cardinality(expired(table, start))

\* There is a slot: the event is scheduled, and slot 0, free because the free
\* slots sort first, remembers it.
Lock2(start, d) ==
  LET t == unlocked(table, start)
      s == sched_time2(t, start, d)
  IN  /\ entries_after(start) < table_size
      /\ s + d <= Horizon
      /\ table' = [lock_time   |-> [t.lock_time EXCEPT ![0] = s],
                   unlock_time |-> [t.unlock_time EXCEPT ![0] = s + d]]
      /\ table_entries' = entries_after(start) + 1
      /\ last' = [start |-> start, duration |-> d, ret |-> "SUCCESS", wait |-> s - start]

\* The table is full: the event is delayed by a fixed time and fails, and the
\* table is cleared.
Lock2Full(start, d) ==
  /\ entries_after(start) >= table_size
  /\ table' = [lock_time |-> [i \in Slot |-> FREE], unlock_time |-> [i \in Slot |-> FREE]]
  /\ table_entries' = 0
  /\ last' = [start |-> start, duration |-> d, ret |-> "FAILURE",
              wait |-> 2 * BLOCK_ERASE_DELAY]

TableNext == \E start \in StartTimes, d \in LockDurations : Lock2(start, d) \/ Lock2Full(start, d)

TableSpec == TableInit /\ [][TableNext]_table_vars
-------------------------------------------------------------------------------
\* The table is well formed, its count is right, and a slot is free in both of
\* its arrays or in neither.
TableTypeOK ==
  /\ table \in Table
  /\ table_entries = Cardinality(used(table))
  /\ \A i \in Slot : (table.lock_time[i] = FREE) = (table.unlock_time[i] = FREE)
  /\ last.wait \in Nat

reservations(t) == {<<t.lock_time[i], t.unlock_time[i]>> : i \in used(t)}

\* The reservations in the table never overlap, whatever the order of the start
\* times: "before all", "in between" and "after all" leave no other case.
SlotsDisjoint ==
  \A i, j \in used(table) :
    i # j => \/ table.unlock_time[i] <= table.lock_time[j]
             \/ table.unlock_time[j] <= table.lock_time[i]

\* Sorting two arrays side by side loses and mixes up nothing: after a call the
\* table holds the reservations that had not expired and the new one.
KeepsReservations ==
  [][last'.ret = "SUCCESS" =>
       reservations(table') =
         {r \in reservations(table) : r[2] > last'.start} \cup
         {<<last'.start + last'.wait, last'.start + last'.wait + last'.duration>>}]_table_vars

\* Between the reservations in R there is room for one of d units from s on.
Room(R, s, d) == \A r \in R : r[2] <= s \/ s + d <= r[1]

\* ssd_channel.c:132: an event is sent "as soon as bus channel is available",
\* with one exception: when it is made to wait longer than it must, all the room
\* it could have had sooner is in the gap before the last reservation.
WaitsForLastGapOnly ==
  [][last'.ret = "SUCCESS" =>
       LET R == {r \in reservations(table) : r[2] > last'.start}
           d == last'.duration
       IN  \A s \in last'.start .. (last'.start + last'.wait - 1) :
             Room(R, s, d) =>
               \E r \in R : /\ R # {r} /\ s + d <= r[1]
                            /\ \A q \in R \ {r} : q[2] <= s]_table_vars

\* ssd_channel.c:252: the table is sorted "by finish times (2nd row)", though the
\* code sorts it by lock times: slots 1 and up are, after any call.
SortedByFinish ==
  \A i, j \in 1 .. (table_size - 1) : i < j => table.unlock_time[i] <= table.unlock_time[j]
===============================================================================
