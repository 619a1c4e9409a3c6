# ramssd in TLA+

ramssd is a Linux block driver with an SSD simulator inside it. The driver
(`brd.c`) keeps the disk's contents in a tree of RAM pages, and asks the
simulator (`ssd_*.c`, derived from FlashSim) how long each request would have
taken on flash; a request is answered when that time has passed. This directory
holds TLA+ models of both halves, the TLC runs that check them on small
instances, and TLAPS proofs of their safety properties and refinements for every
size.

Sections: [the system](#the-system), [modules](#modules),
[runs](#runs-and-bounds), [fairness](#fairness), [findings](#findings),
[proofs](#proofs), [only model-checked](#what-is-only-model-checked),
[not modelled](#what-is-not-modelled), [plan](#plan), [usage](#usage).

## The system

```
 block layer ── rq_lock ──> do_request (one per CPU)
                             │ 1 handle_queue: end the requests that are due
                             │ 2 io_mutex:     copy the data        → page tree
                             │ 3 simlock:      ssd_event_arrive per flash page
                             │                  Ssd → Package → Die → Plane → Block → Page
                             │                  Ssd → Bus → Channel (reservation)
                             │ 4 queuelock:    add_io_timer(start + longest page)
 hrtimer_callback, hrtimer_callback2 ── handle_queue, reset_timer
 ioctl BLKFLSBUF ── brd_mutex, bd_mutex ──> brd_free_pages
```

| component | state | operations | what makes it correct | what is hard |
|---|---|---|---|---|
| page, block (`ssd_page.c`, `ssd_block.c`) | page states, `pages_valid`, `pages_invalid`, block state, last erase time | read, write, erase, invalidate, next page | the counters and the block's state agree with the pages; a page is programmed once per erase | three redundant records kept up to date by different functions |
| plane (`ssd_plane.c`) | blocks, `next_page`, `free_blocks`, `least_worn`, `last_erase_time` | read, write, erase, merge, get_next_page, update_wear_stats | never says "full" while there is room; merges lose nothing when they say SUCCESS; no block is lost | the cached next page is refreshed before the write; the merge's shared counters |
| die, package (`ssd_die.c`, `ssd_package.c`) | children, erase times | forward | the call reaches the addressed plane | – |
| front end (`ssd_ssd.c`, `ssd_event.c`) | the tree of packages, the bus | `ssd_event_arrive` | distinct page numbers are distinct pages; a failed call holds nothing; the result is the release of the channel used | boundary page number, bank groups, order of flash and bus parts |
| bus, channel (`ssd_bus.c`, `ssd_channel.c`) | slot 0 of each channel's table | `ssd_channel_lock` | reservations do not overlap, wait only for a reason | start times arrive out of order |
| scheduling table (`ssd_channel_lock2`, `ssd_quicksort.c`) | `lock_time`, `unlock_time`, `table_entries` | lock2, unlock, quicksort | no reservation lost or overlapped, the earliest gap it looks at taken | sorting two arrays by one, full table, index bounds |
| completion (`brd.c`) | `brd->queue`, two hrtimers, `rq_lock`, `queuelock` | do_request, handle_queue, add_io_timer, reset_timer, two callbacks | every request ended once, not early, under the queue lock, and eventually | CPUs and callbacks interleave; the head is read without a lock; kmalloc fails |
| backing store (`brd.c`) | the page tree, `io_mutex` | read, write, discard, BLKFLSBUF | a bio is atomic against others; a page under a bio is not freed | the flush takes other locks than the bios; alloc_page fails half way |
| request geometry (`brd.c:842-896`, `settings.h`) | each CPU's request, `simlock` | sectors to flash pages, the loop over `ssd_event_arrive` | a request acts on exactly its pages, as a whole; its time is its latest page's | rounding, the reserved block, a page that fails, other CPUs |
| lifecycle (`brd.c`, `ssd_ssd.c`) | what is registered and allocated, the timers, openers | brd_init, brd_alloc, brd_probe, brd_exit, brd_del_one | nothing used after it is freed, nothing left behind | order of teardown, allocations that fail, timers that fire meanwhile |
| older driver (`syncbrd.c`) | the page tree, `brd_lock` | read, write, discard, BLKFLSBUF | each sector read or written once, no page lost | bios run concurrently, and look pages up without a lock |
| test drivers, configuration, build files | | | | not part of the running module |

The hard behaviours, each at its line, are the `hazards` of `PROJECT.json`, with
the properties that would notice if they went wrong.

## Modules

| module | models | composes |
|---|---|---|
| `FlashBlock` | pages and blocks: one operator per method, from the block before the call to the one after | |
| `FlashPlane` | the plane's methods, the same way | `FlashBlock` |
| `PlaneSpec` | the plane as a state machine: any caller, any in-range address | `FlashPlane` |
| `PlaneMerge` | `ssd_plane_merge` loop iteration by iteration | `PlaneSpec`, which it implements |
| `BusChannel` | `ssd_channel_lock` as operators | |
| `BusSchedule` | CPUs that read the clock, take simlock, reserve a channel per page | `BusChannel` |
| `RawFlash` | abstract: write-once pages with erase units | |
| `SsdDevice` | `ssd_event_arrive` on the whole device, as operators and actions for a caller | `FlashPlane`, `BusChannel` |
| `RangeFlash` | abstract: requests that act at one moment on the pages their sectors cover | |
| `Driver`, `MCDriver` | do_request on several CPUs, from sectors to the answer | `SsdDevice`; implements `RangeFlash` and `RawFlash` |
| `ChannelTable` | `ssd_channel_lock2`, `ssd_channel_unlock`, quicksort; its names differ from `BusSchedule`'s, so that one module can hold the proofs of both | |
| `CompletionQueue`, `MCCompletion` | do_request's life cycle, the queue, the timers | |
| `Segments` | the size of a bio, which is a sequence of segments | |
| `BackingStore`, `MCBackingStore` | the page tree, bios sector by sector, BLKFLSBUF | |
| `SectorStore` | abstract: concurrent bios, each sector of which is touched once | |
| `SyncStore`, `MCSyncStore` | the older driver's page tree and bios | implements `SectorStore` |
| `Lifecycle`, `MCLifecycle` | loading, use and unloading of the module | |
| `PlaneProofs`, `BusProofs`, `DriverProofs`, `CompletionProofs`, `StoreProofs`, `SyncStoreProofs`, `LifecycleProofs` | theorems | `PlaneSpec` and `PlaneMerge`, `BusSchedule` and `ChannelTable`, `Driver`, `CompletionQueue`, `BackingStore`, `SyncStore`, `Lifecycle` |
| `NumberLemmas` | lemmas: least and greatest numbers, induction, division, functions computed step by step, sums over segments | used by the proofs |

`PROJECT.json` maps each definition to the lines it stands for. Definitions keep
the code's names. A comment "(mutant of X)" marks an operator that changes X the
way a plausible bug would; no specification uses it, and each property is known
to fail when it takes X's place.

**Plane.** `Block` and `Plane` are records of the C structs' fields. `PlaneSpec`
has one action per method; `last` remembers the call and its status. The plane
has no lock and needs none, since simlock serialises its callers, so each method
is one step. An erase changes the block, the wear statistics and, if the next
page is not valid, the next page, all in `plane_erase`. A failing assert
(`BUG_ON` in the kernel) sets `halted`. The erase counter exists only in builds
with `HAS_WL`, which this build is not, so an erase always succeeds.

`PlaneMerge` unrolls the merge: `merge` holds the function's locals. The events'
page is the constant 0 because the addresses are copied into the events before
the loops, which then advance only the locals. While a merge runs, no other call
starts. Its refinement mapping shows `PlaneSpec` the plane from before the merge
until the merge ends.

**Bus.** A context reads the clock (`ReadClock`), waits for simlock (`Lock`),
simulates any number of pages on any channels (`SimulatePage`), one of which may
fail (`FailPage`), and leaves (`Unlock`). `log` and `released` are history
variables: the code has neither. The page count and the operation's times come
from the request; here they are any values of `Durations`.

**Device.** `ArriveRead`, `ArriveWrite` and `ArriveErase` are whole calls of
`ssd_event_arrive`: decoding, the flash part, the bus part, and the time
returned. Page numbers go up to `TOTAL`, which the assert admits. The bus is
reserved from the start time for the time taken so far, and the wait is added.

**Driver.** A CPU fetches a request (any of `Requests`, any clock value), leaves
early, or converts the request, reads the clock (`Begin`), takes simlock
(`Lock`), makes one `Arrive` per event and leaves (`Unlock`). A step ends where
another CPU can come in. The conversion is the code's own: nine sectors to a
page for the start; for the length nine, or eight if the length is no multiple
of nine. A page number beyond the assert stops the CPU, with simlock held
(`AssertFails`). The data's copy is `BackingStore`'s; here it can only fail, for a
write (`EndEarly`: no memory, or a bio that is no clone). `before` and `answered`
are history variables. `ImplementsRangeFlash` shows the abstract device the pages
from before the request until simlock is released.

**Lifecycle.** `pc` names the next call or label of brd_init, brd_alloc, brd_exit
or brd_del_one, one resource a step; `held` is what has been acquired. Clients
open and close the disk and submit requests, and each timer goes through armed,
running, handled, and restart or norestart. Which queued requests are due is left
open, so the properties hold for any times. External: the module loader (rmmod is
refused while the disk is open, and an opener pins the module), the last close,
which waits for the requests, and `hrtimer_cancel`, which waits for a running
callback. The order of teardown is safe for these reasons and not by
itself; the properties say so.

**Older driver.** `syncbrd.c` shares the tree's layout with `brd.c`, but nothing
serialises its bios. A segment is a pass that makes its pages exist (`Allocate`,
`Insert`, `SetIndex`, or `InsertLoses` if another process was first) and a pass
that copies sector by sector. A page is found without a lock, and between `Insert`
and `SetIndex` its index is whatever its memory held, so `LookupFails` can stop
the finder. A discard clears whole pages, as many as its length holds, from the page
its first sector is in (`first_of`, `lens_of`): an unaligned one clears sectors it
does not name, and not all it names. `sectors_of` is what a bio does, `range` what it
names. `BLKFLSBUF` looks at `openers` alone, as in `brd.c`: with an open file that is
shared (`SharedOpen`) it runs under another process's bio. It is one step; a process
with a pointer to a page that goes away is `freed`, and is not followed further, and
a flush that comes to a page without its index stops at `BUG_ON` with bd_mutex held
(`bug_flush`).

**Completion.** A step is a piece of code no other context can see the middle
of. `pc` values name where a context stands: `fetch`, `pop`, `end` with rq_lock;
`io`, `early`, `add`, `relock` without. `handle_queue` reads the clock before it
takes queuelock (`clock`), moves the due entries to a private list in one step,
and ends them one by one. The callbacks take rq_lock with trylock. `reset_timer`
and hrtimer_callback2 look at the head of the queue without a lock, in three steps:
`PeekHead` finds that there is one, `ReadHead` reads the pointer again, and `Deref`
reads the ktime behind it. If another context has emptied the queue before the
second read, `ReadNull` goes through a NULL pointer and the callback never returns
(`oops`); if the entry was freed before the third, `Deref` uses any time. A build
that keeps the first value of the pointer is included: it takes the first two steps
at one moment. One unit of time stands for any interval in
which nothing changes; the 101 ns of `my_ktime_sub` are one unit. External: the
block layer's `Submit` and `Enter`, the clock, and the hrtimer core.

**Backing store.** A bio holds io_mutex from `StartBio` to `end_bio`. A write's
segment is a pass of `SetupSector` and a pass of `WriteSector`; both go sector by
sector as `brd_do_bvec` does. `BUG_ON(!page)` stops the process where it stands.
`Flush` holds bd_mutex, so opening and closing wait, but not io_mutex. `openers`
is the kernel's count: a file shared by two processes counts once
(`SharedOpen`). An unaligned discard clears the whole page it starts in and not
the page it ends in, as `discard_from_brd` does; nothing in the repository says
what it should do, so no property does.

**Scheduling table.** `Lock2` releases, sorts with the code's own partition
scheme, searches and inserts in one step. The loop of `partition` and the calls
of `quicksort` are recursive functions, `loop[n]` for n turns and `sort[n]` for at
most n slots, so that proofs reach them. Nothing calls `ssd_channel_lock2` in
this version (`ssd_channel_lock` took its place); it is modelled as the
algorithm it is.

## Runs and bounds

| run | configuration | question | 
|---|---|---|
| `plane` | 2 blocks of 4 pages, end time 1, `free_blocks` ≤ 4 (two erases) | are the counters, states and the next page right after any calls |
| `plane_merge` | 2 blocks of 4 pages, end time 0 (all delays 0), one erase | do the loops end, stay in bounds, and amount to the atomic merge |
| `bus` | 2 CPUs, 2 channels, durations {1,2}, clock ≤ 3, 2 reservations per channel | overlap, needless wait, deadline |
| `driver` | 2 CPUs; 2 packages in one bank group, each 2 blocks of 2 pages of 2 + 1 sectors; nine requests; start time 1, unlock times ≤ 4, one erase per plane | does a request act as a whole on its own pages; is the device a flat array of write-once pages; channel indices, time of the answer, failed calls |
| `driver_assert` | the same device, 1 CPU, reads of any length that end where the disk ends | finding |
| `completion` | 2 CPUs, 4 requests of which one is beyond the capacity, latencies {0,2}, kmalloc may fail, clock ≤ 3; CPUs and good requests symmetric | safety of the completion |
| `completion_live` | 2 CPUs, 2 requests, no failures, clock ≤ 2 | is every request ended, does do_request return |
| `lifecycle` | 3 requests, 2 openers, 2 channels that take 2 of 3 dies, parameters accepted and refused, with and without partitions; any allocation may fail; the module is loaded again and again | is anything used after it is released; what is left behind |
| `store` | 2 processes, 3 pages of 2 sectors, bios of one segment (1 or 3 sectors) or two, batches of 2, failing allocation, separate opens | atomicity, setup, flush |
| `store_shared` | the same, with one open file for both | finding |
| `sync_store` | 2 processes, 2 pages of 2 sectors, reads and writes of one segment across the border and of two segments, a discard of two pages and one that begins inside a page; failing allocation, separate opens | atomicity of sectors, insertion races, asserts |
| `table` | 4 slots, start times 0..3, durations {1,2}, unlock times ≤ 10 | overlap, loss, room that is wasted |

Why the bounds are enough for the case in question:

- Two blocks of four pages have a block with VALID, INVALID and EMPTY pages at
  once, a full plane, a full block beside a free one, and a merge with more, as
  many or fewer pages than fit. Four pages are needed for a merge that moves two:
  with three, the loops' shared counters never matter. `free_blocks` only counts up, so it needs a
  bound; it decides nothing in the plane.
- Two contexts, two start times and two reservations on one channel are what an
  overtaking needs; the theorems lift this bound.
- In `driver`, requests overlap, cross blocks and packages, start in the reserved
  block or behind it, end inside a block (an erase of three pages), fail at their
  first or a later page, have one sector, or run past the device. Each channel has room for three
  reservations: both pages of a block and an erase, in any order. The run has one start
  time; that requests with different ones are answered at their last release is left to
  the theorem `AnsweredAtLastRelease`.
- In `lifecycle`, every label of the error paths is reached, from every resource;
  three requests can be running, queued and being ended at once.
- In `sync_store`, both bios meet on each page, one that is missing included, and
  the segment across the border makes two pages and can fail at either.
- In `completion`, an entry can be due, not due, or due at the same time as
  another; three good requests make a queue in which a middle entry exists. The
  clock stops at `MaxTime`, where every later time is equal, so all entries
  become due; a timer's expiry is capped in the same way.
- In `store`, three pages and batches of two give full, partial and empty
  batches, and sparse trees. Bios of two segments cross page borders.
- In `table`, four slots give the full table, the empty one, a gap before,
  between and after, the last one included; the theorems lift this bound.

`CHECK_DEADLOCK FALSE` stands where the system may stop: `PlaneSpec`,
`PlaneMerge`, `MCSyncStore` and `DriverAssert` (a failed assert halts the kernel
or its process), `MCCompletion` and `MCLiveness` (a callback that has read through a
NULL pointer), and where a bound on times (`Horizon`) leaves no call that fits
(`MCDriver`, `ChannelTable`). Elsewhere TLC checks that the system is never stuck.
In `completion` the CPU with the bad request spins for ever while the second timer
goes on.

## Fairness

`CompletionQueue` assumes, in `FairSpec`: the clock advances, a CPU inside
do_request goes on and a due timer fires and runs its callback (weak fairness
of `Tick`, `CpuRuns`, `TimerRuns`: the kernel's CPUs and clock do not stop and
interrupts are served); a CPU that waits for rq_lock gets it if it is free again
and again (strong fairness of `CpuLocks`: spin locks are ticket locks, granted
in order). A callback only tries the lock and needs no fairness for it. No
fairness is put on `Submit`. With finitely many requests do_request returns; in
the code it may be kept busy as long as requests keep coming.

The second timer (`LONG_TERM_TIMER`) matters for liveness: the first timer is
not brought forward when an earlier entry becomes the head, and an entry that is
added while its callback is about to return HRTIMER_NORESTART finds the timer
active and does not start it. `EveryRequestEnds` holds because the second timer
is always armed again, and fails if it stops on an empty queue. The one thing that
stops it in the code is the crash in `ReadNull`, which the property therefore
excepts: a request is ended, or the second timer's callback has crashed. Nothing in
the repository says that it cannot, so this is no finding; it is the hazard at
`brd.c:620`.

`PlaneMerge` assumes that a merge that has started goes on (weak fairness of its
steps): it is sequential code.

## Findings

Each is a run that TLC finds violated, quoting what the source says.

| run | the source says | the code does |
|---|---|---|
| `driver_assert` | the assert of `ssd_event_arrive`: a page number is at most the number of pages (`ssd_ssd.c:173`) | a read within the capacity whose length is no multiple of nine sectors is given more pages than it has sectors for, so one that ends where the disk ends runs past the device; `BUG_ON`, simlock held |
| `store_shared` | pages are never deleted under us (`brd.c:135-136`) | BLKFLSBUF by one of two processes that share an open file deletes them; `BUG_ON` |

The older driver says the same (`syncbrd.c:63-64`) and has the same flaw: its flush
looks at `bd_openers` alone (line 438) and takes no lock that a bio takes, so with a
shared open file the other's write misses its pages (`BUG_ON`, line 242) or goes on in
one that is freed. There is no run of its own for it; with `SharedOpen = TRUE` in
`MCSyncStore.cfg`, TLC finds `StopsOnlyInWindow` and `ImplementsSectorStore` violated,
and `PagesAccounted` not.

`StopsOnlyInWindow` bounds one more, in the older driver: `brd_insert_page`
sets a page's index after the page can be found (`syncbrd.c:121-127`), and the
assert of `brd_lookup_page` (line 78) fails for a process that finds it in
between. With separate opens this is the only way an assert on pages fails; with a
shared open file a flush is another.

The models keep more behaviours that a comment denies and that nothing in this
version depends on; no run is spent on them:

- a write never lowers `free_blocks`, because it compares the block's state with
  itself, and an erase raises it also for a free block (`ssd_plane.c:118-125`, 143,
  against 369);
- a merge reads and writes page 0 for each page it moves (`ssd_plane.c:204-215`,
  against 154), so it can lose pages, but not without saying so
  (`MergeSuccessKeepsPages`);
- an event whose start time lies before the last reservation is put behind it even
  if the channel was free (`ssd_channel.c:237`, against `ssd_bus.c:120`);
- no `rd_nr` but 0 is accepted, neither a number of disks nor -1, which line 1057
  provides for (`brd.c:1054-1060`, against 1028);
- get_next_page runs before the page is programmed, so `next_page` can name the
  page just written (`ssd_plane.c:122`, against 336-337);
- a full plane shows `BLOCK`, not `PLANE` (`ssd_plane.c:358`, against 120-121);
- `last_erase_time` of a plane is always block 0's (`ssd_plane.c:317`, against
  128-129);
- a merge of two different blocks fails an assert (`ssd_plane.c:180`, against
  152-156): the action `MergeInto`;
- `ssd_channel_lock2` never tries the gap before the last entry
  (`ssd_channel.c:194`, against 132); `WaitsForLastGapOnly` shows that this is the
  only room it wastes.

## Proofs

Checked by TLAPS for every value of the constants. They rest on the assumptions
named in the modules, which TLC evaluates in the runs: sizes are positive
naturals, times are naturals, durations are positive, a scheduling table has two
slots or more, bios have at least one
segment and segments at least one sector, the processes of the two stores are
finitely many (they are counted), CPUs are not timers. CPUs, requests, channels
and values are arbitrary sets, even infinite ones. Each module proves an inductive
invariant (`Invariance`; for the table `TableInvariant`), then what follows from it.

| module | theorem | property |
|---|---|---|
| `PlaneProofs` | `TypeCorrect`, `AccountingCorrect`, `FreeSpaceIsKnown`, `BlocksStayInUse` | `TypeOK`, `BlockAccounting`, `FreeSpaceKnown`, `NoBlockRetires` |
| | `NoPageUpdatedInPlace`, `MergeCanBeBelieved` | `NoInPlaceUpdate`, `MergeSuccessKeepsPages` |
| | `MergeLoopsAreBounded`, `MergeIsAtomic` | `MergeLoopsBounded`, `ImplementsPlaneSpec` |
| `BusProofs` | `TypeCorrect`, `ReservationsDisjoint`, `NoIdleWait`, `AnsweredAtLastRelease` | `TypeOK`, `NoOverlap`, `BackToBack`, `DeadlineIsLastRelease` |
| | `Quicksort` | quicksort sorts by lock time and keeps the pairs together |
| | `TableTypeCorrect`, `TableReservationsDisjoint` | `TableTypeOK`, `SlotsDisjoint` |
| | `ReservationsKept`, `OnlyLastGapMissed` | `KeepsReservations`, `WaitsForLastGapOnly` |
| | `TableSortedByFinish` | `SortedByFinish`: the comment at `ssd_channel.c:252` (no run spends a property on it) |
| `DriverProofs` | `DeviceCorrect`, `AssertedOnlyForParts`, `AnsweredAtLastRelease`, `FailuresAreHarmless` | `DeviceTypeOK`, `WithinDevice`, `AnswerIsLastRelease`, `FailureChangesNothing` |
| | `RawFlashRefined`, `RangeFlashRefined` | `ImplementsRawFlash`, `ImplementsRangeFlash` |
| `CompletionProofs` | `TypeCorrect`, `OwnedOnce`, `EndedWhenDue`, `EndedUnderLock`, `AllDueTaken` | `TypeOK`, `OneOwner`, `NeverEarly`, `EndsUnderLock`, `TakesAllDue` |
| `StoreProofs` | `SetupUnseen`, `ReadsAreSnapshots`, `WritesAreWhole`, `PagesStayUnderBios`, `FlushesFreeAll` | `SetupIsInvisible`, `ReadIsSnapshot`, `WriteIsWhole`, `PagesStay`, `FlushFreesAll` |
| | `WritesFindPages` | `BUG_ON(!page)` of `copy_to_brd` is never reached |
| `SyncStoreProofs` | `PagesCounted`, `StopsInWindow`, `SectorStoreImplemented` | `PagesAccounted`, `StopsOnlyInWindow`, `ImplementsSectorStore` |
| `LifecycleProofs` | `NotFreedInUse`, `NothingLeft` | `NothingFreedInUse`, `LeavesNothing` |

Some theorems have a hypothesis, which their runs satisfy:

- `RangeFlashRefined` is about requests made of whole pages (`WholePages`; `MCDriver`
  assumes it of its nine requests). For others nothing says which pages are meant,
  and the finding `driver_assert` shows what can happen.
- The theorems of `StoreProofs`, but for `SetupUnseen`, are about processes that
  opened the device separately (`~SharedOpen`, as in `MCBackingStore.cfg`); the finding
  `store_shared` shows that `PagesStay` fails otherwise. So are `StopsInWindow` and
  `SectorStoreImplemented` of `SyncStoreProofs`;
  `PagesCounted` holds either way.

**Plane.** The inductive invariant is type correctness with `SoundPlane` – each
block's counters and state agree with its pages, and not all of its pages are
INVALID – and `KnowsSpace`. The accounting alone is not inductive for the block
states: `NoBlockRetires` needs `pages_valid` (which counts invalidated pages too) to
bound the INVALID pages, and "free space is known" needs that no block is INACTIVE,
since get_next_page skips those.

**Merge.** While its loops run, the block is the one the merge began with after some
moves (`AfterMoves`): the VALID pages before read_page are INVALID, and page 0 is VALID
if it was EMPTY and a round is complete. The locals are tied to that (`LoopsOK`):
num_merged counts those pages, no page before write_page is EMPTY, and errors is known
from the rounds (`ErrorsOK`). A page to move therefore still has an EMPTY page at or
after write_page (`RoomLeft`, from the count made at the start), and when the loops end
the block is what `PlaneSpec`'s merge makes of it (`AllMoved`).

**Bus.** The invariant adds to the properties that at most one context is inside
simlock, that slot 0 of a channel is the last reservation it granted (`SlotIsLast`:
what makes the new reservation follow all others, by transitivity, although only
one is remembered), that a grant's unlock is not before its lock
(`GrantsWellFormed`), and that a request which has released something has a known
`timeval` (`TimevalKnown`).

**Scheduling table.** Sorting comes first. What `partition` and `quicksort` do to the
table is a rearrangement of both arrays by one bijection of the slots, which fixes the
slots outside the range (`Shuffle`). `Parted` is the invariant of partition's loop:
no greater than the pivot up to i, greater up to j. `Sorts(F, n)` says of a
function that it sorts any range of n slots, and a turn of the recursion leads from n
to n + 1 (`ConquerSorts`: what is rearranged on one side of the pivot stays on
that side). The two functions exist by `Iteration`, and have these properties by
induction. The invariant of the table, `TableInv`, is then that each entry is free in
both arrays or is a reservation that ends after it begins, that no two of these overlap, and that
the count is right. Slot 0 is free after the sort, because a table that is sorted
and has a slot to spare has its free slots first; where an event is put, nothing else
is, because a table without overlaps that is sorted by lock time is sorted by finish time
(`FinishOrder`), so that "before all", "in between" and "after all" leave no
other case (`SchedTime`). If there was room sooner, the last entry that ends before it
is the last but one (`SoonerRoom`).

**Device and driver.** The lemmas come first: page numbers of the device are decoded
into different addresses, and the one past the end into that of page 0 (quotients and
remainders, level by level), so that each method of a package reaches one page of one plane, and each call of
`ssd_event_arrive` is one step of `RawFlash` or leaves it alone. The driver's
invariant adds what a CPU's locals have to do with its request (`CpuInv`) and that
simlock is held by the one CPU past taking it (`LockInv`). For `RangeFlash`,
`ProgressInv` says which pages are programmed after the first i events of the
request, relative to those before it; at `Unlock` these are the pages its sectors
cover.

**Completion.** `OneOwner` counts the places of a request and is not inductive; the
proof replaces the count by saying of each place that what is in it is nowhere else
(`Disjoint`). It needs that one context at most holds the queue lock (`Control`), that
only handle_queue has entries to end, and, for `TakesAllDue`, that the queue is sorted
(`Sorted`) and a clock reading in use is past (`ReadingsPast`).

**Backing store.** The invariant ties the holder of io_mutex to the one process in
a bio (`MutexOK`), says that a process that frees pages is alone and has freed those
before its position (`FlushOK`), and of the process in a bio, how far it is and what
that means for the disk (`ProcOK`): a read's buffer holds what the disk holds, a
write's value is in all sectors it is past and there are pages under its segment. What
it relies on changes only by its own steps (`AloneInBio`, `StepInBio`). The end of
brd_free_pages at a batch that is not full is right because such a batch is all
that was left (`FirstOnes`, about the n smallest elements of a finite set).

**Older driver.** Bios are not serialised, so `LocalOK` may say of a process only
what no other process in a bio can undo: with separate opens, the pages its setup has
passed stay in the tree, since only BLKFLSBUF takes pages out and then runs alone
(`OnlyOpener`, `FlushAlone`). With a shared open file that clause is dropped, and what
is left still accounts for every page.
`SectorStore` is refined with the locals mapped to the sectors done and the buffer;
a sector's copy is its step there.

**Lifecycle.** Where brd_init or brd_exit is decides what is held (`HeldHere`), whether
the disk can be open, and whether each timer can be on (`ClientsInv`, `TimersInv`); the
order of teardown is correct because each of these ends before what it uses is
released. Connecting and disconnecting the dies cancel out (`DiesInv`).

The library's induction theorems cannot be used, since they take an operator as a
parameter. What induction the proofs need is stated of sets of numbers
(`InductionOnSet`, from the well-foundedness of <) and carries the sums over a bio's
segments, the loops over the dies and quicksort, which are recursive functions.

## What is only model-checked

Liveness (`EveryRequestEnds`, `DoRequestReturns`, `MergeReturns`): fairness is
outside the prover's reach. Every invariant and every action property that a passing
run checks, and every refinement, is also a theorem.

## What is not modelled

- `ssd_die__merge` is a stub that returns SUCCESS; nothing reaches
  `ssd_plane_merge` through the driver. The arena allocator and events' metaevent
  lists hold no behaviour of the simulation.
- `brd_direct_access` (only with `CONFIG_BLK_DEV_XIP`), `brd_make_request` (never
  registered), `NO_PERSIST` and `TEST_SYNC` builds.
- Loading and unloading of `syncbrd.c`, an older driver the Makefile does not
  build: the same steps as in `Lifecycle`, without a simulator and timers.
- In `Lifecycle` a request is done with the driver once it is queued; the few lines
  of do_request after `add_io_timer` (`brd.c:898-902`) count as no use of the device.
- Three things are recorded as the code does them, not judged: a request whose queue
  entry cannot be allocated is lost (`brd.c:700`), a request beyond the capacity leaves
  its CPU spinning on its own lock (`brd.c:820`), and a request that starts in the
  reserved block is not simulated at all (`brd.c:862`).
- That a request is ended which the partition scan makes while the module is still
  loading and the second timer not running: `Lifecycle` leaves times open, and
  `CompletionQueue` starts with both timers.
- Requests that are not made of whole pages, beyond the assert: nothing says which
  pages they should be simulated on.
- `ssd_config.c` is constants and a parser; `run_*.c` are user-space loops over
  `ssd_event_arrive`.
- Kernel code: the block layer, hrtimers, radix tree and mutexes are modelled
  only as the driver uses them.

## Plan

Order: what carries data and time first, then what surrounds it.

1. Done: plane, merge, bus, device, completion, store, table; proofs of the plane
   and the bus.
2. Done: `Driver` over the device, with geometry and partial failure; `Lifecycle`;
   `SyncStore`.
3. Done: proofs of the merge, the driver and the device, the completion, both stores
   and the lifecycle, with four refinements.
4. Done: the proofs of the scheduling table, quicksort included.

## Usage

    tlc -workers 2 -config PlaneSpec.cfg PlaneSpec
    tlapm PlaneProofs.tla

Runs that show a finding end with a violation of the property their
configuration names.
