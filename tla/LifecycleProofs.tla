---------------------------- MODULE LifecycleProofs ----------------------------
(***************************************************************************)
(* Proofs about Lifecycle, for any parameters, requests, channels and     *)
(* number of openers.  Where brd_init or brd_exit is decides what is held, *)
(* what the timers, the clients and their requests can be doing, and       *)
(* whether the dies are connected; NothingFreedInUse and LeavesNothing     *)
(* follow from that.                                                       *)
(***************************************************************************)
EXTENDS Lifecycle, NumberLemmas, TLAPS

\* The labels of brd_init (brd_alloc included) and of brd_exit.
InitPc == {"params", "kzalloc", "init_queue", "alloc_disk", "ssd_sim_new", "list_add",
           "add_disk", "scan", "region", "start_timer",
           "out_free_disk", "out_free_queue", "out_free_dev", "out_free"}
ExitPc == {"cancel_timer2", "list_del", "ssd_sim_free", "cancel_timer", "handle_queue",
           "del_gendisk", "put_disk", "cleanup_queue", "free_pages", "kfree",
           "unregister_region", "unregister_blkdev"}

\* A thread is in brd_init while the module is coming, and in brd_exit while it
\* is going.
Place ==
  \/ module \in {"unloaded", "live"} /\ pc = "none"
  \/ module = "coming" /\ pc \in InitPc
  \/ module = "going" /\ pc \in ExitPc

\* What is held at each place: brd_init takes the resources in one order, gives
\* back at its out labels those it has, and brd_exit releases them in another.
Everything == {"blkdev", "brd", "queue", "disk", "ssd", "listed", "added", "region"}
HeldHere ==
  CASE module = "unloaded" \/ pc = "params" -> {}
    [] pc \in {"kzalloc", "out_free", "unregister_blkdev"} -> {"blkdev"}
    [] pc \in {"init_queue", "out_free_dev"}      -> {"blkdev", "brd"}
    [] pc \in {"alloc_disk", "out_free_queue"}    -> {"blkdev", "brd", "queue"}
    [] pc \in {"ssd_sim_new", "out_free_disk"}    -> {"blkdev", "brd", "queue", "disk"}
    [] pc = "list_add"           -> Everything \ {"listed", "added", "region"}
    [] pc = "add_disk"           -> Everything \ {"added", "region"}
    [] pc \in {"scan", "region"} -> Everything \ {"region"}
    [] pc = "ssd_sim_free"       -> Everything \ {"listed"}
    [] pc \in {"cancel_timer", "handle_queue", "del_gendisk"}
                                 -> Everything \ {"listed", "ssd"}
    [] pc = "put_disk"           -> {"blkdev", "brd", "queue", "disk", "region"}
    [] pc = "cleanup_queue"      -> {"blkdev", "brd", "queue", "region"}
    [] pc \in {"free_pages", "kfree"} -> {"blkdev", "brd", "region"}
    [] pc = "unregister_region"  -> {"blkdev", "region"}
    [] OTHER                     -> Everything

\* While the disk can be opened, and while each timer can be on: brd->timer from
\* the first request until brd_del_one cancels it, the other until brd_exit does.
Added       == module = "live" \/ pc \in {"scan", "region", "start_timer"}
TimerUsable == Added \/ pc \in {"cancel_timer2", "list_del", "ssd_sim_free", "cancel_timer"}
Timer2On    == module = "live" \/ pc = "cancel_timer2"
PagesHere   == TimerUsable \/ pc \in {"handle_queue", "del_gendisk", "put_disk",
                                     "cleanup_queue", "free_pages"}

\* Nothing is open, and so nothing is asked for, unless the disk is there; the
\* last close has waited for the requests; the partition scan has the disk open.
ClientsInv ==
  /\ openers \in Nat
  /\ request \in [Requests -> {"none", "running", "queued"}]
  /\ openers > 0 => Added
  /\ openers = 0 => quiet
  /\ pc = "scan" => openers > 0

TimersInv ==
  /\ timer \in [Timer -> {"inactive", "armed"} \cup Callback]
  /\ timer["timer"] # "inactive" => TimerUsable
  /\ timer["timer2"] # "inactive" => Timer2On

\* The dies are connected while the simulator is there.
DiesInv ==
  num_connected = [c \in Channels |-> IF "ssd" \in held THEN for_each_die(connect, 0) ELSE 0]

IInv ==
  /\ Place
  /\ held = HeldHere
  /\ ClientsInv
  /\ TimersInv
  /\ DiesInv
  /\ brd_pages => PagesHere
  /\ ~created
-------------------------------------------------------------------------------
\* What a loop over the dies computes, given the values that it goes through.
LEMMA LoopResult ==
  ASSUME NEW call, NEW n, NEW g, PACKAGE_SIZE \in Nat,
         g = [k \in 0 .. PACKAGE_SIZE |-> IF k = 0 THEN n ELSE call[g[k - 1]]]
  PROVE  for_each_die(call, n) = g[PACKAGE_SIZE]
<1> DEFINE P == PACKAGE_SIZE
           after == CHOOSE f : f = [k \in 0 .. P |-> IF k = 0 THEN n ELSE call[f[k - 1]]]
<1>1. for_each_die(call, n) = after[P]
  BY DEF for_each_die
<1>2. after = [k \in 0 .. P |-> IF k = 0 THEN n ELSE call[after[k - 1]]]
  OBVIOUS
<1> HIDE DEF after
<1> DEFINE S == {k \in Nat : k <= P => after[k] = g[k]}
<1>3. 0 \in S
  BY <1>2
<1>4. ASSUME NEW k \in Nat, k \in S PROVE k + 1 \in S
  <2> SUFFICES ASSUME k + 1 <= P PROVE after[k + 1] = g[k + 1]
    OBVIOUS
  <2>1. k + 1 \in 0 .. P /\ k + 1 # 0 /\ k + 1 - 1 = k /\ k <= P
    OBVIOUS
  <2>2. after[k + 1] = call[after[k]] /\ g[k + 1] = call[g[k]]
    BY <1>2, <2>1
  <2> QED BY <1>4, <2>1, <2>2
<1> HIDE DEF S
<1>5. P \in S
  BY <1>3, <1>4, InductionOnSet
<1> QED BY <1>1, <1>5 DEF S

\* All that connected disconnect again: each die's call adds one until the
\* channel is full, and takes one off until it is empty.
LEMMA AllDisconnect ==
  for_each_die(disconnect, for_each_die(connect, 0)) = 0
<1> DEFINE P == PACKAGE_SIZE
           B == BUS_MAX_CONNECT
           up   == [k \in 0 .. P |-> IF k <= B THEN k ELSE B]
           top  == up[P]
           down == [k \in 0 .. P |-> IF k <= top THEN top - k ELSE 0]
<1>1. P \in Nat /\ B \in Nat
  BY PackageAssumption
<1>2. up = [k \in 0 .. P |-> IF k = 0 THEN 0 ELSE connect[up[k - 1]]]
  BY <1>1 DEF connect
<1>3. for_each_die(connect, 0) = top
  <2> HIDE DEF up
  <2> QED BY <1>1, <1>2, LoopResult
<1>4. top \in 0 .. B /\ top <= P
  BY <1>1
<1> HIDE DEF up, top
<1>5. down = [k \in 0 .. P |-> IF k = 0 THEN top ELSE disconnect[down[k - 1]]]
  BY <1>1, <1>4 DEF disconnect
<1>6. down[P] = 0
  BY <1>1, <1>4
<1>7. for_each_die(disconnect, top) = 0
  <2> HIDE DEF down
  <2> QED BY <1>1, <1>5, <1>6, LoopResult
<1> QED BY <1>3, <1>7
-------------------------------------------------------------------------------
\* An unloaded module holds nothing and nothing is running.
LEMMA InitIInv == Init => IInv
<1> SUFFICES ASSUME Init PROVE IInv
  OBVIOUS
<1>1. Place /\ held = HeldHere /\ ~created /\ ~brd_pages
  BY DEF Init, Place, HeldHere
<1>2. ClientsInv
  BY DEF Init, ClientsInv, quiet
<1>3. TimersInv
  BY DEF Init, TimersInv, Timer, Callback
<1>4. DiesInv
  BY DEF Init, DiesInv
<1> QED BY <1>1, <1>2, <1>3, <1>4 DEF IInv

\* brd_init and brd_exit take and release what is said to be held at their next
\* label.
LEMMA HeldStep ==
  ASSUME IInv, LoadSteps \/ UnloadSteps
  PROVE  Place' /\ held' = HeldHere'
<1> USE DEF IInv, Place, HeldHere, Everything, InitPc, ExitPc, goto
<1>1. CASE Load
  BY <1>1 DEF Load
<1>2. CASE RefuseParams \/ RegisterFails
  BY <1>2 DEF RefuseParams, RegisterFails, InitFails
<1>3. CASE RegisterBlkdev
  BY <1>3 DEF RegisterBlkdev, Take
<1>4. CASE Kzalloc
  BY <1>4 DEF Kzalloc, Take, Fail
<1>5. CASE BlkInitQueue
  BY <1>5 DEF BlkInitQueue, Take, Fail
<1>6. CASE AllocDisk
  BY <1>6 DEF AllocDisk, Take, Fail
<1>7. CASE SsdSimNew
  BY <1>7 DEF SsdSimNew
<1>8. CASE SsdSimNewFails
  BY <1>8 DEF SsdSimNewFails, Fail
<1>9. CASE OutFreeDisk
  BY <1>9 DEF OutFreeDisk, Release
<1>10. CASE OutFreeQueue
  BY <1>10 DEF OutFreeQueue, Release
<1>11. CASE OutFreeDev
  BY <1>11 DEF OutFreeDev, Release
<1>12. CASE OutFree
  BY <1>12 DEF OutFree
<1>13. CASE ListAdd
  BY <1>13 DEF ListAdd, Take
<1>14. CASE AddDisk
  BY <1>14 DEF AddDisk
<1>15. CASE ScanEnds
  BY <1>15 DEF ScanEnds
<1>16. CASE RegisterRegion
  BY <1>16 DEF RegisterRegion, Take
<1>17. CASE StartTimer2
  BY <1>17 DEF StartTimer2
<1>18. CASE Unload
  BY <1>18 DEF Unload
<1>19. CASE CancelTimer2
  BY <1>19 DEF CancelTimer2, hrtimer_cancel
<1>20. CASE ListDel
  BY <1>20 DEF ListDel, Release
<1>21. CASE SsdSimFree
  BY <1>21 DEF SsdSimFree
<1>22. CASE CancelTimer
  BY <1>22 DEF CancelTimer, hrtimer_cancel
<1>23. CASE HandleQueueLast
  BY <1>23 DEF HandleQueueLast
<1>24. CASE DelGendisk
  BY <1>24 DEF DelGendisk, Release
<1>25. CASE PutDisk
  BY <1>25 DEF PutDisk, Release
<1>26. CASE BlkCleanupQueue
  BY <1>26 DEF BlkCleanupQueue, Release
<1>27. CASE FreePages
  BY <1>27 DEF FreePages
<1>28. CASE Kfree
  BY <1>28 DEF Kfree, Release
<1>29. CASE UnregisterRegion
  BY <1>29 DEF UnregisterRegion, Release
<1>30. CASE UnregisterBlkdev
  BY <1>30 DEF UnregisterBlkdev
<1> QED
  BY <1>1, <1>2, <1>3, <1>4, <1>5, <1>6, <1>7, <1>8, <1>9, <1>10, <1>11, <1>12,
     <1>13, <1>14, <1>15, <1>16, <1>17, <1>18, <1>19, <1>20, <1>21, <1>22, <1>23,
     <1>24, <1>25, <1>26, <1>27, <1>28, <1>29, <1>30
  DEF LoadSteps, UnloadSteps

\* What the clients, their requests, the timers and the pages may be.
IoInv ==
  /\ ClientsInv
  /\ TimersInv
  /\ brd_pages => PagesHere
  /\ ~created

\* A step of brd_init or brd_exit to a label at which all that was possible still
\* is does not touch them.
LEMMA QuietMove ==
  ASSUME IInv, UNCHANGED io_vars, pc' # "scan",
         Added => Added', TimerUsable => TimerUsable',
         Timer2On => Timer2On', PagesHere => PagesHere'
  PROVE  IoInv'
<1>1. UNCHANGED <<openers, request, timer, brd_pages, created>>
  BY DEF io_vars
<1>2. ClientsInv' /\ TimersInv'
  BY <1>1 DEF IInv, ClientsInv, TimersInv, quiet
<1> QED BY <1>1, <1>2 DEF IInv, IoInv

\* Loading: nothing happens before add_disk, which may open the disk to read its
\* partitions; the second timer is started last.
LEMMA LoadIo ==
  ASSUME IInv, LoadSteps
  PROVE  IoInv'
<1> USE DEF Place, InitPc, ExitPc, goto, Added, TimerUsable, Timer2On, PagesHere
<1>1. CASE AddDisk
  <2>1. /\ openers \in Nat /\ openers' \in {openers, openers + 1}
        /\ UNCHANGED <<request, timer, brd_pages>>
        /\ openers' > 0 => pc' \in {"scan", "region"}
        /\ pc' = "scan" => openers' > 0
    BY <1>1 DEF AddDisk, IInv, ClientsInv
  <2>2. quiet
    BY <1>1 DEF AddDisk, IInv, ClientsInv
  <2>3. ClientsInv'
    BY <1>1, <2>1, <2>2 DEF AddDisk, IInv, ClientsInv, quiet
  <2>4. TimersInv' /\ (brd_pages' => PagesHere')
    BY <1>1, <2>1 DEF AddDisk, IInv, TimersInv
  <2>5. ~created'
    BY <1>1 DEF AddDisk, IInv
  <2> QED BY <2>3, <2>4, <2>5 DEF IoInv
<1>2. CASE ScanEnds
  <2>1. openers \in Nat /\ openers > 0 /\ openers' = openers - 1
        /\ (openers = 1 => quiet) /\ UNCHANGED <<request, timer, brd_pages, created>>
        /\ pc = "scan" /\ pc' = "region"
    BY <1>2 DEF ScanEnds, IInv, ClientsInv
  <2>2. openers' \in Nat /\ (openers' = 0 => quiet)
    BY <2>1
  <2>3. ClientsInv'
    BY <2>1, <2>2 DEF IInv, ClientsInv, quiet
  <2> QED BY <2>1, <2>3 DEF IInv, IoInv, TimersInv
<1>3. CASE StartTimer2
  <2>1. /\ pc = "start_timer" /\ pc' = "none" /\ module' = "live"
        /\ timer' = [timer EXCEPT !["timer2"] = "armed"]
        /\ UNCHANGED <<openers, request, brd_pages, created>>
    BY <1>3 DEF StartTimer2
  <2>2. ClientsInv' /\ (brd_pages' => PagesHere')
    BY <2>1 DEF IInv, ClientsInv, quiet
  <2>3. TimersInv'
    BY <2>1 DEF IInv, TimersInv, Timer
  <2> QED BY <2>1, <2>2, <2>3 DEF IInv, IoInv
<1>4. CASE \/ Load \/ RefuseParams \/ RegisterFails \/ RegisterBlkdev \/ Kzalloc
           \/ BlkInitQueue \/ AllocDisk \/ SsdSimNew \/ SsdSimNewFails \/ OutFreeDisk
           \/ OutFreeQueue \/ OutFreeDev \/ OutFree \/ ListAdd \/ RegisterRegion
  <2>1. UNCHANGED io_vars
    BY <1>4 DEF Load, RefuseParams, RegisterFails, InitFails, RegisterBlkdev, Kzalloc,
         BlkInitQueue, AllocDisk, SsdSimNew, SsdSimNewFails, OutFreeDisk, OutFreeQueue,
         OutFreeDev, OutFree, ListAdd, RegisterRegion, Take, Release, Fail
  <2>2. /\ pc' # "scan" /\ (Added => Added') /\ (TimerUsable => TimerUsable')
        /\ (Timer2On => Timer2On') /\ (PagesHere => PagesHere')
    BY <1>4 DEF Load, RefuseParams, RegisterFails, InitFails, RegisterBlkdev, Kzalloc,
         BlkInitQueue, AllocDisk, SsdSimNew, SsdSimNewFails, OutFreeDisk, OutFreeQueue,
         OutFreeDev, OutFree, ListAdd, RegisterRegion, Take, Release, Fail, IInv
  <2> QED BY <2>1, <2>2, QuietMove
<1> QED BY <1>1, <1>2, <1>3, <1>4 DEF LoadSteps

\* Unloading: it starts when nothing is open, and cancels a timer before it frees
\* what the timer's callback uses.
LEMMA UnloadIo ==
  ASSUME IInv, UnloadSteps
  PROVE  IoInv'
<1> USE DEF Place, InitPc, ExitPc, goto, Added, TimerUsable, Timer2On, PagesHere
<1>1. CASE Unload
  <2>1. module = "live" /\ openers = 0 /\ pc' = "cancel_timer2" /\ UNCHANGED io_vars
    BY <1>1 DEF Unload
  <2> QED BY <2>1 DEF io_vars, IInv, IoInv, ClientsInv, TimersInv, quiet
<1>2. CASE CancelTimer2
  <2>1. /\ pc = "cancel_timer2" /\ pc' = "list_del" /\ module' = module
        /\ timer' = [timer EXCEPT !["timer2"] = "inactive"]
        /\ UNCHANGED <<openers, request, brd_pages, created>>
    BY <1>2 DEF CancelTimer2, hrtimer_cancel
  <2> QED BY <2>1 DEF IInv, IoInv, ClientsInv, TimersInv, quiet, Timer
<1>3. CASE CancelTimer
  <2>1. /\ pc = "cancel_timer" /\ pc' = "handle_queue" /\ module' = module
        /\ timer' = [timer EXCEPT !["timer"] = "inactive"]
        /\ UNCHANGED <<openers, request, brd_pages, created>>
    BY <1>3 DEF CancelTimer, hrtimer_cancel
  <2> QED BY <2>1 DEF IInv, IoInv, ClientsInv, TimersInv, quiet, Timer
<1>4. CASE HandleQueueLast
  <2>1. /\ pc = "handle_queue" /\ pc' = "del_gendisk" /\ module' = module
        /\ UNCHANGED <<openers, timer, brd_pages, created>>
        /\ openers = 0 /\ quiet /\ queued = {}
    BY <1>4 DEF HandleQueueLast, IInv, ClientsInv, quiet, queued
  <2>2. request' = request
    BY <1>4, <2>1 DEF HandleQueueLast, end_some, quiet, IInv, ClientsInv
  <2> QED BY <2>1, <2>2 DEF IInv, IoInv, ClientsInv, TimersInv, quiet
<1>5. CASE FreePages
  <2>1. /\ pc = "free_pages" /\ pc' = "kfree" /\ brd_pages' = FALSE /\ module' = module
        /\ UNCHANGED <<openers, request, timer, created>>
    BY <1>5 DEF FreePages
  <2> QED BY <2>1 DEF IInv, IoInv, ClientsInv, TimersInv, quiet
<1>6. CASE \/ ListDel \/ SsdSimFree \/ DelGendisk \/ PutDisk \/ BlkCleanupQueue \/ Kfree
           \/ UnregisterRegion \/ UnregisterBlkdev
  <2>1. UNCHANGED io_vars
    BY <1>6 DEF ListDel, SsdSimFree, DelGendisk, PutDisk, BlkCleanupQueue, Kfree,
         UnregisterRegion, UnregisterBlkdev, Release
  <2>2. /\ pc' # "scan" /\ (Added => Added') /\ (TimerUsable => TimerUsable')
        /\ (Timer2On => Timer2On') /\ (PagesHere => PagesHere')
    BY <1>6 DEF ListDel, SsdSimFree, DelGendisk, PutDisk, BlkCleanupQueue, Kfree,
         UnregisterRegion, UnregisterBlkdev, Release, IInv
  <2> QED BY <2>1, <2>2, QuietMove
<1> QED BY <1>1, <1>2, <1>3, <1>4, <1>5, <1>6 DEF UnloadSteps

\* The place of the thread and what is held stay as they are.
LEMMA StaysPut ==
  ASSUME IInv, UNCHANGED state_vars
  PROVE  /\ Place' /\ held' = HeldHere' /\ DiesInv'
         /\ (Added <=> Added') /\ (TimerUsable <=> TimerUsable')
         /\ (Timer2On <=> Timer2On') /\ (PagesHere <=> PagesHere')
         /\ pc' = pc /\ module' = module
BY DEF IInv, state_vars, Place, HeldHere, DiesInv, Added, TimerUsable, Timer2On, PagesHere

\* The clients: an opener finds the disk, and the last close waits.
LEMMA ClientsStep ==
  ASSUME IInv, Clients
  PROVE  UNCHANGED state_vars /\ IoInv'
<1>0. UNCHANGED state_vars
  BY DEF Clients, Open, Close, Submit, EndEarly, AddIoTimer, HandleQueue
<1>1. CASE Open
  <2>1. Added
    BY <1>1 DEF Open, IInv, Place, HeldHere, Everything, Added, InitPc, ExitPc
  <2>2. {"added", "listed"} \cap held # {}
    BY <1>1 DEF Open, IInv, Place, HeldHere, Everything, InitPc, ExitPc
  <2>3. openers' = openers + 1 /\ openers \in Nat /\ ~created'
        /\ UNCHANGED <<request, timer, brd_pages>>
    BY <1>1, <2>2 DEF Open, IInv, ClientsInv
  <2>4. ClientsInv'
    BY <1>0, <2>1, <2>3, StaysPut DEF IInv, ClientsInv
  <2> QED BY <1>0, <2>3, <2>4, StaysPut DEF IInv, IoInv, TimersInv
<1>2. CASE Close
  <2>1. openers \in Nat /\ openers > 0 /\ openers' = openers - 1
        /\ UNCHANGED <<request, timer, brd_pages, created>>
        /\ (pc = "scan" => openers > 1) /\ (openers = 1 => quiet)
    BY <1>2 DEF Close, IInv, ClientsInv
  <2>2. openers' \in Nat /\ (openers' = 0 => quiet) /\ (pc = "scan" => openers' > 0)
    BY <2>1
  <2>3. ClientsInv'
    BY <1>0, <2>1, <2>2, StaysPut DEF IInv, ClientsInv, quiet
  <2> QED BY <1>0, <2>1, <2>3, StaysPut DEF IInv, IoInv, TimersInv
<1>3. ASSUME NEW r \in Requests, Submit(r) PROVE IoInv'
  <2>1. openers > 0 /\ request' = [request EXCEPT ![r] = "running"]
        /\ UNCHANGED <<openers, timer, brd_pages, created>> /\ openers \in Nat
    BY <1>3 DEF Submit, IInv, ClientsInv
  <2>2. ClientsInv'
    BY <1>0, <2>1, StaysPut DEF IInv, ClientsInv
  <2> QED BY <1>0, <2>1, <2>2, StaysPut DEF IInv, IoInv, TimersInv
<1>4. ASSUME NEW r \in Requests, request[r] = "running" PROVE openers > 0 /\ Added
  BY <1>4 DEF IInv, ClientsInv, quiet
<1>5. ASSUME NEW r \in Requests, EndEarly(r) \/ AddIoTimer(r) PROVE IoInv'
  <2>1. /\ openers > 0 /\ Added /\ UNCHANGED <<openers, created>>
    BY <1>4, <1>5 DEF EndEarly, AddIoTimer
  <2>2. \E s \in {"none", "queued"} : request' = [request EXCEPT ![r] = s]
    BY <1>5 DEF EndEarly, AddIoTimer
  <2>3. \/ timer' = timer
        \/ timer' = [timer EXCEPT !["timer"] = IF @ = "inactive" THEN "armed" ELSE @]
    BY <1>5 DEF EndEarly, AddIoTimer
  <2>4. ClientsInv'
    BY <1>0, <2>1, <2>2, StaysPut DEF IInv, ClientsInv
  <2>5. TimerUsable /\ PagesHere
    BY <2>1 DEF TimerUsable, PagesHere
  <2>6. "timer" \in Timer /\ "timer2" \in Timer /\ "timer" # "timer2"
    BY DEF Timer
  <2>7. TimersInv'
    BY <1>0, <2>3, <2>5, <2>6, StaysPut DEF IInv, TimersInv
  <2> QED BY <1>0, <2>1, <2>4, <2>5, <2>7, StaysPut DEF IInv, IoInv
<1>6. ASSUME NEW due \in SUBSET Requests, HandleQueue(due) PROVE IoInv'
  <2>1. /\ openers > 0 /\ UNCHANGED <<openers, timer, brd_pages, created>>
    BY <1>4, <1>6 DEF HandleQueue
  <2>2. request' \in [Requests -> {"none", "running", "queued"}]
    BY <1>6 DEF HandleQueue, end_some, IInv, ClientsInv
  <2>3. ClientsInv'
    BY <1>0, <2>1, <2>2, StaysPut DEF IInv, ClientsInv
  <2> QED BY <1>0, <2>1, <2>3, StaysPut DEF IInv, IoInv, TimersInv
<1> QED BY <1>0, <1>1, <1>2, <1>3, <1>5, <1>6 DEF Clients

\* The timers: a callback that ends entries leaves none where there was none.
LEMMA TimersStep ==
  ASSUME IInv, Timers
  PROVE  UNCHANGED state_vars /\ IoInv'
<1>0. UNCHANGED state_vars /\ UNCHANGED <<openers, brd_pages, created>>
  BY DEF Timers, Fire, CallbackPeeks, CallbackReturns, CallbackHandles
<1>1. PICK t \in Timer : timer[t] # "inactive" /\
        \E s \in {"inactive", "armed"} \cup Callback : timer' = [timer EXCEPT ![t] = s]
  BY DEF Timers, Fire, CallbackPeeks, CallbackReturns, CallbackHandles, Callback
<1>2. TimersInv'
  BY <1>0, <1>1, StaysPut DEF IInv, TimersInv, Timer
<1>3. /\ request' \in [Requests -> {"none", "running", "queued"}]
      /\ quiet => request' = request
  BY DEF Timers, Fire, CallbackPeeks, CallbackReturns, CallbackHandles, end_some,
     queued, quiet, IInv, ClientsInv
<1>4. ClientsInv'
  BY <1>0, <1>3, StaysPut DEF IInv, ClientsInv, quiet
<1> QED BY <1>0, <1>2, <1>4, StaysPut DEF IInv, IoInv

\* The dies connect and disconnect with the simulator.
LEMMA DiesStep ==
  ASSUME IInv, LoadSteps \/ UnloadSteps
  PROVE  DiesInv'
<1>1. CASE SsdSimNew
  BY <1>1 DEF SsdSimNew, DiesInv
<1>2. CASE SsdSimFree
  <2>1. "ssd" \in held
    BY <1>2 DEF SsdSimFree, goto, IInv, HeldHere, Everything, Place
  <2>2. num_connected = [c \in Channels |-> for_each_die(connect, 0)]
    BY <2>1 DEF IInv, DiesInv
  <2>3. num_connected' = [c \in Channels |-> for_each_die(disconnect, num_connected[c])]
        /\ held' = held \ {"ssd"}
    BY <1>2 DEF SsdSimFree
  <2>4. \A c \in Channels : for_each_die(disconnect, num_connected[c]) = 0
    BY <2>2, AllDisconnect
  <2> QED BY <2>3, <2>4 DEF DiesInv
<1>3. CASE ~SsdSimNew /\ ~SsdSimFree
  <2>1. num_connected' = num_connected /\ ("ssd" \in held' <=> "ssd" \in held)
    BY <1>3 DEF LoadSteps, UnloadSteps, Load, RefuseParams, RegisterFails, InitFails,
         RegisterBlkdev, Kzalloc, BlkInitQueue, AllocDisk, SsdSimNewFails, OutFreeDisk,
         OutFreeQueue, OutFreeDev, OutFree, ListAdd, AddDisk, ScanEnds, RegisterRegion,
         StartTimer2, Take, Release, Fail, Unload, CancelTimer2, hrtimer_cancel, ListDel,
         CancelTimer, HandleQueueLast, DelGendisk, PutDisk, BlkCleanupQueue, FreePages,
         Kfree, UnregisterRegion, UnregisterBlkdev
  <2> QED BY <2>1 DEF IInv, DiesInv
<1> QED BY <1>1, <1>2, <1>3

\* The invariant is inductive.
LEMMA NextIInv == IInv /\ [Next]_vars => IInv'
<1> SUFFICES ASSUME IInv, [Next]_vars PROVE IInv'
  OBVIOUS
<1>1. CASE LoadSteps
  BY <1>1, HeldStep, LoadIo, DiesStep DEF IInv, IoInv
<1>2. CASE UnloadSteps
  BY <1>2, HeldStep, UnloadIo, DiesStep DEF IInv, IoInv
<1>3. CASE Clients
  BY <1>3, ClientsStep, StaysPut DEF IInv, IoInv
<1>4. CASE Timers
  BY <1>4, TimersStep, StaysPut DEF IInv, IoInv
<1>5. CASE UNCHANGED vars
  <2>1. UNCHANGED state_vars /\ UNCHANGED <<openers, request, timer, brd_pages, created>>
    BY <1>5 DEF vars, state_vars
  <2>2. ClientsInv' /\ TimersInv'
    BY <2>1, StaysPut DEF IInv, ClientsInv, TimersInv, quiet
  <2> QED BY <2>1, <2>2, StaysPut DEF IInv
<1> QED BY <1>1, <1>2, <1>3, <1>4, <1>5 DEF Next

\* IInv is an invariant.
THEOREM Invariance == Spec => []IInv
  BY InitIInv, NextIInv, PTL DEF Spec

\* Whatever the order in which brd_exit releases, nothing is released while a
\* callback, a waiting timer, a request or an opener could use it; brd_del_one's
\* handle_queue, which has no lock, finds no entry; and brd_probe makes no device.
THEOREM NotFreedInUse == Spec => []NothingFreedInUse
<1>1. ASSUME IInv PROVE NothingFreedInUse
  <2>1. used_by_timers \subseteq held
    BY <1>1 DEF used_by_timers, IInv, Place, HeldHere, Everything, InitPc, ExitPc,
         TimersInv, Timer, Callback, TimerUsable, Timer2On, Added
  <2>2. (openers > 0 \/ ~quiet) => {"brd", "queue", "disk", "ssd"} \subseteq held
    <3>1. (openers > 0 \/ ~quiet) => Added
      BY <1>1 DEF IInv, ClientsInv
    <3>2. Added => {"brd", "queue", "disk", "ssd"} \subseteq held
      BY <1>1 DEF IInv, Place, HeldHere, Everything, InitPc, ExitPc, Added
    <3> QED BY <3>1, <3>2
  <2>3. used_by_requests \subseteq held
    BY <2>2 DEF used_by_requests, queued, quiet
  <2>4. pc = "handle_queue" => queued = {}
    BY <1>1 DEF IInv, ClientsInv, Added, Place, quiet, queued, InitPc
  <2> QED BY <1>1, <2>1, <2>3, <2>4 DEF NothingFreedInUse, IInv
<1> QED BY <1>1, Invariance, PTL

\* A module that is not loaded, after brd_exit or after brd_init failed anywhere,
\* has given back everything: its timers, its pages and its dies' connections too.
THEOREM NothingLeft == Spec => []LeavesNothing
<1>1. ASSUME IInv PROVE LeavesNothing
  <2> SUFFICES ASSUME module = "unloaded"
               PROVE  /\ held = {} /\ ~brd_pages /\ quiet
                      /\ \A t \in Timer : timer[t] = "inactive"
                      /\ \A c \in Channels : num_connected[c] = 0
    BY DEF LeavesNothing
  <2>1. pc = "none" /\ held = {}
    BY <1>1 DEF IInv, Place, HeldHere
  <2>2. ~Added /\ ~TimerUsable /\ ~Timer2On /\ ~PagesHere
    BY <2>1 DEF Added, TimerUsable, Timer2On, PagesHere
  <2>3. ~brd_pages /\ quiet
    BY <1>1, <2>2 DEF IInv, ClientsInv
  <2>4. \A t \in Timer : timer[t] = "inactive"
    BY <1>1, <2>2 DEF IInv, TimersInv, Timer
  <2>5. \A c \in Channels : num_connected[c] = 0
    BY <1>1, <2>1 DEF IInv, DiesInv
  <2> QED BY <2>1, <2>3, <2>4, <2>5
<1> QED BY <1>1, Invariance, PTL
===============================================================================
