------------------------------- MODULE Lifecycle -------------------------------
(***************************************************************************)
(* Loading and unloading the driver (brd.c, ssd_ssd.c): brd_init acquires *)
(* its resources one by one and gives them back when one cannot be had,   *)
(* brd_exit releases them while the timers may be firing.  Clients open   *)
(* the disk, their requests enter the completion queue, and the timers'   *)
(* callbacks end them; when an entry is due is left open here (see        *)
(* CompletionQueue for the queue itself).                                 *)
(*                                                                         *)
(* External: the module loader, which starts brd_exit only while nothing  *)
(* has the disk open and lets nothing open it from then on; the last      *)
(* close, which waits for the requests of its file; the hrtimer core.     *)
(***************************************************************************)
EXTENDS Integers, FiniteSets

CONSTANTS Requests,
          Channels,            \* one per package
          PACKAGE_SIZE,        \* dies per package
          BUS_MAX_CONNECT,     \* devices a channel connects
          Params,              \* [rd_nr, max_part]: the module's parameters
          DISK_MAX_PARTS, MINORBITS,
          MaxOpeners           \* bound on concurrent openers

ASSUME PackageAssumption == PACKAGE_SIZE \in Nat /\ BUS_MAX_CONNECT \in Nat
ASSUME ParamsAssumption == Params \subseteq [rd_nr : Int, max_part : Int]

VARIABLES module,    \* the kernel's state of the module
          pc,        \* where the thread in brd_init or brd_exit is
          params,    \* the parameters this life of the module was given
          held,      \* what is registered or allocated, and not yet released
          _brd,      \* whether the static pointer of that name has been set
          openers,   \* open files of the disk
          request,   \* per request: what the driver is doing with it
          timer,     \* brd->timer and _timer: the hrtimer, and in its callback where
          brd_pages, \* whether the tree holds data pages
          num_connected,   \* per channel
          created    \* whether brd_probe has made a device

vars == <<module, pc, params, held, _brd, openers, request, timer, brd_pages,
          num_connected, created>>

Timer    == {"timer", "timer2"}
Callback == {"running", "handled", "restart", "norestart"}

Init ==
  /\ module = "unloaded" /\ pc = "none"
  /\ params = [rd_nr |-> 0, max_part |-> 0]
  /\ held = {} /\ _brd = FALSE
  /\ openers = 0
  /\ request = [r \in Requests |-> "none"]
  /\ timer = [t \in Timer |-> "inactive"]
  /\ brd_pages = FALSE
  /\ num_connected = [c \in Channels |-> 0]
  /\ created = FALSE

io_vars == <<openers, request, timer, brd_pages, created>>

goto(from, to) == pc = from /\ pc' = to
-------------------------------------------------------------------------------
(* brd_init.                                                               *)

\* insmod: the static variables have their initial values again.
Load ==
  /\ module = "unloaded" /\ module' = "coming"
  /\ goto("none", "params")
  /\ params' \in Params
  /\ _brd' = FALSE
  /\ UNCHANGED <<held, io_vars, num_connected>>

\* fls: the position of the highest bit.
fls(n) == CHOOSE k \in 0 .. 31 : n < 2 ^ k /\ (k > 0 => n >= 2 ^ (k - 1))
part_shift == IF params.max_part > 0 THEN fls(params.max_part) ELSE 0

\* rd_nr is compared as an unsigned long, so a negative one is too large; and of
\* the others only 0 is accepted.
params_refused ==
  \/ 2 ^ part_shift > DISK_MAX_PARTS
  \/ params.rd_nr < 0 \/ params.rd_nr > 2 ^ (MINORBITS - part_shift)
  \/ params.rd_nr # 0

\* brd_init returns an error, and the module is gone.
InitFails(from) ==
  /\ goto(from, "none")
  /\ module' = "unloaded"
  /\ UNCHANGED <<params, held, _brd, io_vars, num_connected>>

\* Going on from one label to the next, with a resource more or one less.
Take(from, resource, to) ==
  /\ goto(from, to)
  /\ held' = held \cup {resource}
  /\ UNCHANGED <<module, params, _brd, io_vars, num_connected>>
Release(from, resource, to) ==
  /\ goto(from, to)
  /\ held' = held \ {resource}
  /\ UNCHANGED <<module, params, _brd, io_vars, num_connected>>
Fail(from, to) == goto(from, to) /\ UNCHANGED <<module, params, held, _brd, io_vars, num_connected>>

RefuseParams == params_refused /\ InitFails("params")

RegisterBlkdev == ~params_refused /\ Take("params", "blkdev", "kzalloc")
RegisterFails  == ~params_refused /\ InitFails("params")

\* brd_alloc, and the labels it goes to when an allocation fails.
Kzalloc       == Take("kzalloc", "brd", "init_queue") \/ Fail("kzalloc", "out_free")
BlkInitQueue  == Take("init_queue", "queue", "alloc_disk") \/ Fail("init_queue", "out_free_dev")
AllocDisk     == Take("alloc_disk", "disk", "ssd_sim_new") \/ Fail("alloc_disk", "out_free_queue")
SsdSimNewFails == Fail("ssd_sim_new", "out_free_disk")

\* Each die connects to its package's channel; a refusal is printed, not reported.
connect    == [n \in 0 .. BUS_MAX_CONNECT |-> IF n < BUS_MAX_CONNECT THEN n + 1 ELSE n]
disconnect == [n \in 0 .. BUS_MAX_CONNECT |-> IF n > 0 THEN n - 1 ELSE n]
for_each_die(call, n) ==
  LET after[k \in 0 .. PACKAGE_SIZE] == IF k = 0 THEN n ELSE call[after[k - 1]]
  IN  after[PACKAGE_SIZE]

\* The arena is allocated, and all of the simulated SSD in it; the device is
\* complete and becomes _brd.
SsdSimNew ==
  /\ goto("ssd_sim_new", "list_add")
  /\ held' = held \cup {"ssd"}
  /\ num_connected' = [c \in Channels |-> for_each_die(connect, 0)]
  /\ _brd' = TRUE
  /\ UNCHANGED <<module, params, io_vars>>

\* (mutant of OutFreeDisk) the queue is forgotten.
OutFreeDiskSkips == Release("out_free_disk", "disk", "out_free_dev")

OutFreeDisk  == Release("out_free_disk", "disk", "out_free_queue")
OutFreeQueue == Release("out_free_queue", "queue", "out_free_dev")
OutFreeDev   == Release("out_free_dev", "brd", "out_free")
OutFree ==
  /\ goto("out_free", "none")
  /\ held' = held \ {"blkdev"}
  /\ module' = "unloaded"
  /\ UNCHANGED <<params, _brd, io_vars, num_connected>>

ListAdd == Take("list_add", "listed", "add_disk")

\* add_disk: the disk can be opened from now on.  If it may have partitions,
\* add_disk opens it to read them.
AddDisk ==
  /\ goto("add_disk", IF part_shift > 0 THEN "scan" ELSE "region")
  /\ held' = held \cup {"added"}
  /\ openers' = IF part_shift > 0 THEN openers + 1 ELSE openers
  /\ UNCHANGED <<module, params, _brd, request, timer, brd_pages, num_connected, created>>

quiet == \A r \in Requests : request[r] = "none"

ScanEnds ==
  /\ goto("scan", "region")
  /\ openers = 1 => quiet
  /\ openers' = openers - 1
  /\ UNCHANGED <<module, params, held, _brd, request, timer, brd_pages, num_connected, created>>

RegisterRegion == Take("region", "region", "start_timer")

\* The second timer starts, and the module is loaded.
StartTimer2 ==
  /\ goto("start_timer", "none")
  /\ module' = "live"
  /\ timer' = [timer EXCEPT !["timer2"] = "armed"]
  /\ UNCHANGED <<params, held, _brd, openers, request, brd_pages, num_connected, created>>

LoadSteps ==
  \/ Load \/ RefuseParams \/ RegisterBlkdev \/ RegisterFails
  \/ Kzalloc \/ BlkInitQueue \/ AllocDisk \/ SsdSimNew \/ SsdSimNewFails
  \/ OutFreeDisk \/ OutFreeQueue \/ OutFreeDev \/ OutFree
  \/ ListAdd \/ AddDisk \/ ScanEnds \/ RegisterRegion \/ StartTimer2
-------------------------------------------------------------------------------
(* Clients.                                                                *)

state_vars == <<module, pc, params, held, _brd, num_connected>>

\* The disk is looked up by its number: once added it finds itself, otherwise
\* brd_probe is asked, which finds the device in the list or makes one.
Open ==
  /\ module # "going" /\ openers < MaxOpeners
  /\ {"added", "region"} \cap held # {}
  /\ openers' = openers + 1
  /\ created' = (created \/ {"added", "listed"} \cap held = {})
  /\ UNCHANGED <<state_vars, request, timer, brd_pages>>

Close ==
  /\ openers > (IF pc = "scan" THEN 1 ELSE 0)
  /\ openers = 1 => quiet
  /\ openers' = openers - 1
  /\ UNCHANGED <<state_vars, request, timer, brd_pages, created>>

Submit(r) ==
  /\ openers > 0 /\ request[r] = "none"
  /\ request' = [request EXCEPT ![r] = "running"]
  /\ UNCHANGED <<state_vars, openers, timer, brd_pages, created>>

\* do_request answers a request at once; its data may have made pages.
EndEarly(r) ==
  /\ request[r] = "running"
  /\ request' = [request EXCEPT ![r] = "none"]
  /\ brd_pages' \in {brd_pages, TRUE}
  /\ UNCHANGED <<state_vars, openers, timer, created>>

\* add_io_timer: the request is queued, and reset_timer starts an idle timer.
AddIoTimer(r) ==
  /\ request[r] = "running"
  /\ request' = [request EXCEPT ![r] = "queued"]
  /\ brd_pages' \in {brd_pages, TRUE}
  /\ timer' = [timer EXCEPT !["timer"] = IF @ = "inactive" THEN "armed" ELSE @]
  /\ UNCHANGED <<state_vars, openers, created>>

queued == {r \in Requests : request[r] = "queued"}
end_some(due) == request' = [r \in Requests |-> IF r \in due THEN "none" ELSE request[r]]

\* handle_queue, called by do_request before it works on a request.
HandleQueue(due) ==
  /\ \E r \in Requests : request[r] = "running"
  /\ due \subseteq queued /\ due # {} /\ end_some(due)
  /\ UNCHANGED <<state_vars, openers, timer, brd_pages, created>>

Clients ==
  \/ Open \/ Close
  \/ \E r \in Requests : Submit(r) \/ EndEarly(r) \/ AddIoTimer(r)
  \/ \E due \in SUBSET Requests : HandleQueue(due)
-------------------------------------------------------------------------------
(* The timers.                                                             *)

\* A timer expires; without a device its callback returns at once.
Fire(t) ==
  /\ timer[t] = "armed"
  /\ timer' = [timer EXCEPT ![t] = IF _brd THEN "running" ELSE "norestart"]
  /\ UNCHANGED <<state_vars, openers, request, brd_pages, created>>

\* The callback has ended some entries, or none because the lock was taken.
CallbackHandles(t, due) ==
  /\ timer[t] = "running"
  /\ due \subseteq queued /\ end_some(due)
  /\ timer' = [timer EXCEPT ![t] = "handled"]
  /\ UNCHANGED <<state_vars, openers, brd_pages, created>>

\* It looks at the queue: the first timer goes on only if there is an entry.
CallbackPeeks(t) ==
  /\ timer[t] = "handled"
  /\ timer' = [timer EXCEPT ![t] =
                 IF t = "timer2" \/ queued # {} THEN "restart" ELSE "norestart"]
  /\ UNCHANGED <<state_vars, openers, request, brd_pages, created>>

CallbackReturns(t) ==
  /\ timer[t] \in {"restart", "norestart"}
  /\ timer' = [timer EXCEPT ![t] = IF @ = "restart" THEN "armed" ELSE "inactive"]
  /\ UNCHANGED <<state_vars, openers, request, brd_pages, created>>

Timers ==
  \E t \in Timer :
    \/ Fire(t) \/ CallbackPeeks(t) \/ CallbackReturns(t)
    \/ \E due \in SUBSET Requests : CallbackHandles(t, due)
-------------------------------------------------------------------------------
(* brd_exit.                                                               *)

\* rmmod: refused while a file is open.
Unload ==
  /\ module = "live" /\ openers = 0
  /\ module' = "going"
  /\ goto("none", "cancel_timer2")
  /\ UNCHANGED <<params, held, _brd, io_vars, num_connected>>

\* hrtimer_cancel: waits for a running callback, and takes the timer off.
hrtimer_cancel(t) ==
  /\ timer[t] \notin Callback
  /\ timer' = [timer EXCEPT ![t] = "inactive"]
  /\ UNCHANGED <<module, params, held, _brd, openers, request, brd_pages, num_connected, created>>

\* (mutant of CancelTimer2) the timer is taken off, a running callback ignored.
CancelTimer2Try ==
  /\ goto("cancel_timer2", "list_del")
  /\ timer' = [timer EXCEPT !["timer2"] = IF @ \in Callback THEN @ ELSE "inactive"]
  /\ UNCHANGED <<module, params, held, _brd, openers, request, brd_pages, num_connected, created>>

CancelTimer2 == goto("cancel_timer2", "list_del") /\ hrtimer_cancel("timer2")
ListDel      == Release("list_del", "listed", "ssd_sim_free")

\* The dies disconnect, and the arena is freed with all that is in it.
SsdSimFree ==
  /\ goto("ssd_sim_free", "cancel_timer")
  /\ held' = held \ {"ssd"}
  /\ num_connected' = [c \in Channels |-> for_each_die(disconnect, num_connected[c])]
  /\ UNCHANGED <<module, params, _brd, io_vars>>

CancelTimer == goto("cancel_timer", "handle_queue") /\ hrtimer_cancel("timer")

\* brd_del_one's own handle_queue, without the queue's lock.
HandleQueueLast ==
  /\ goto("handle_queue", "del_gendisk")
  /\ \E due \in SUBSET queued : end_some(due)
  /\ UNCHANGED <<module, params, held, _brd, openers, timer, brd_pages, num_connected, created>>

DelGendisk      == Release("del_gendisk", "added", "put_disk")
PutDisk         == Release("put_disk", "disk", "cleanup_queue")
BlkCleanupQueue == Release("cleanup_queue", "queue", "free_pages")
FreePages ==
  /\ goto("free_pages", "kfree")
  /\ brd_pages' = FALSE
  /\ UNCHANGED <<module, params, held, _brd, openers, request, timer, num_connected, created>>
Kfree            == Release("kfree", "brd", "unregister_region")
UnregisterRegion == Release("unregister_region", "region", "unregister_blkdev")
UnregisterBlkdev ==
  /\ goto("unregister_blkdev", "none")
  /\ held' = held \ {"blkdev"}
  /\ module' = "unloaded"
  /\ UNCHANGED <<params, _brd, io_vars, num_connected>>

UnloadSteps ==
  \/ Unload \/ CancelTimer2 \/ ListDel \/ SsdSimFree \/ CancelTimer \/ HandleQueueLast
  \/ DelGendisk \/ PutDisk \/ BlkCleanupQueue \/ FreePages \/ Kfree
  \/ UnregisterRegion \/ UnregisterBlkdev

Next == LoadSteps \/ Clients \/ Timers \/ UnloadSteps
Spec == Init /\ [][Next]_vars
-------------------------------------------------------------------------------
\* What the callbacks, the requests and the clients may touch next: a waiting
\* brd->timer is itself part of the device.
used_by_timers ==
  (IF timer["timer"] # "inactive" THEN {"brd"} ELSE {})
    \cup (IF \E t \in Timer : timer[t] \in Callback THEN {"brd", "queue"} ELSE {})
used_by_requests ==
  (IF queued # {} THEN {"brd", "queue", "disk"} ELSE {})
    \cup (IF openers > 0 \/ \E r \in Requests : request[r] = "running"
          THEN {"brd", "queue", "disk", "ssd"} ELSE {})

\* Whatever the order of release, nothing is released while a timer's callback, a
\* waiting timer, a request or an opener could still use it: brd_del_one may free
\* the simulator before it has cancelled the timer, and call handle_queue without
\* the queue's lock, because no request can be left.  And what is looked up is
\* there: brd_probe never has to make a second device, for whose simulator there
\* is no arena (ssd_ssd.c:48), although brd_exit takes the device off the list
\* before it unregisters the region.
NothingFreedInUse ==
  /\ ~created
  /\ used_by_timers \cup used_by_requests \subseteq held
  /\ pc = "handle_queue" => queued = {}

\* A module that is not loaded, be it after brd_exit or after brd_init failed at
\* any point, holds nothing, has no timer that could fire, no data page and no
\* connected die.
LeavesNothing ==
  module = "unloaded" =>
    /\ held = {} /\ ~brd_pages /\ quiet
    /\ \A t \in Timer : timer[t] = "inactive"
    /\ \A c \in Channels : num_connected[c] = 0
===============================================================================
