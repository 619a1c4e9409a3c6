------------------------------- MODULE SsdDevice -------------------------------
(***************************************************************************)
(* The whole simulated SSD behind ssd_event_arrive (ssd_ssd.c): packages  *)
(* of dies of planes of blocks, one bus channel per package, and the      *)
(* decoding of a logical page number into an address and a channel.  The  *)
(* driver serialises the calls with simlock, so a call is one step.  The  *)
(* calls are made by the module Driver.                                   *)
(***************************************************************************)
EXTENDS FlashPlane, BusChannel

CONSTANTS SSD_SIZE, PACKAGE_SIZE, DIE_SIZE,      \* packages, dies, planes
          BANK_GROUP,                            \* 2^BANK_GROUP_BIT
          BUS_DELAY,                             \* BUS_CTRL_DELAY + BUS_DATA_DELAY
          PAGE_READ_DELAY, PAGE_WRITE_DELAY, BLOCK_ERASE_DELAY,
          StartTimes,                            \* start times of the calls
          MaxErases, Horizon   \* bounds on free_blocks and on unlock times

ASSUME GeometryAssumption ==
  /\ SSD_SIZE \in Nat \ {0} /\ PACKAGE_SIZE \in Nat \ {0} /\ DIE_SIZE \in Nat \ {0}
  /\ BANK_GROUP \in Nat \ {0} /\ SSD_SIZE % BANK_GROUP = 0
ASSUME DelayAssumption ==
  /\ BUS_DELAY \in Nat \ {0} /\ PAGE_READ_DELAY \in Nat
  /\ PAGE_WRITE_DELAY \in Nat /\ BLOCK_ERASE_DELAY \in Nat
ASSUME StartTimesAssumption == StartTimes \subseteq Nat

PackageIndex == 0 .. (SSD_SIZE - 1)
DieIndex     == 0 .. (PACKAGE_SIZE - 1)
PlaneIndex   == 0 .. (DIE_SIZE - 1)
PlaneId      == PackageIndex \X DieIndex \X PlaneIndex
DieId        == PackageIndex \X DieIndex

TOTAL == SSD_SIZE * PACKAGE_SIZE * DIE_SIZE * PLANE_SIZE * SSD_BLOCK_SIZE

Address == [package : PackageIndex, die : DieIndex, plane : PlaneIndex,
            block : BlockIndex, page : PageIndex]

\* (mutant of address_of) the package number is taken before the block number is
\* divided out.
address_skewed(lpn) ==
  LET blk == lpn \div SSD_BLOCK_SIZE
      pln == blk \div PLANE_SIZE
      die == pln \div DIE_SIZE
  IN  [page    |-> lpn % SSD_BLOCK_SIZE,
       block   |-> blk % PLANE_SIZE,
       plane   |-> pln % DIE_SIZE,
       die     |-> die % PACKAGE_SIZE,
       package |-> blk % SSD_SIZE]

\* The address ssd_event_arrive decodes from a page number, innermost first.
address_of(lpn) ==
  LET blk == lpn \div SSD_BLOCK_SIZE
      pln == blk \div PLANE_SIZE
      die == pln \div DIE_SIZE
      pkg == die \div PACKAGE_SIZE
  IN  [page    |-> lpn % SSD_BLOCK_SIZE,
       block   |-> blk % PLANE_SIZE,
       plane   |-> pln % DIE_SIZE,
       die     |-> die % PACKAGE_SIZE,
       package |-> pkg % SSD_SIZE]

\* (mutant of get_channel) the package number is taken for the group's.
channel_shifted(a) == a.package * BANK_GROUP + (a.page % BANK_GROUP)

\* get_channel: the package's group of channels, and in it the page's low bits.
get_channel(a) == (a.package \div BANK_GROUP) * BANK_GROUP + (a.page % BANK_GROUP)

\* The plane to which package and die forward a call.
plane_of(a) == <<a.package, a.die, a.plane>>
-------------------------------------------------------------------------------
VARIABLES planes,     \* per plane: the Plane
          die_erase,  \* per die: its last_erase_time
          pkg_erase,  \* per package: its last_erase_time
          channels,   \* per channel: its reservation
          last        \* the last call and its result (the time taken, or -1)

device_vars == <<planes, die_erase, pkg_erase, channels, last>>

DeviceInit ==
  /\ planes = [p \in PlaneId |-> plane_init]
  /\ die_erase = [d \in DieId |-> 0]
  /\ pkg_erase = [k \in PackageIndex |-> 0]
  /\ channels = [c \in PackageIndex |-> channel_init]
  /\ last = [op |-> "none", lpn |-> 0, start |-> 0, result |-> 0]

\* ssd_event_arrive returns result for the call.
arrived(op, lpn, start, result) ==
  last' = [op |-> op, lpn |-> lpn, start |-> start, result |-> result]

\* The bus part of a call that succeeded and took duration: the channel is
\* reserved, and the wait for it is added to the time taken.
reserve(op, lpn, start, duration) ==
  LET c == get_channel(address_of(lpn))
  IN  /\ sched_time(channels[c], start) + duration <= Horizon
      /\ channels' = [channels EXCEPT ![c] = channel_lock(@, start, duration)]
      /\ arrived(op, lpn, start, duration + channel_wait(channels[c], start))

\* A call that failed reserves nothing.
refuse(op, lpn, start) == UNCHANGED channels /\ arrived(op, lpn, start, -1)

ArriveRead(lpn, start) ==
  LET a == address_of(lpn)
  IN  /\ IF plane_read_ret(planes[plane_of(a)], a.block, a.page) = "SUCCESS"
         THEN reserve("read", lpn, start, BUS_DELAY + PAGE_READ_DELAY)
         ELSE refuse("read", lpn, start)
      /\ UNCHANGED <<planes, die_erase, pkg_erase>>

\* (mutant of ArriveWrite) the bus is reserved before the status is known.
ArriveWriteReserves(lpn, start) ==
  LET a == address_of(lpn)
      c == get_channel(a)
  IN  /\ planes' = [planes EXCEPT ![plane_of(a)] = plane_write(@, a.block, a.page)]
      /\ channels' = [channels EXCEPT ![c] = channel_lock(@, start, BUS_DELAY)]
      /\ arrived("write", lpn, start,
                 IF plane_write_ret(planes[plane_of(a)], a.block, a.page) = "SUCCESS"
                 THEN BUS_DELAY + channel_wait(channels[c], start) ELSE -1)
      /\ sched_time(channels[c], start) + BUS_DELAY <= Horizon
      /\ UNCHANGED <<die_erase, pkg_erase>>

\* A refused write reserves nothing, but the plane has looked for its next page.
ArriveWrite(lpn, start) ==
  LET a == address_of(lpn)
  IN  /\ planes' = [planes EXCEPT ![plane_of(a)] = plane_write(@, a.block, a.page)]
      /\ IF plane_write_ret(planes[plane_of(a)], a.block, a.page) = "SUCCESS"
         THEN reserve("write", lpn, start, BUS_DELAY + PAGE_WRITE_DELAY)
         ELSE refuse("write", lpn, start)
      /\ UNCHANGED <<die_erase, pkg_erase>>

\* update_wear_stats of the die and of the package: with every block equally
\* worn they look at their first plane and their first die, and because the
\* address is a full one they get the time of the block it names THERE.
die_erase_time(pls, a)     == pls[a.package, a.die, 0].data[a.block].last_erase_time
package_erase_time(pls, a) == pls[a.package, 0, a.plane].data[a.block].last_erase_time

\* An erase event ends, for the block's record, before it waits for the bus.
ArriveErase(lpn, start) ==
  LET a == address_of(lpn)
      duration == BUS_DELAY + BLOCK_ERASE_DELAY
  IN  /\ planes[plane_of(a)].free_blocks < MaxErases
      /\ planes' = [planes EXCEPT ![plane_of(a)] =
                      plane_erase(@, a.block, start + duration)]
      /\ die_erase' = [die_erase EXCEPT ![<<a.package, a.die>>] = die_erase_time(planes', a)]
      /\ pkg_erase' = [pkg_erase EXCEPT ![a.package] = package_erase_time(planes', a)]
      /\ reserve("erase", lpn, start, duration)
-------------------------------------------------------------------------------
\* The state is well formed, and every channel index it needs exists.
DeviceTypeOK ==
  /\ planes \in [PlaneId -> Plane]
  /\ die_erase \in [DieId -> Nat]
  /\ pkg_erase \in [PackageIndex -> Nat]
  /\ channels \in [PackageIndex -> Channel]
  /\ last \in [op : {"none", "read", "write", "erase"}, lpn : 0 .. TOTAL,
               start : Nat, result : Nat \cup {-1}]
  /\ \A lpn \in 0 .. TOTAL : get_channel(address_of(lpn)) \in PackageIndex

\* A call that fails holds no bus time and changes no page.
FailureChangesNothing ==
  [][last'.result = -1 =>
       /\ channels' = channels
       /\ \A p \in PlaneId : planes'[p].data = planes[p].data]_device_vars

page_of_lpn(lpn) ==
  LET a == address_of(lpn) IN planes[plane_of(a)].data[a.block].data[a.page]

Flash == INSTANCE RawFlash WITH
  Pages <- 0 .. (TOTAL - 1),
  Unit <- [lpn \in 0 .. (TOTAL - 1) |-> lpn \div SSD_BLOCK_SIZE],
  programmed <- {lpn \in 0 .. (TOTAL - 1) : page_of_lpn(lpn) # "EMPTY"},
  answer <- [op |-> last.op, page |-> last.lpn % TOTAL, ok |-> last.result # -1]

\* The geometry, the address decoding and the page states together behave as a
\* flat array of write-once pages with erase units of SSD_BLOCK_SIZE pages.
ImplementsRawFlash == Flash!Spec
===============================================================================
