------------------------------ MODULE DriverProofs ------------------------------
(***************************************************************************)
(* Proofs about Driver and the SSD behind it, for any geometry, delays,   *)
(* requests and CPUs: the decoding of page numbers into addresses loses   *)
(* nothing, a call of ssd_event_arrive is one step of RawFlash, and a     *)
(* request of do_request takes effect as RangeFlash says.                 *)
(***************************************************************************)
EXTENDS Driver, NumberLemmas, TLAPS

\* The device has pages, and its number of pages is the product of its sizes,
\* taken one by one.
LEMMA TotalType == TOTAL \in Nat \ {0}
<1>1. SSD_SIZE * PACKAGE_SIZE \in Nat \ {0}
  BY GeometryAssumption
<1>2. SSD_SIZE * PACKAGE_SIZE * DIE_SIZE \in Nat \ {0}
  BY <1>1, GeometryAssumption
<1>3. SSD_SIZE * PACKAGE_SIZE * DIE_SIZE * PLANE_SIZE \in Nat \ {0}
  BY <1>2, PlaneSizeAssumption
<1> QED BY <1>3, BlockSizeAssumption DEF TOTAL

\* Every page number is decoded into an address of the device.
LEMMA AddressType ==
  ASSUME NEW lpn \in Nat
  PROVE  address_of(lpn) \in Address
<1> DEFINE blk == lpn \div SSD_BLOCK_SIZE
           pln == blk \div PLANE_SIZE
           die == pln \div DIE_SIZE
           pkg == die \div PACKAGE_SIZE
<1>1. blk \in Nat /\ lpn % SSD_BLOCK_SIZE \in PageIndex
  BY Division, BlockSizeAssumption DEF PageIndex
<1>2. pln \in Nat /\ blk % PLANE_SIZE \in BlockIndex
  BY <1>1, Division, PlaneSizeAssumption DEF BlockIndex
<1>3. die \in Nat /\ pln % DIE_SIZE \in PlaneIndex
  BY <1>2, Division, GeometryAssumption DEF PlaneIndex
<1>4. pkg \in Nat /\ die % PACKAGE_SIZE \in DieIndex
  BY <1>3, Division, GeometryAssumption DEF DieIndex
<1>5. pkg % SSD_SIZE \in PackageIndex
  BY <1>4, Division, GeometryAssumption DEF PackageIndex
<1> QED BY <1>1, <1>2, <1>3, <1>4, <1>5 DEF address_of, Address

\* Every address has a channel, because the groups of channels fill the device.
LEMMA ChannelType ==
  ASSUME NEW a \in Address
  PROVE  get_channel(a) \in PackageIndex
<1> DEFINE g == a.package \div BANK_GROUP
           r == a.page % BANK_GROUP
           n == SSD_SIZE \div BANK_GROUP
<1>1. a.package \in Nat /\ a.package < SSD_SIZE /\ a.page \in Nat
  BY GeometryAssumption, BlockSizeAssumption DEF Address, PackageIndex, PageIndex
<1>2. n \in Nat /\ SSD_SIZE = n * BANK_GROUP
  <2>1. SSD_SIZE \in Nat /\ BANK_GROUP \in Nat \ {0} /\ SSD_SIZE % BANK_GROUP = 0
    BY GeometryAssumption
  <2> QED BY <2>1, Division
<1>3. g \in Nat /\ r \in Nat /\ r < BANK_GROUP
  <2>1. BANK_GROUP \in Nat \ {0}
    BY GeometryAssumption
  <2>2. g \in Nat /\ r \in 0 .. (BANK_GROUP - 1)
    BY <1>1, <2>1, Division
  <2> HIDE DEF r
  <2> QED BY <2>1, <2>2
<1>4. g + 1 <= n
  <2>1. a.package < n * BANK_GROUP
    BY <1>1, <1>2
  <2>2. a.package \div BANK_GROUP < n
    BY <1>1, <1>2, <2>1, QuotientBelow, GeometryAssumption
  <2> QED BY <1>2, <1>3, <2>2
<1> HIDE DEF g, r, n
<1>5. (g + 1) * BANK_GROUP <= n * BANK_GROUP
  BY <1>2, <1>3, <1>4, GeometryAssumption
<1>6. g * BANK_GROUP + r \in Nat /\ g * BANK_GROUP + r < SSD_SIZE
  BY <1>2, <1>3, <1>5, GeometryAssumption
<1>7. get_channel(a) = g * BANK_GROUP + r
  BY DEF get_channel, g, r
<1> QED BY <1>6, <1>7, GeometryAssumption DEF PackageIndex

\* A number is its quotient and its remainder.
LEMMA SameNumber ==
  ASSUME NEW a \in Nat, NEW b \in Nat, NEW n \in Nat \ {0},
         a \div n = b \div n, a % n = b % n
  PROVE  a = b
  BY Division

\* Two page numbers have the same plane and block exactly if they have the same
\* erase unit, and the same address exactly if they are the same.
LEMMA AddressInjective ==
  ASSUME NEW l \in 0 .. (TOTAL - 1), NEW m \in 0 .. (TOTAL - 1)
  PROVE  LET a == address_of(l)
             b == address_of(m)
         IN  /\ (plane_of(a) = plane_of(b) /\ a.block = b.block)
                  <=> l \div SSD_BLOCK_SIZE = m \div SSD_BLOCK_SIZE
             /\ a = b => l = m
<1> DEFINE blk(n) == n \div SSD_BLOCK_SIZE
           pln(n) == blk(n) \div PLANE_SIZE
           die(n) == pln(n) \div DIE_SIZE
           pkg(n) == die(n) \div PACKAGE_SIZE
<1>1. ASSUME NEW n \in 0 .. (TOTAL - 1)
      PROVE  /\ n \in Nat /\ blk(n) \in Nat /\ pln(n) \in Nat /\ die(n) \in Nat
             /\ pkg(n) % SSD_SIZE = pkg(n)
  <2>1. n \in Nat /\ n < SSD_SIZE * PACKAGE_SIZE * DIE_SIZE * PLANE_SIZE * SSD_BLOCK_SIZE
    BY TotalType DEF TOTAL
  <2>2. /\ SSD_SIZE * PACKAGE_SIZE \in Nat
        /\ SSD_SIZE * PACKAGE_SIZE * DIE_SIZE \in Nat
        /\ SSD_SIZE * PACKAGE_SIZE * DIE_SIZE * PLANE_SIZE \in Nat
    BY GeometryAssumption, PlaneSizeAssumption
  <2>3. blk(n) \in Nat /\ blk(n) < SSD_SIZE * PACKAGE_SIZE * DIE_SIZE * PLANE_SIZE
    BY <2>1, <2>2, Division, QuotientBelow, BlockSizeAssumption
  <2>4. pln(n) \in Nat /\ pln(n) < SSD_SIZE * PACKAGE_SIZE * DIE_SIZE
    BY <2>2, <2>3, Division, QuotientBelow, PlaneSizeAssumption
  <2>5. die(n) \in Nat /\ die(n) < SSD_SIZE * PACKAGE_SIZE
    BY <2>2, <2>4, Division, QuotientBelow, GeometryAssumption
  <2>6. pkg(n) \in Nat /\ pkg(n) < SSD_SIZE
    BY <2>2, <2>5, Division, QuotientBelow, GeometryAssumption
  <2>7. pkg(n) % SSD_SIZE = pkg(n)
    <3>1. ASSUME NEW k \in Nat, k < SSD_SIZE PROVE k % SSD_SIZE = k
      BY <3>1, GeometryAssumption
    <3> QED BY <2>6, <3>1
  <2> QED BY <2>1, <2>3, <2>4, <2>5, <2>7
<1> HIDE DEF blk, pln, die, pkg
<1>2. ASSUME NEW n \in 0 .. (TOTAL - 1)
      PROVE  address_of(n) = [page |-> n % SSD_BLOCK_SIZE, block |-> blk(n) % PLANE_SIZE,
                              plane |-> pln(n) % DIE_SIZE, die |-> die(n) % PACKAGE_SIZE,
                              package |-> pkg(n)]
  <2>1. address_of(n).package = pkg(n) % SSD_SIZE
    BY DEF address_of, blk, pln, die, pkg
  <2> QED BY <1>1, <2>1 DEF address_of, blk, pln, die, pkg
<1>3. ASSUME blk(l) = blk(m)
      PROVE  /\ plane_of(address_of(l)) = plane_of(address_of(m))
             /\ address_of(l).block = address_of(m).block
  <2>1. pln(l) = pln(m) /\ die(l) = die(m) /\ pkg(l) = pkg(m)
    BY <1>3 DEF pln, die, pkg
  <2> QED BY <1>2, <1>3, <2>1 DEF plane_of
<1>4. ASSUME plane_of(address_of(l)) = plane_of(address_of(m)),
             address_of(l).block = address_of(m).block
      PROVE  blk(l) = blk(m)
  <2>1. /\ blk(l) % PLANE_SIZE = blk(m) % PLANE_SIZE /\ pln(l) % DIE_SIZE = pln(m) % DIE_SIZE
        /\ die(l) % PACKAGE_SIZE = die(m) % PACKAGE_SIZE /\ pkg(l) = pkg(m)
    BY <1>2, <1>4 DEF plane_of
  <2>2. die(l) = die(m)
    BY <1>1, <2>1, SameNumber, GeometryAssumption DEF pkg
  <2>3. pln(l) = pln(m)
    BY <1>1, <2>1, <2>2, SameNumber, GeometryAssumption DEF die
  <2> QED BY <1>1, <2>1, <2>3, SameNumber, PlaneSizeAssumption DEF pln
<1>5. ASSUME address_of(l) = address_of(m)
      PROVE  l = m
  <2>1. blk(l) = blk(m)
    BY <1>4, <1>5
  <2>2. l % SSD_BLOCK_SIZE = m % SSD_BLOCK_SIZE
    BY <1>2, <1>5
  <2> QED BY <1>1, <2>1, <2>2, SameNumber, BlockSizeAssumption DEF blk
<1>6. blk(l) = l \div SSD_BLOCK_SIZE /\ blk(m) = m \div SSD_BLOCK_SIZE
  BY DEF blk
<1> QED BY <1>3, <1>4, <1>5, <1>6

\* The page one past the end of the device is decoded as its first page.
LEMMA AddressWraps ==
  ASSUME NEW lpn \in 0 .. TOTAL
  PROVE  /\ lpn % TOTAL \in 0 .. (TOTAL - 1)
         /\ lpn % TOTAL = IF lpn = TOTAL THEN 0 ELSE lpn
         /\ address_of(lpn) = address_of(lpn % TOTAL)
<1>1. /\ lpn % TOTAL \in 0 .. (TOTAL - 1)
      /\ lpn % TOTAL = IF lpn = TOTAL THEN 0 ELSE lpn
  <2>1. TOTAL \in Nat \ {0}
    BY TotalType
  <2> QED BY <2>1
<1>2. ASSUME NEW n \in Nat, NEW d \in Nat \ {0}
      PROVE  (n * d) \div d = n /\ (n * d) % d = 0
  BY <1>2
<1>3. ASSUME NEW d \in Nat \ {0}
      PROVE  0 \div d = 0 /\ 0 % d = 0
  BY <1>3
<1>4. address_of(TOTAL) = address_of(0)
  <2> DEFINE e == SSD_SIZE
             d == SSD_SIZE * PACKAGE_SIZE
             p == d * DIE_SIZE
             b == p * PLANE_SIZE
  <2>1. e \in Nat \ {0} /\ d \in Nat /\ p \in Nat /\ b \in Nat
    BY GeometryAssumption, PlaneSizeAssumption
  <2>2. TOTAL \div SSD_BLOCK_SIZE = b /\ TOTAL % SSD_BLOCK_SIZE = 0
    BY <1>2, <2>1, BlockSizeAssumption DEF TOTAL
  <2>3. b \div PLANE_SIZE = p /\ b % PLANE_SIZE = 0
    BY <1>2, <2>1, PlaneSizeAssumption
  <2>4. p \div DIE_SIZE = d /\ p % DIE_SIZE = 0
    BY <1>2, <2>1, GeometryAssumption
  <2>5. d \div PACKAGE_SIZE = e /\ d % PACKAGE_SIZE = 0
    BY <1>2, <2>1, GeometryAssumption
  <2>6. e % SSD_SIZE = 0
    BY <2>1
  <2> HIDE DEF e, d, p, b
  <2>7. address_of(TOTAL) = [page |-> 0, block |-> 0, plane |-> 0, die |-> 0, package |-> 0]
    BY <2>2, <2>3, <2>4, <2>5, <2>6 DEF address_of
  <2>8. address_of(0) = [page |-> 0, block |-> 0, plane |-> 0, die |-> 0, package |-> 0]
    BY <1>3, BlockSizeAssumption, PlaneSizeAssumption, GeometryAssumption DEF address_of
  <2> QED BY <2>7, <2>8
<1> QED BY <1>1, <1>4
-------------------------------------------------------------------------------
\* The search for the next page yields a page of the plane, if one is EMPTY, and
\* does not touch the blocks.
LEMMA SearchType ==
  ASSUME NEW p \in Plane
  PROVE  get_next_page(p) \in Plane /\ get_next_page(p).data = p.data
<1>1. BlockIndex \subseteq Nat /\ PageIndex \subseteq Nat
  BY BlockSizeAssumption, PlaneSizeAssumption DEF BlockIndex, PageIndex
<1>2. ASSUME NEW f \in FreePage
      PROVE  /\ [p EXCEPT !.next_page = f] \in Plane
             /\ [p EXCEPT !.next_page = f].data = p.data
  BY DEF Plane
<1>3. CASE usable(p) # {}
  <2> DEFINE f == first_usable(p)
             b == p.data[f]
  <2>1. f \in usable(p)
    BY <1>1, <1>3, LeastNat DEF usable, candidates, first_usable
  <2>2. f \in BlockIndex /\ PagesIn(b, "EMPTY") # {}
    BY <2>1 DEF usable, candidates, has_next_page
  <2>3. next_page_of(b) \in PagesIn(b, "EMPTY")
    BY <1>1, <2>2, LeastNat DEF PagesIn, next_page_of
  <2>4. next_page_of(b) \in PageIndex
    BY <2>3 DEF PagesIn
  <2>5. [block |-> f, page |-> next_page_of(b), valid |-> PAGE] \in FreePage
    BY <2>2, <2>4 DEF FreePage
  <2> QED BY <1>2, <1>3, <2>5 DEF get_next_page
<1>4. CASE usable(p) = {}
  <2> DEFINE v == IF candidates(p) # {} THEN BLOCK ELSE PLANE
  <2>1. get_next_page(p) = [p EXCEPT !.next_page = [p.next_page EXCEPT !.valid = v]]
    BY <1>4 DEF get_next_page, Plane
  <2>2. [p.next_page EXCEPT !.valid = v] \in FreePage
    BY DEF Plane, FreePage
  <2> QED BY <1>2, <2>1, <2>2
<1> QED BY <1>3, <1>4

\* A call of a plane replaces one block.
LEMMA BlockReplaced ==
  ASSUME NEW p \in Plane, NEW b \in BlockIndex, NEW d \in Block
  PROVE  LET q == [p EXCEPT !.data = [@ EXCEPT ![b] = d]]
         IN  /\ q \in Plane
             /\ q.data = [p.data EXCEPT ![b] = d]
<1>1. p.data \in [BlockIndex -> Block]
  BY DEF Plane
<1>2. [p.data EXCEPT ![b] = d] \in [BlockIndex -> Block]
  BY <1>1
<1>3. [p EXCEPT !.data = [@ EXCEPT ![b] = d]] = [p EXCEPT !.data = [p.data EXCEPT ![b] = d]]
  BY DEF Plane
<1> QED BY <1>2, <1>3 DEF Plane

\* What a write does to the pages of a plane, whether it succeeds or not.
LEMMA PlaneWrite ==
  ASSUME NEW p \in Plane, NEW b \in BlockIndex, NEW i \in PageIndex
  PROVE  LET q == plane_write(p, b, i)
         IN  /\ q \in Plane
             /\ \A c \in BlockIndex, j \in PageIndex :
                  q.data[c].data[j] = IF c = b /\ j = i /\ p.data[b].data[i] = "EMPTY"
                                      THEN "VALID" ELSE p.data[c].data[j]
             /\ plane_write_ret(p, b, i) = "FAILURE" => q.data = p.data
<1> DEFINE d == p.data[b]
           w == block_write(d, i)
           q == IF b = p.next_page.block THEN get_next_page(p) ELSE p
<1>1. p.data \in [BlockIndex -> Block] /\ d \in Block /\ d.data \in [PageIndex -> page_state]
  BY DEF Plane, Block
<1>2. /\ w \in Block
      /\ w.data = IF d.data[i] = "EMPTY" THEN [d.data EXCEPT ![i] = "VALID"] ELSE d.data
      /\ d.data[i] # "EMPTY" => w = d
  <2>1. CASE d.data[i] # "EMPTY"
    BY <1>1, <2>1 DEF block_write, page_writable
  <2>2. CASE d.data[i] = "EMPTY"
    <3>1. [d.data EXCEPT ![i] = "VALID"] \in [PageIndex -> page_state]
      BY <1>1 DEF page_state
    <3>2. d.pages_valid + 1 \in Nat /\ "ACTIVE" \in block_state
      BY <1>1 DEF Block, block_state
    <3>3. w = [d EXCEPT !.data = [d.data EXCEPT ![i] = "VALID"],
                        !.pages_valid = d.pages_valid + 1, !.state = "ACTIVE"]
      BY <1>1, <2>2 DEF block_write, page_writable, Block
    <3> QED BY <1>1, <2>2, <3>1, <3>2, <3>3 DEF Block
  <2> QED BY <2>1, <2>2
<1>3. q \in Plane /\ q.data = p.data
  BY SearchType
<1>4. plane_write(p, b, i) = [q EXCEPT !.data = [@ EXCEPT ![b] = w]]
  BY <1>3 DEF plane_write
<1> HIDE DEF q, w
<1>5. plane_write(p, b, i) \in Plane /\ plane_write(p, b, i).data = [p.data EXCEPT ![b] = w]
  BY <1>2, <1>3, <1>4, BlockReplaced
<1>6. plane_write_ret(p, b, i) = "FAILURE" => plane_write(p, b, i).data = p.data
  BY <1>1, <1>2, <1>5 DEF plane_write_ret, page_writable
<1> QED BY <1>1, <1>2, <1>5, <1>6

\* What an erase does to the pages of a plane.
LEMMA PlaneErase ==
  ASSUME NEW p \in Plane, NEW b \in BlockIndex, NEW t \in Nat
  PROVE  LET q == plane_erase(p, b, t)
         IN  /\ q \in Plane
             /\ \A c \in BlockIndex, j \in PageIndex :
                  q.data[c].data[j] = IF c = b THEN "EMPTY" ELSE p.data[c].data[j]
<1> DEFINE e == block_erase(p.data[b], t)
           w == [p EXCEPT !.data = [@ EXCEPT ![b] = e]]
           u == update_wear_stats(w)
           f == [u EXCEPT !.free_blocks = @ + 1]
<1>1. e \in Block /\ \A j \in PageIndex : e.data[j] = "EMPTY"
  BY DEF block_erase, block_init, Block, page_state, block_state
<1>2. w \in Plane /\ w.data = [p.data EXCEPT ![b] = e]
  BY <1>1, BlockReplaced
<1>3. 0 \in BlockIndex
  BY PlaneSizeAssumption DEF BlockIndex
<1> HIDE DEF e, w
<1>4. u \in Plane /\ u.data = w.data
  <2>1. w.data[0].last_erase_time \in Nat
    BY <1>2, <1>3 DEF Plane, Block
  <2> QED BY <1>2, <1>3, <2>1 DEF update_wear_stats, Plane
<1> HIDE DEF u
<1>5. f \in Plane /\ f.data = w.data
  <2>1. f = [u EXCEPT !.free_blocks = u.free_blocks + 1] /\ u.free_blocks + 1 \in Nat
    BY <1>4 DEF Plane
  <2> QED BY <1>4, <2>1 DEF Plane
<1>6. plane_erase(p, b, t) = refresh_if_full(f)
  BY DEF plane_erase, f, u, w, e
<1> HIDE DEF f
<1>7. refresh_if_full(f) \in Plane /\ refresh_if_full(f).data = w.data
  BY <1>5, SearchType DEF refresh_if_full
<1>8. p.data \in [BlockIndex -> Block]
  BY DEF Plane
<1> QED BY <1>1, <1>2, <1>6, <1>7, <1>8
-------------------------------------------------------------------------------
\* No page becomes INVALID: nothing in the driver merges or invalidates.
NoStalePage ==
  \A p \in PlaneId : \A b \in BlockIndex, i \in PageIndex :
    planes[p].data[b].data[i] \in {"EMPTY", "VALID"}

\* A channel that was never locked has never been unlocked.
FreeTogether ==
  \A c \in PackageIndex :
    channels[c].lock_time = BUS_CHANNEL_FREE_FLAG => channels[c].unlock_time = -1

DeviceInv == DeviceTypeOK /\ NoStalePage /\ FreeTogether

\* What a call does to the channels: none is touched, or the call's one is
\* reserved until the time the call returns for, which is later than before.
TimeEffect(lpn, start) ==
  LET c == get_channel(address_of(lpn))
  IN  IF last'.result = -1 THEN channels' = channels
      ELSE /\ last'.result \in Nat \ {0}
           /\ channels'[c].unlock_time = start + last'.result
           /\ channels[c].unlock_time < start + last'.result
           /\ \A d \in PackageIndex \ {c} : channels'[d] = channels[d]

\* What a call does to the pages.
PageEffect(type, lpn) ==
  LET p == lpn % TOTAL
  IN  \/ type = "read"  /\ last'.result # -1 /\ programmed' = programmed
      \/ /\ type = "write" /\ (last'.result # -1) = (p \notin programmed)
         /\ programmed' = programmed \cup {p}
      \/ /\ type = "erase" /\ last'.result # -1
         /\ programmed' = {q \in programmed :
                              q \div SSD_BLOCK_SIZE # p \div SSD_BLOCK_SIZE}

\* The parts of an address are indices of the arrays they are used with.
LEMMA AddressParts ==
  ASSUME NEW lpn \in 0 .. TOTAL
  PROVE  LET a == address_of(lpn)
         IN  /\ a \in Address
             /\ plane_of(a) \in PlaneId /\ <<a.package, a.die>> \in DieId
             /\ a.package \in PackageIndex /\ a.die \in DieIndex /\ a.plane \in PlaneIndex
             /\ a.block \in BlockIndex /\ a.page \in PageIndex
             /\ get_channel(a) \in PackageIndex
<1>1. lpn \in Nat
  BY TotalType
<1>2. address_of(lpn) \in Address
  BY <1>1, AddressType
<1> HIDE DEF address_of
<1> QED BY <1>2, ChannelType DEF Address, plane_of, PlaneId, DieId

\* A call that reserves the bus, for the channels and the call's result.
LEMMA ReserveStep ==
  ASSUME DeviceTypeOK, FreeTogether, NEW lpn \in 0 .. TOTAL, NEW start \in Nat,
         NEW op \in {"read", "write", "erase"}, NEW duration \in Nat \ {0},
         reserve(op, lpn, start, duration)
  PROVE  /\ channels' \in [PackageIndex -> Channel]
         /\ last' \in [op : {"none", "read", "write", "erase"}, lpn : 0 .. TOTAL,
                       start : Nat, result : Nat \cup {-1}]
         /\ last'.op = op /\ last'.lpn = lpn /\ last'.result # -1
         /\ FreeTogether'
         /\ TimeEffect(lpn, start)
<1> DEFINE c == get_channel(address_of(lpn))
           s == sched_time(channels[c], start)
<1>1. c \in PackageIndex
  BY AddressParts
<1> HIDE DEF c
<1>2. /\ channels' = [channels EXCEPT ![c] = channel_lock(channels[c], start, duration)]
      /\ last' = [op |-> op, lpn |-> lpn, start |-> start, result |-> duration + (s - start)]
  BY <1>1 DEF reserve, arrived, channel_wait, c
<1>3. channels \in [PackageIndex -> Channel] /\ channels[c] \in Channel
  BY <1>1 DEF DeviceTypeOK
<1>4. s \in Nat /\ s >= start /\ channels[c].unlock_time <= s
  BY <1>1, <1>3 DEF sched_time, Channel, FreeTogether, BUS_CHANNEL_FREE_FLAG
<1> HIDE DEF s
<1>5. /\ channel_lock(channels[c], start, duration) \in Channel
      /\ channel_lock(channels[c], start, duration).lock_time = s
      /\ channel_lock(channels[c], start, duration).unlock_time = s + duration
  <2>1. channel_lock(channels[c], start, duration)
          = [channels[c] EXCEPT !.lock_time = s, !.unlock_time = s + duration]
    BY DEF channel_lock, s
  <2>2. s + duration \in Nat
    BY <1>4
  <2> QED BY <1>3, <1>4, <2>1, <2>2 DEF Channel
<1>6. channels' \in [PackageIndex -> Channel]
  BY <1>2, <1>3, <1>5
<1>7. /\ channels'[c].unlock_time = s + duration /\ channels'[c].lock_time = s
      /\ \A d \in PackageIndex \ {c} : channels'[d] = channels[d]
  BY <1>1, <1>2, <1>3, <1>5
<1>8. duration + (s - start) \in Nat \ {0} /\ duration + (s - start) # -1
      /\ start + (duration + (s - start)) = s + duration
      /\ channels[c].unlock_time < s + duration
  BY <1>3, <1>4 DEF Channel, BUS_CHANNEL_FREE_FLAG
<1>9. FreeTogether'
  BY <1>1, <1>4, <1>7 DEF FreeTogether, BUS_CHANNEL_FREE_FLAG
<1>10. TimeEffect(lpn, start)
  BY <1>2, <1>7, <1>8 DEF TimeEffect, c
<1> QED BY <1>2, <1>6, <1>8, <1>9, <1>10

\* A call that is refused, for the channels and the call's result.
LEMMA RefuseStep ==
  ASSUME DeviceTypeOK, FreeTogether, NEW lpn \in 0 .. TOTAL, NEW start \in Nat,
         NEW op \in {"read", "write", "erase"}, refuse(op, lpn, start)
  PROVE  /\ channels' \in [PackageIndex -> Channel]
         /\ last' \in [op : {"none", "read", "write", "erase"}, lpn : 0 .. TOTAL,
                       start : Nat, result : Nat \cup {-1}]
         /\ last'.op = op /\ last'.lpn = lpn /\ last'.result = -1
         /\ FreeTogether'
         /\ TimeEffect(lpn, start)
  BY DEF refuse, arrived, DeviceTypeOK, FreeTogether, TimeEffect

\* The constant part of DeviceTypeOK.
LEMMA ChannelsExist == \A lpn \in 0 .. TOTAL : get_channel(address_of(lpn)) \in PackageIndex
  BY AddressParts

\* A read never fails and changes no page.
LEMMA ReadStep ==
  ASSUME DeviceInv, NEW lpn \in 0 .. TOTAL, NEW start \in Nat, ArriveRead(lpn, start)
  PROVE  DeviceInv' /\ TimeEffect(lpn, start) /\ PageEffect("read", lpn) /\ last'.result # -1
<1> DEFINE a == address_of(lpn)
<1>1. /\ plane_of(a) \in PlaneId /\ a.block \in BlockIndex /\ a.page \in PageIndex
  BY AddressParts
<1>2. plane_read_ret(planes[plane_of(a)], a.block, a.page) = "SUCCESS"
  BY <1>1 DEF DeviceInv, NoStalePage, plane_read_ret, page_readable
<1> HIDE DEF a
<1>3. /\ reserve("read", lpn, start, BUS_DELAY + PAGE_READ_DELAY)
      /\ planes' = planes /\ die_erase' = die_erase /\ pkg_erase' = pkg_erase
  BY <1>2 DEF ArriveRead, a
<1>4. BUS_DELAY + PAGE_READ_DELAY \in Nat \ {0}
  BY DelayAssumption
<1> HIDE DEF reserve
<1>5. /\ channels' \in [PackageIndex -> Channel]
      /\ last' \in [op : {"none", "read", "write", "erase"}, lpn : 0 .. TOTAL,
                    start : Nat, result : Nat \cup {-1}]
      /\ last'.result # -1 /\ FreeTogether' /\ TimeEffect(lpn, start)
  BY <1>3, <1>4, ReserveStep DEF DeviceInv
<1>6. DeviceInv'
  BY <1>3, <1>5, ChannelsExist DEF DeviceInv, DeviceTypeOK, NoStalePage
<1>7. programmed' = programmed
  BY <1>3 DEF programmed, page_of_lpn
<1> QED BY <1>5, <1>6, <1>7 DEF PageEffect

\* A write programs its page, and fails if it is programmed already.
LEMMA WriteStep ==
  ASSUME DeviceInv, NEW lpn \in 0 .. TOTAL, NEW start \in Nat, ArriveWrite(lpn, start)
  PROVE  /\ DeviceInv' /\ TimeEffect(lpn, start) /\ PageEffect("write", lpn)
         /\ last'.result = -1 => \A k \in PlaneId : planes'[k].data = planes[k].data
<1> DEFINE a == address_of(lpn)
           k == plane_of(a)
           p == lpn % TOTAL
           ok == plane_write_ret(planes[k], a.block, a.page) = "SUCCESS"
           pl == plane_write(planes[k], a.block, a.page)
<1>1. k \in PlaneId /\ a.block \in BlockIndex /\ a.page \in PageIndex /\ a \in Address
  BY AddressParts
<1>2. planes \in [PlaneId -> Plane] /\ planes[k] \in Plane
  BY <1>1 DEF DeviceInv, DeviceTypeOK
<1>3. /\ planes' = [planes EXCEPT ![k] = pl]
      /\ die_erase' = die_erase /\ pkg_erase' = pkg_erase
      /\ IF ok THEN reserve("write", lpn, start, BUS_DELAY + PAGE_WRITE_DELAY)
         ELSE refuse("write", lpn, start)
  BY <1>1, <1>2 DEF ArriveWrite
<1>4. /\ pl \in Plane
      /\ \A c \in BlockIndex, j \in PageIndex :
           pl.data[c].data[j] = IF c = a.block /\ j = a.page
                                   /\ planes[k].data[a.block].data[a.page] = "EMPTY"
                                THEN "VALID" ELSE planes[k].data[c].data[j]
      /\ ~ok => pl.data = planes[k].data
  <2>1. ~ok => plane_write_ret(planes[k], a.block, a.page) = "FAILURE"
    BY DEF plane_write_ret
  <2> HIDE DEF a
  <2> QED BY <1>1, <1>2, <2>1, PlaneWrite
<1>5. ok = (page_of_lpn(p) = "EMPTY")
  BY AddressWraps DEF plane_write_ret, page_writable, page_of_lpn
<1>6. p \in 0 .. (TOTAL - 1) /\ address_of(p) = a
  BY AddressWraps
<1>7. ASSUME NEW q \in 0 .. (TOTAL - 1)
      PROVE  page_of_lpn(q)' = IF q = p /\ page_of_lpn(q) = "EMPTY"
                               THEN "VALID" ELSE page_of_lpn(q)
  <2> DEFINE b == address_of(q)
  <2>1. /\ b \in Address /\ plane_of(b) \in PlaneId
        /\ b.block \in BlockIndex /\ b.page \in PageIndex
    <3>1. q \in 0 .. TOTAL
      BY TotalType
    <3> QED BY <3>1, AddressParts
  <2>2. page_of_lpn(q) = planes[plane_of(b)].data[b.block].data[b.page]
        /\ page_of_lpn(q)' = planes'[plane_of(b)].data[b.block].data[b.page]
    BY DEF page_of_lpn
  <2>3. q = p <=> (plane_of(b) = k /\ b.block = a.block /\ b.page = a.page)
    <3>1. b = a => q = p
      BY <1>6, AddressInjective
    <3>2. (plane_of(b) = k /\ b.block = a.block /\ b.page = a.page) => b = a
      <4> HIDE DEF a, b
      <4> QED BY <1>1, <2>1 DEF Address, plane_of, k
    <3> QED BY <1>6, <3>1, <3>2
  <2> HIDE DEF a, b, k, p, pl
  <2>4. CASE plane_of(b) # k
    BY <1>2, <1>3, <2>1, <2>2, <2>3, <2>4
  <2>5. CASE plane_of(b) = k
    <3>1. planes'[plane_of(b)] = pl
      BY <1>1, <1>2, <1>3, <2>5
    <3> QED BY <1>4, <2>1, <2>2, <2>3, <2>5, <3>1
  <2> QED BY <2>4, <2>5
<1>8. /\ channels' \in [PackageIndex -> Channel]
      /\ last' \in [op : {"none", "read", "write", "erase"}, lpn : 0 .. TOTAL,
                    start : Nat, result : Nat \cup {-1}]
      /\ IF ok THEN last'.result # -1 ELSE last'.result = -1
      /\ FreeTogether' /\ TimeEffect(lpn, start)
  <2>1. BUS_DELAY + PAGE_WRITE_DELAY \in Nat \ {0}
    BY DelayAssumption
  <2> HIDE DEF reserve, refuse
  <2>2. CASE ok
    <3> HIDE DEF ok
    <3> QED BY <1>3, <2>1, <2>2, ReserveStep DEF DeviceInv
  <2>3. CASE ~ok
    <3> HIDE DEF ok
    <3> QED BY <1>3, <2>3, RefuseStep DEF DeviceInv
  <2> HIDE DEF ok
  <2> QED BY <2>2, <2>3
<1>9. NoStalePage'
  <2> SUFFICES ASSUME NEW m \in PlaneId, NEW c \in BlockIndex, NEW j \in PageIndex
               PROVE  planes'[m].data[c].data[j] \in {"EMPTY", "VALID"}
    BY DEF NoStalePage
  <2>1. planes[m].data[c].data[j] \in {"EMPTY", "VALID"}
    BY DEF DeviceInv, NoStalePage
  <2> HIDE DEF k, pl
  <2>2. CASE m # k
    BY <1>2, <1>3, <2>1, <2>2
  <2>3. CASE m = k
    BY <1>1, <1>2, <1>3, <1>4, <2>1, <2>3
  <2> QED BY <2>2, <2>3
<1>10. DeviceInv'
  <2>1. planes' \in [PlaneId -> Plane]
    BY <1>1, <1>2, <1>3, <1>4
  <2> QED BY <1>3, <1>8, <1>9, <2>1, ChannelsExist DEF DeviceInv, DeviceTypeOK
<1>11. programmed' = programmed \cup {p}
  <2> HIDE DEF p, page_of_lpn
  <2>1. programmed' = {q \in 0 .. (TOTAL - 1) : page_of_lpn(q)' # "EMPTY"}
    BY DEF programmed
  <2> QED BY <1>6, <1>7, <2>1 DEF programmed
<1>12. (last'.result # -1) = (p \notin programmed)
  <2> HIDE DEF ok
  <2> QED BY <1>5, <1>6, <1>8 DEF programmed
<1>13. ~ok => \A m \in PlaneId : planes'[m].data = planes[m].data
  <2> HIDE DEF k, pl, ok
  <2> QED BY <1>1, <1>2, <1>3, <1>4
<1> QED BY <1>8, <1>10, <1>11, <1>12, <1>13 DEF PageEffect

\* An erase clears the pages of its unit and never fails.
LEMMA EraseStep ==
  ASSUME DeviceInv, NEW lpn \in 0 .. TOTAL, NEW start \in Nat, ArriveErase(lpn, start)
  PROVE  DeviceInv' /\ TimeEffect(lpn, start) /\ PageEffect("erase", lpn) /\ last'.result # -1
<1> DEFINE a == address_of(lpn)
           k == plane_of(a)
           p == lpn % TOTAL
           duration == BUS_DELAY + BLOCK_ERASE_DELAY
           pl == plane_erase(planes[k], a.block, start + duration)
<1>1. /\ k \in PlaneId /\ a.block \in BlockIndex /\ a.page \in PageIndex /\ a \in Address
      /\ a.package \in PackageIndex /\ a.die \in DieIndex /\ a.plane \in PlaneIndex
  BY AddressParts
<1>2. planes \in [PlaneId -> Plane] /\ planes[k] \in Plane
  BY <1>1 DEF DeviceInv, DeviceTypeOK
<1>3. duration \in Nat \ {0} /\ start + duration \in Nat
  BY DelayAssumption
<1>4. /\ planes' = [planes EXCEPT ![k] = pl]
      /\ die_erase' = [die_erase EXCEPT ![<<a.package, a.die>>] = die_erase_time(planes', a)]
      /\ pkg_erase' = [pkg_erase EXCEPT ![a.package] = package_erase_time(planes', a)]
      /\ reserve("erase", lpn, start, duration)
  <2> HIDE DEF reserve
  <2> QED BY <1>1, <1>2 DEF ArriveErase
<1>5. /\ pl \in Plane
      /\ \A c \in BlockIndex, j \in PageIndex :
           pl.data[c].data[j] = IF c = a.block THEN "EMPTY" ELSE planes[k].data[c].data[j]
  <2> DEFINE t == start + duration
             P == planes[k]
  <2>1. P \in Plane /\ a.block \in BlockIndex /\ t \in Nat
    BY <1>1, <1>2, <1>3
  <2> HIDE DEF a, k, t, P
  <2>2. /\ plane_erase(P, a.block, t) \in Plane
        /\ \A c \in BlockIndex, j \in PageIndex :
             plane_erase(P, a.block, t).data[c].data[j] =
               IF c = a.block THEN "EMPTY" ELSE P.data[c].data[j]
    BY <2>1, PlaneErase
  <2> HIDE DEF plane_erase
  <2> QED BY <2>2 DEF P, t
<1>6. p \in 0 .. (TOTAL - 1) /\ address_of(p) = a
  BY AddressWraps
<1>7. ASSUME NEW q \in 0 .. (TOTAL - 1)
      PROVE  page_of_lpn(q)' = IF q \div SSD_BLOCK_SIZE = p \div SSD_BLOCK_SIZE
                               THEN "EMPTY" ELSE page_of_lpn(q)
  <2> DEFINE b == address_of(q)
  <2>1. plane_of(b) \in PlaneId /\ b.block \in BlockIndex /\ b.page \in PageIndex
    <3>1. q \in 0 .. TOTAL
      BY TotalType
    <3> QED BY <3>1, AddressParts
  <2>2. page_of_lpn(q) = planes[plane_of(b)].data[b.block].data[b.page]
        /\ page_of_lpn(q)' = planes'[plane_of(b)].data[b.block].data[b.page]
    BY DEF page_of_lpn
  <2>3. (plane_of(b) = k /\ b.block = a.block)
          <=> q \div SSD_BLOCK_SIZE = p \div SSD_BLOCK_SIZE
    BY <1>6, AddressInjective
  <2> HIDE DEF a, b, k, p, pl
  <2>4. CASE plane_of(b) # k
    BY <1>2, <1>4, <2>1, <2>2, <2>3, <2>4
  <2>5. CASE plane_of(b) = k
    <3>1. planes'[plane_of(b)] = pl
      BY <1>1, <1>2, <1>4, <2>5
    <3> QED BY <1>5, <2>1, <2>2, <2>3, <2>5, <3>1
  <2> QED BY <2>4, <2>5
<1>8. /\ channels' \in [PackageIndex -> Channel]
      /\ last' \in [op : {"none", "read", "write", "erase"}, lpn : 0 .. TOTAL,
                    start : Nat, result : Nat \cup {-1}]
      /\ last'.result # -1 /\ FreeTogether' /\ TimeEffect(lpn, start)
  <2> HIDE DEF reserve, duration
  <2> QED BY <1>3, <1>4, ReserveStep DEF DeviceInv
<1>9. NoStalePage'
  <2> SUFFICES ASSUME NEW m \in PlaneId, NEW c \in BlockIndex, NEW j \in PageIndex
               PROVE  planes'[m].data[c].data[j] \in {"EMPTY", "VALID"}
    BY DEF NoStalePage
  <2>1. planes[m].data[c].data[j] \in {"EMPTY", "VALID"}
    BY DEF DeviceInv, NoStalePage
  <2> HIDE DEF k, pl
  <2>2. CASE m # k
    BY <1>2, <1>4, <2>1, <2>2
  <2>3. CASE m = k
    BY <1>1, <1>2, <1>4, <1>5, <2>1, <2>3
  <2> QED BY <2>2, <2>3
<1>10. planes' \in [PlaneId -> Plane]
  <2> HIDE DEF pl, k
  <2> QED BY <1>1, <1>2, <1>4, <1>5
<1>11. die_erase' \in [DieId -> Nat] /\ pkg_erase' \in [PackageIndex -> Nat]
  <2>1. <<a.package, a.die, 0>> \in PlaneId /\ <<a.package, 0, a.plane>> \in PlaneId
    BY <1>1, GeometryAssumption DEF PlaneId, DieIndex, PlaneIndex
  <2>2. \A m \in PlaneId : planes'[m].data[a.block].last_erase_time \in Nat
    BY <1>1, <1>10 DEF Plane, Block
  <2>3. die_erase_time(planes', a) \in Nat /\ package_erase_time(planes', a) \in Nat
    BY <2>1, <2>2 DEF die_erase_time, package_erase_time
  <2>4. die_erase \in [DieId -> Nat] /\ pkg_erase \in [PackageIndex -> Nat]
    BY DEF DeviceInv, DeviceTypeOK
  <2> HIDE DEF a
  <2> QED BY <1>4, <2>3, <2>4
<1>12. DeviceInv'
  BY <1>8, <1>9, <1>10, <1>11, ChannelsExist DEF DeviceInv, DeviceTypeOK
<1>13. programmed' = {q \in programmed : q \div SSD_BLOCK_SIZE # p \div SSD_BLOCK_SIZE}
  <2> HIDE DEF p, page_of_lpn
  <2>1. programmed' = {q \in 0 .. (TOTAL - 1) : page_of_lpn(q)' # "EMPTY"}
    BY DEF programmed
  <2> QED BY <1>6, <1>7, <2>1 DEF programmed
<1> QED BY <1>8, <1>12, <1>13 DEF PageEffect
-------------------------------------------------------------------------------
\* A request's numbers are numbers; the pages of its events lie apart by its unit.
LEMMA RequestNumbers ==
  ASSUME NEW r \in Requests
  PROVE  /\ r.type \in {"read", "write", "erase"} /\ r.block \in Nat /\ r.nsect \in Nat \ {0}
         /\ logical_address(r) \in Nat /\ num(r) \in Nat /\ unit(r) \in Nat \ {0}
         /\ \A i \in Nat : event_page(r, i) \in Nat
<1>1. r.type \in {"read", "write", "erase"} /\ r.block \in Nat /\ r.nsect \in Nat \ {0}
  BY RequestsAssumption
<1>2. /\ SSD_PAGE_SECS \in Nat \ {0} /\ SSD_PAGE_OOBSECS \in Nat \ {0}
      /\ FLASHPGS_PER_BLOCK \in Nat \ {0}
  BY SectorsAssumption, SettingsAssumption, BlockSizeAssumption DEF SSD_PAGE_OOBSECS
<1>3. logical_address(r) \in Nat
  BY <1>1, <1>2, Division DEF logical_address
<1>4. size(r) \in Nat
  <2>1. r.nsect * SSD_PAGE_SECS \in Nat
    BY <1>1, <1>2
  <2>2. (r.nsect * SSD_PAGE_SECS) \div SSD_PAGE_OOBSECS \in Nat
    BY <1>2, <2>1, Division
  <2> QED BY <1>1, <2>2 DEF size
<1>5. size(r) \div SSD_PAGE_SECS \in Nat
  BY <1>2, <1>4, Division
<1>6. (size(r) \div SSD_PAGE_SECS) \div FLASHPGS_PER_BLOCK \in Nat
  BY <1>2, <1>5, Division
<1>7. num(r) \in Nat /\ unit(r) \in Nat \ {0}
  BY <1>2, <1>5, <1>6 DEF num, unit
<1>8. ASSUME NEW i \in Nat PROVE event_page(r, i) \in Nat
  <2>1. i * unit(r) \in Nat
    BY <1>7
  <2> QED BY <1>3, <2>1 DEF event_page
<1> QED BY <1>1, <1>3, <1>7, <1>8

\* A request of whole pages that passes the capacity check ends on the device,
\* and each of its events lies within it, for an erase with the whole unit.
LEMMA WholeRequest ==
  ASSUME NEW r \in Requests, accepted(r), r.nsect % SSD_PAGE_OOBSECS = 0
  PROVE  LET n == r.nsect \div SSD_PAGE_OOBSECS
         IN  /\ n \in Nat /\ r.nsect = n * SSD_PAGE_OOBSECS
             /\ logical_address(r) + n <= TOTAL
             /\ num(r) = n \div unit(r) /\ num(r) * unit(r) <= n
             /\ \A i \in 0 .. (num(r) - 1) : event_page(r, i) + unit(r) <= logical_address(r) + n
<1> DEFINE S == SSD_PAGE_OOBSECS
           n == r.nsect \div S
           la == logical_address(r)
<1>1. S \in Nat \ {0} /\ SSD_PAGE_SECS \in Nat \ {0} /\ S = SSD_PAGE_SECS + 1
  BY SectorsAssumption DEF SSD_PAGE_OOBSECS
<1>2. r.block \in Nat /\ r.nsect \in Nat \ {0} /\ unit(r) \in Nat \ {0} /\ num(r) \in Nat
      /\ la \in Nat
  BY RequestNumbers
<1>3. n \in Nat /\ r.nsect = n * S
  <2>1. r.nsect % S = 0
    OBVIOUS
  <2> HIDE DEF S
  <2>2. r.nsect \in Nat
    BY <1>2
  <2>3. n \in Nat /\ r.nsect = S * n + (r.nsect % S)
    <3> DEFINE a == r.nsect
    <3>1. a \in Nat /\ S \in Nat \ {0}
      BY <1>1, <2>2
    <3> HIDE DEF a
    <3>2. a \div S \in Nat /\ a = S * (a \div S) + (a % S)
      BY <3>1, Division
    <3> QED BY <3>2 DEF a
  <2> HIDE DEF n
  <2> QED BY <1>1, <2>1, <2>3
<1>4. size(r) = n * SSD_PAGE_SECS
  <2>1. size(r) = (n * S * SSD_PAGE_SECS) \div S
    BY <1>3 DEF size
  <2>2. ASSUME NEW k \in Nat, NEW s \in Nat \ {0}
        PROVE  (k * (s + 1) * s) \div (s + 1) = k * s
    BY <2>2
  <2> HIDE DEF S, n
  <2> QED BY <1>1, <1>3, <2>1, <2>2
<1>5. size(r) \div SSD_PAGE_SECS = n
  <2>1. ASSUME NEW k \in Nat, NEW s \in Nat \ {0}
        PROVE  (k * s) \div s = k
    BY <2>1
  <2> HIDE DEF n
  <2> QED BY <1>1, <1>3, <1>4, <2>1
<1>6. num(r) = n \div unit(r)
  <2>1. n \div 1 = n
    BY <1>3
  <2> HIDE DEF n
  <2> QED BY <1>5, <2>1 DEF num, unit
<1>7. num(r) * unit(r) <= n
  <2> HIDE DEF n
  <2>1. n = unit(r) * (n \div unit(r)) + (n % unit(r)) /\ n % unit(r) \in 0 .. (unit(r) - 1)
    BY <1>2, <1>3, Division
  <2> QED BY <1>2, <1>3, <1>6, <2>1
<1>8. la + n <= TOTAL
  <2>1. r.block + n * S <= TOTAL * S
    BY <1>3 DEF accepted, sdk_capacity
  <2>2. la * S <= r.block
    <3> DEFINE q == r.block \div S
               m == r.block % S
    <3> HIDE DEF S
    <3>1. r.block = S * q + m /\ m \in Nat /\ q \in Nat
      <4>1. ASSUME NEW a \in Nat, NEW b \in Nat \ {0}
            PROVE  a \div b \in Nat /\ a % b \in Nat /\ a = b * (a \div b) + (a % b)
        BY Division
      <4>2. r.block \in Nat /\ S \in Nat \ {0}
        BY <1>1, <1>2
      <4> QED BY <4>1, <4>2
    <3>2. la = q
      BY DEF logical_address, S
    <3> HIDE DEF la, q, m
    <3> QED BY <1>1, <1>2, <3>1, <3>2
  <2>3. (la + n) * S <= TOTAL * S
    <3> HIDE DEF n, la, S
    <3>1. (la + n) * S = la * S + n * S /\ n * S \in Nat /\ la * S \in Nat
      BY <1>1, <1>2, <1>3
    <3>2. TOTAL * S \in Nat
      BY <1>1, TotalType
    <3> QED BY <1>2, <2>1, <2>2, <3>1, <3>2
  <2> HIDE DEF n, la, S
  <2> QED BY <1>1, <1>2, <1>3, <2>3, TotalType
<1>9. ASSUME NEW i \in 0 .. (num(r) - 1)
      PROVE  event_page(r, i) + unit(r) <= la + n
  <2> HIDE DEF n, la
  <2>1. i \in Nat /\ i + 1 <= num(r)
    BY <1>2
  <2>2. (i + 1) * unit(r) <= num(r) * unit(r)
    BY <1>2, <2>1
  <2>3. i * unit(r) + unit(r) = (i + 1) * unit(r) /\ i * unit(r) \in Nat
    BY <1>2, <2>1
  <2>4. event_page(r, i) = la + i * unit(r)
    BY DEF event_page, la
  <2>5. num(r) * unit(r) \in Nat /\ (i + 1) * unit(r) \in Nat
    BY <1>2, <2>1
  <2> QED BY <1>2, <1>3, <1>7, <2>2, <2>3, <2>4, <2>5
<1> QED BY <1>3, <1>6, <1>7, <1>8, <1>9
-------------------------------------------------------------------------------
\* The values of a CPU's locals.
Locals == [pc : {"idle", "timed", "simulating", "bug"}, req : Requests \cup {NO_REQUEST},
           start : Nat, i : Nat, timeval : Nat \cup {-1}]

\* Where a CPU has simlock, and never comes back from in one case.
Holding == {"simulating", "bug"}

\* Past the checks the request is one the simulator is asked about; the loop has
\* not run yet, or its first event has taken some time; it stops at an event that
\* is not on the device.
CpuInv(x) ==
  LET c == cpu[x]
  IN  /\ c \in Locals
      /\ c.pc # "idle" => c.req \in Requests /\ accepted(c.req) /\ c.req.nsect # 1
                         /\ ~page_reserved(logical_address(c.req))
      /\ c.pc = "timed" => c.i = 0 /\ c.timeval = 0
      /\ c.pc \in Holding => c.i <= num(c.req) /\ (c.i = 0 <=> c.timeval = 0)
      /\ c.pc = "bug" => more(x) /\ event_page(c.req, c.i) > TOTAL

\* simlock is held by the CPU that is past taking it, and by one at most.
LockInv ==
  /\ simlock = {x \in CPUs : cpu[x].pc \in Holding}
  /\ \A x, y \in simlock : x = y

IInv ==
  /\ DeviceInv
  /\ DOMAIN cpu = CPUs
  /\ \A x \in CPUs : CpuInv(x)
  /\ LockInv
  /\ AnswerIsLastRelease

\* The pages of the events of r before the i-th.
EventPages(r, i) ==
  IF r.type = "erase"
  THEN {q \in 0 .. (TOTAL - 1) : \E j \in 0 .. (i - 1) :
          q \div SSD_BLOCK_SIZE = event_page(r, j) \div SSD_BLOCK_SIZE}
  ELSE {q \in 0 .. (TOTAL - 1) : \E j \in 0 .. (i - 1) : q = event_page(r, j)}

\* While a CPU has simlock, the pages programmed are those that were when it took
\* it, and what its events so far have made of them; only a write stops early, at
\* the first page that was programmed before.
Progress(r, i, timeval) ==
  /\ r.type = "read"  => programmed = before /\ timeval # -1
  /\ r.type = "erase" => programmed = before \ EventPages(r, i) /\ timeval # -1
  /\ (r.type = "write" /\ timeval # -1) =>
       /\ programmed = before \cup EventPages(r, i)
       /\ before \cap EventPages(r, i) = {}
  /\ (r.type = "write" /\ timeval = -1) =>
       /\ i > 0 /\ event_page(r, i - 1) \in before
       /\ programmed = before \cup EventPages(r, i - 1)
       /\ before \cap EventPages(r, i - 1) = {}

ProgressInv == \A x \in simlock : Progress(cpu[x].req, cpu[x].i, cpu[x].timeval)
-------------------------------------------------------------------------------
\* What a call of ssd_event_arrive does, whichever it is.
LEMMA CallStep ==
  ASSUME DeviceInv, NEW type, NEW lpn \in 0 .. TOTAL, NEW start \in Nat,
         ssd_event_arrive(type, lpn, start)
  PROVE  /\ DeviceInv' /\ TimeEffect(lpn, start) /\ PageEffect(type, lpn)
         /\ last'.result = -1 => \A k \in PlaneId : planes'[k].data = planes[k].data
<1> HIDE DEF TimeEffect, PageEffect, ArriveRead, ArriveWrite, ArriveErase, DeviceInv
<1>1. CASE type = "read" /\ ArriveRead(lpn, start)
  BY <1>1, ReadStep
<1>2. CASE type = "write" /\ ArriveWrite(lpn, start)
  BY <1>2, WriteStep
<1>3. CASE type = "erase" /\ ArriveErase(lpn, start)
  BY <1>3, EraseStep
<1> QED BY <1>1, <1>2, <1>3 DEF ssd_event_arrive

\* A new device is well formed.
LEMMA InitDevice == DeviceInit => DeviceInv
<1> SUFFICES ASSUME DeviceInit PROVE DeviceInv
  OBVIOUS
<1>1. plane_init \in Plane /\ \A b \in BlockIndex, i \in PageIndex :
                                plane_init.data[b].data[i] = "EMPTY"
  <2>1. 0 \in BlockIndex /\ 0 \in PageIndex /\ PLANE_SIZE \in Nat
    BY PlaneSizeAssumption, BlockSizeAssumption DEF BlockIndex, PageIndex
  <2>2. block_init \in Block /\ \A i \in PageIndex : block_init.data[i] = "EMPTY"
    BY DEF block_init, Block, page_state, block_state
  <2> HIDE DEF block_init
  <2>3. [block |-> 0, page |-> 0, valid |-> PAGE] \in FreePage
    BY <2>1 DEF FreePage
  <2> QED BY <2>1, <2>2, <2>3 DEF plane_init, Plane
<1>2. channel_init \in Channel /\ channel_init.unlock_time = -1
  BY DEF channel_init, Channel, BUS_CHANNEL_FREE_FLAG
<1> HIDE DEF plane_init, channel_init
<1>3. /\ planes \in [PlaneId -> Plane] /\ channels \in [PackageIndex -> Channel]
      /\ die_erase \in [DieId -> Nat] /\ pkg_erase \in [PackageIndex -> Nat]
  BY <1>1, <1>2 DEF DeviceInit
<1>4. last \in [op : {"none", "read", "write", "erase"}, lpn : 0 .. TOTAL,
                start : Nat, result : Nat \cup {-1}]
  <2>1. 0 \in 0 .. TOTAL
    BY TotalType
  <2> QED BY <2>1 DEF DeviceInit
<1>5. NoStalePage /\ FreeTogether
  BY <1>1, <1>2 DEF DeviceInit, NoStalePage, FreeTogether
<1> QED BY <1>3, <1>4, <1>5, ChannelsExist DEF DeviceInv, DeviceTypeOK

\* The invariant of the device depends on the device alone.
LEMMA DeviceStays ==
  ASSUME DeviceInv, UNCHANGED device_vars
  PROVE  DeviceInv'
  BY DEF DeviceInv, DeviceTypeOK, NoStalePage, FreeTogether, device_vars

\* So does the check of the last release, as long as nobody is in simlock whose
\* loop has gone on.
LEMMA ReleaseStays ==
  ASSUME AnswerIsLastRelease, UNCHANGED channels, simlock' \subseteq simlock,
         \A x \in simlock' : /\ cpu'[x].req = cpu[x].req /\ cpu'[x].start = cpu[x].start
                             /\ cpu'[x].i = cpu[x].i /\ cpu'[x].timeval = cpu[x].timeval
  PROVE  AnswerIsLastRelease'
  BY DEF AnswerIsLastRelease

\* The initial state.
LEMMA InitIInv == Init => IInv
<1> SUFFICES ASSUME Init PROVE IInv
  OBVIOUS
<1>1. DeviceInv
  BY InitDevice DEF Init
<1>2. ASSUME NEW x \in CPUs PROVE CpuInv(x)
  <2>1. cpu[x] = idle
    BY DEF Init
  <2> QED BY <2>1 DEF CpuInv, idle, Locals, Holding
<1>3. LockInv /\ AnswerIsLastRelease
  BY DEF Init, LockInv, AnswerIsLastRelease, idle, Holding
<1> QED BY <1>1, <1>2, <1>3 DEF Init, IInv
-------------------------------------------------------------------------------
\* A step of one CPU leaves the others' locals alone.
LEMMA CpusStep ==
  ASSUME IInv, NEW x \in CPUs, NEW c, cpu' = [cpu EXCEPT ![x] = c], CpuInv(x)'
  PROVE  /\ DOMAIN cpu' = CPUs /\ cpu'[x] = c
         /\ \A y \in CPUs \ {x} : cpu'[y] = cpu[y]
         /\ \A y \in CPUs : CpuInv(y)'
<1>1. /\ DOMAIN cpu' = CPUs /\ cpu'[x] = c
      /\ \A y \in CPUs \ {x} : cpu'[y] = cpu[y]
  BY DEF IInv
<1>2. ASSUME NEW y \in CPUs \ {x} PROVE CpuInv(y)'
  BY <1>1, <1>2 DEF IInv, CpuInv, more
<1> QED BY <1>1, <1>2

\* A request is begun.
LEMMA BeginIInv ==
  ASSUME IInv, NEW x \in CPUs, NEW r \in Requests, NEW start \in StartTimes, Begin(x, r, start)
  PROVE  IInv'
<1> DEFINE c == [idle EXCEPT !.pc = "timed", !.req = r, !.start = start]
<1>1. cpu' = [cpu EXCEPT ![x] = c] /\ UNCHANGED <<device_vars, simlock>> /\ cpu[x].pc = "idle"
  BY DEF Begin
<1>2. /\ c \in Locals /\ c.pc = "timed" /\ c.req = r /\ c.i = 0 /\ c.timeval = 0
  BY StartTimesAssumption DEF idle, Locals
<1>3. CpuInv(x)'
  <2>1. cpu'[x] = c
    BY <1>1 DEF IInv
  <2> HIDE DEF c
  <2> QED BY <1>2, <2>1 DEF CpuInv, Begin, Holding
<1> HIDE DEF c
<1>4. /\ DOMAIN cpu' = CPUs /\ cpu'[x] = c /\ \A y \in CPUs \ {x} : cpu'[y] = cpu[y]
      /\ \A y \in CPUs : CpuInv(y)'
  BY <1>1, <1>3, CpusStep
<1>5. x \notin simlock /\ simlock \subseteq CPUs
  BY <1>1 DEF IInv, LockInv, Holding
<1>6. LockInv'
  BY <1>1, <1>2, <1>4 DEF IInv, LockInv, Holding
<1>7. AnswerIsLastRelease'
  BY <1>1, <1>4, <1>5, ReleaseStays DEF IInv, device_vars
<1> QED BY <1>1, <1>4, <1>6, <1>7, DeviceStays DEF IInv

\* simlock is taken.
LEMMA LockIInv ==
  ASSUME IInv, NEW x \in CPUs, Lock(x)
  PROVE  IInv'
<1> DEFINE c == [cpu[x] EXCEPT !.pc = "simulating"]
<1>1. /\ cpu' = [cpu EXCEPT ![x] = c] /\ UNCHANGED device_vars
      /\ simlock = {} /\ simlock' = {x} /\ cpu[x].pc = "timed"
  BY DEF Lock
<1>2. CpuInv(x) /\ cpu[x] \in Locals
  BY DEF IInv, CpuInv
<1>3. /\ c \in Locals /\ c.pc = "simulating" /\ c.req = cpu[x].req
      /\ c.i = cpu[x].i /\ c.timeval = cpu[x].timeval
  BY <1>2 DEF Locals
<1>4. CpuInv(x)'
  <2>1. cpu'[x] = c
    BY <1>1 DEF IInv
  <2>2. num(cpu[x].req) \in Nat
    BY <1>1, <1>2, RequestNumbers DEF CpuInv
  <2> HIDE DEF c
  <2> QED BY <1>1, <1>2, <1>3, <2>1, <2>2 DEF CpuInv, Holding
<1> HIDE DEF c
<1>5. /\ DOMAIN cpu' = CPUs /\ cpu'[x] = c /\ \A y \in CPUs \ {x} : cpu'[y] = cpu[y]
      /\ \A y \in CPUs : CpuInv(y)'
  BY <1>1, <1>4, CpusStep
<1>6. LockInv'
  BY <1>1, <1>3, <1>5 DEF IInv, LockInv, Holding
<1>7. AnswerIsLastRelease'
  <2>1. cpu'[x].i = 0
    BY <1>1, <1>2, <1>3, <1>5 DEF CpuInv
  <2>2. 0 .. (cpu'[x].i - 1) = {}
    BY <2>1
  <2> QED BY <1>1, <2>2 DEF AnswerIsLastRelease
<1> QED BY <1>1, <1>5, <1>6, <1>7, DeviceStays DEF IInv

\* The loop stops for good.
LEMMA AssertIInv ==
  ASSUME IInv, NEW x \in CPUs, AssertFails(x)
  PROVE  IInv'
<1> DEFINE c == [cpu[x] EXCEPT !.pc = "bug"]
<1>1. /\ cpu' = [cpu EXCEPT ![x] = c] /\ UNCHANGED <<device_vars, simlock>>
      /\ cpu[x].pc = "simulating" /\ more(x) /\ event_page(cpu[x].req, cpu[x].i) > TOTAL
  BY DEF AssertFails
<1>2. CpuInv(x) /\ cpu[x] \in Locals
  BY DEF IInv, CpuInv
<1>3. /\ c \in Locals /\ c.pc = "bug" /\ c.req = cpu[x].req /\ c.start = cpu[x].start
      /\ c.i = cpu[x].i /\ c.timeval = cpu[x].timeval
  BY <1>2 DEF Locals
<1>4. CpuInv(x)'
  <2>1. cpu'[x] = c
    BY <1>1 DEF IInv
  <2> HIDE DEF c
  <2> QED BY <1>1, <1>2, <1>3, <2>1 DEF CpuInv, Holding, more
<1> HIDE DEF c
<1>5. /\ DOMAIN cpu' = CPUs /\ cpu'[x] = c /\ \A y \in CPUs \ {x} : cpu'[y] = cpu[y]
      /\ \A y \in CPUs : CpuInv(y)'
  BY <1>1, <1>4, CpusStep
<1>6. LockInv' /\ simlock \subseteq CPUs
  BY <1>1, <1>3, <1>5 DEF IInv, LockInv, Holding
<1>7. AnswerIsLastRelease'
  BY <1>1, <1>3, <1>5, <1>6, ReleaseStays DEF IInv, device_vars
<1> QED BY <1>1, <1>5, <1>6, <1>7, DeviceStays DEF IInv

\* simlock is let go of.
LEMMA UnlockIInv ==
  ASSUME IInv, NEW x \in CPUs, Unlock(x)
  PROVE  IInv'
<1>1. /\ cpu' = [cpu EXCEPT ![x] = idle] /\ UNCHANGED device_vars
      /\ simlock' = {} /\ cpu[x].pc = "simulating"
  BY DEF Unlock
<1>2. CpuInv(x)'
  <2>1. cpu'[x] = idle
    BY <1>1 DEF IInv
  <2> QED BY <2>1 DEF CpuInv, idle, Locals, Holding
<1>3. /\ DOMAIN cpu' = CPUs /\ cpu'[x] = idle /\ \A y \in CPUs \ {x} : cpu'[y] = cpu[y]
      /\ \A y \in CPUs : CpuInv(y)'
  BY <1>1, <1>2, CpusStep
<1>4. LockInv'
  <2>1. x \in simlock /\ \A y \in simlock : y = x
    BY <1>1 DEF IInv, LockInv, Holding
  <2>2. \A y \in CPUs : cpu'[y].pc \notin Holding
    BY <1>3, <2>1 DEF IInv, LockInv, Holding, idle
  <2> QED BY <1>1, <2>2 DEF LockInv
<1>5. AnswerIsLastRelease'
  BY <1>1 DEF AnswerIsLastRelease
<1> QED BY <1>1, <1>3, <1>4, <1>5, DeviceStays DEF IInv

\* The facts about an iteration of the loop that everything else follows from.
LEMMA ArriveFacts ==
  ASSUME IInv, NEW x \in CPUs, Arrive(x)
  PROVE  LET c == cpu[x]
             lpn == event_page(c.req, c.i)
         IN  /\ c \in Locals /\ c.pc = "simulating" /\ c.req \in Requests
             /\ c.i \in Nat /\ c.i < num(c.req) /\ num(c.req) \in Nat
             /\ c.timeval \in Nat /\ lpn \in 0 .. TOTAL
             /\ cpu' = [cpu EXCEPT ![x] = [c EXCEPT !.i = c.i + 1,
                                                    !.timeval = longest(last'.result, c.timeval)]]
             /\ simlock = {x} /\ simlock' = {x} /\ before' = before
             /\ DeviceInv' /\ last'.result \in Nat \cup {-1}
             /\ TimeEffect(lpn, c.start) /\ PageEffect(c.req.type, lpn)
<1> DEFINE c == cpu[x]
           lpn == event_page(c.req, c.i)
<1>1. CpuInv(x) /\ c \in Locals
  BY DEF IInv, CpuInv
<1>2. /\ c.pc = "simulating" /\ more(x) /\ lpn <= TOTAL
      /\ ssd_event_arrive(c.req.type, lpn, c.start)
      /\ UNCHANGED <<simlock, before>>
  BY DEF Arrive
<1>3. cpu' = [cpu EXCEPT ![x] = [c EXCEPT !.i = c.i + 1,
                                          !.timeval = longest(last'.result, c.timeval)]]
  BY <1>1 DEF Arrive, IInv, Locals
<1>4. c.req \in Requests /\ c.i \in Nat /\ c.start \in Nat
  BY <1>1, <1>2 DEF CpuInv, Locals
<1>5. c.i < num(c.req) /\ num(c.req) \in Nat /\ c.timeval \in Nat
  BY <1>1, <1>2, <1>4, RequestNumbers DEF more, Locals
<1>6. lpn \in 0 .. TOTAL
  BY <1>2, <1>4, RequestNumbers, TotalType
<1>7. simlock = {x}
  <2>1. x \in simlock
    BY <1>2 DEF IInv, LockInv, Holding
  <2> QED BY <2>1 DEF IInv, LockInv
<1>8. DeviceInv' /\ TimeEffect(lpn, c.start) /\ PageEffect(c.req.type, lpn)
  <2> HIDE DEF c, lpn, DeviceInv, TimeEffect, PageEffect, ssd_event_arrive
  <2>1. DeviceInv
    BY DEF IInv
  <2> QED BY <1>2, <1>4, <1>6, <2>1, CallStep
<1>9. last'.result \in Nat \cup {-1}
  BY <1>8 DEF DeviceInv, DeviceTypeOK
<1> QED BY <1>1, <1>2, <1>3, <1>4, <1>5, <1>6, <1>7, <1>8, <1>9

\* An iteration of the loop.
LEMMA ArriveIInv ==
  ASSUME IInv, NEW x \in CPUs, Arrive(x)
  PROVE  IInv'
<1> DEFINE c == cpu[x]
           r == c.req
           lpn == event_page(r, c.i)
           tv == longest(last'.result, c.timeval)
           d == [c EXCEPT !.i = c.i + 1, !.timeval = tv]
           ch(j) == get_channel(address_of(event_page(r, j)))
<1>1. /\ c \in Locals /\ c.pc = "simulating" /\ r \in Requests
      /\ c.i \in Nat /\ c.i < num(r) /\ num(r) \in Nat
      /\ c.timeval \in Nat /\ lpn \in 0 .. TOTAL
      /\ cpu' = [cpu EXCEPT ![x] = d]
      /\ simlock = {x} /\ simlock' = {x}
      /\ DeviceInv' /\ last'.result \in Nat \cup {-1}
      /\ TimeEffect(lpn, c.start)
  BY ArriveFacts
<1>2. CpuInv(x)
  BY DEF IInv
<1>3. last'.result # -1 => last'.result > 0
  BY <1>1 DEF TimeEffect
<1>4. /\ tv \in Nat \cup {-1} /\ tv # 0
      /\ (last'.result = -1) = (tv = -1)
      /\ tv # -1 => tv = IF last'.result > c.timeval THEN last'.result ELSE c.timeval
  BY <1>1, <1>3 DEF longest
<1> HIDE DEF tv
<1>5. /\ d \in Locals /\ d.pc = "simulating" /\ d.req = r /\ d.start = c.start
      /\ d.i = c.i + 1 /\ d.timeval = tv
  <2>1. c.i + 1 \in Nat /\ tv \in Nat \cup {-1} /\ c \in Locals
    BY <1>1, <1>4
  <2>2. d = [c EXCEPT !.i = c.i + 1, !.timeval = tv]
    OBVIOUS
  <2>3. c.pc = "simulating"
    BY <1>1
  <2> HIDE DEF c, d
  <2> QED BY <2>1, <2>2, <2>3 DEF Locals
<1>6. CpuInv(x)'
  <2>1. cpu'[x] = d
    BY <1>1 DEF IInv
  <2> HIDE DEF d
  <2> QED BY <1>1, <1>2, <1>4, <1>5, <2>1 DEF CpuInv, Holding
<1> HIDE DEF d
<1>7. /\ DOMAIN cpu' = CPUs /\ cpu'[x] = d /\ \A y \in CPUs \ {x} : cpu'[y] = cpu[y]
      /\ \A y \in CPUs : CpuInv(y)'
  BY <1>1, <1>6, CpusStep
<1>8. LockInv'
  BY <1>1, <1>5, <1>7 DEF IInv, LockInv, Holding
<1>9. AnswerIsLastRelease'
  <2> DEFINE used == {channels[ch(j)].unlock_time : j \in 0 .. (c.i - 1)}
             usedN == {channels'[ch(j)].unlock_time : j \in 0 .. c.i}
             res == last'.result
  <2>1. (c.timeval # -1 /\ used # {}) =>
          /\ c.start + c.timeval \in used
          /\ \A u \in used : u <= c.start + c.timeval
    BY <1>1 DEF IInv, AnswerIsLastRelease
  <2>2. SUFFICES ASSUME tv # -1
                 PROVE  /\ c.start + tv \in usedN
                        /\ \A u \in usedN : u <= c.start + tv
    <3>1. cpu'[x].i - 1 = c.i /\ cpu'[x].req = r /\ cpu'[x].start = c.start
          /\ cpu'[x].timeval = tv
      BY <1>1, <1>5, <1>7
    <3> HIDE DEF r, c
    <3> QED BY <1>1, <2>2, <3>1 DEF AnswerIsLastRelease
  <2>3. \A j \in Nat : ch(j) \in PackageIndex
    <3> SUFFICES ASSUME NEW j \in Nat PROVE ch(j) \in PackageIndex
      OBVIOUS
    <3>1. event_page(r, j) \in Nat
      BY <1>1, RequestNumbers
    <3>2. address_of(event_page(r, j)) \in Address
      BY <3>1, AddressType
    <3> QED BY <3>2, ChannelType
  <2>4. /\ res \in Nat \ {0}
        /\ channels'[ch(c.i)].unlock_time = c.start + res
        /\ channels[ch(c.i)].unlock_time < c.start + res
        /\ \A k \in PackageIndex \ {ch(c.i)} : channels'[k] = channels[k]
    BY <1>1, <1>4, <2>2 DEF TimeEffect
  <2>5. c.start \in Nat /\ \A k \in PackageIndex : channels[k].unlock_time \in Int
    BY <1>1 DEF Locals, IInv, DeviceInv, DeviceTypeOK, Channel, BUS_CHANNEL_FREE_FLAG
  <2>6. c.timeval # 0 => used # {}
    <3>1. c.timeval # 0 => c.i # 0
      BY <1>1, <1>2 DEF CpuInv, Holding
    <3>2. c.i # 0 => 0 \in 0 .. (c.i - 1)
      BY <1>1
    <3> QED BY <3>1, <3>2
  <2>7. used = {} => c.i = 0
    <3>1. c.i # 0 => 0 \in 0 .. (c.i - 1)
      BY <1>1
    <3> QED BY <3>1
  <2>8. \A j \in 0 .. c.i : j # c.i => j \in 0 .. (c.i - 1)
    BY <1>1
  <2>9. c.i \in 0 .. c.i /\ 0 .. c.i \subseteq Nat /\ 0 .. (c.i - 1) \subseteq 0 .. c.i
    BY <1>1
  <2>10. c.timeval \in Nat /\ (c.i = 0 => c.timeval = 0)
    BY <1>1, <1>2 DEF CpuInv, Holding
  <2>11. tv = IF res > c.timeval THEN res ELSE c.timeval
    BY <1>4, <2>2
  <2> HIDE DEF c, r, ch, res
  <2>12. c.start + tv \in usedN
    <3>1. CASE res > c.timeval
      <4>1. c.start + tv = channels'[ch(c.i)].unlock_time
        BY <2>4, <2>11, <3>1
      <4> QED BY <2>9, <4>1
    <3>2. CASE ~(res > c.timeval)
      <4>1. tv = c.timeval /\ c.timeval # 0
        BY <2>4, <2>10, <2>11, <3>2
      <4>2. PICK j \in 0 .. (c.i - 1) : c.start + c.timeval = channels[ch(j)].unlock_time
        BY <2>1, <2>6, <2>10, <4>1
      <4>3. ch(j) # ch(c.i)
        BY <2>4, <2>5, <2>10, <3>2, <4>2
      <4>4. channels'[ch(j)] = channels[ch(j)] /\ j \in 0 .. c.i
        BY <2>3, <2>4, <2>9, <4>3
      <4> QED BY <4>1, <4>2, <4>4
    <3> QED BY <3>1, <3>2
  <2>13. ASSUME NEW j \in 0 .. c.i PROVE channels'[ch(j)].unlock_time <= c.start + tv
    <3>1. CASE ch(j) = ch(c.i)
      BY <2>4, <2>5, <2>10, <2>11, <3>1
    <3>2. CASE ch(j) # ch(c.i)
      <4>1. j \in 0 .. (c.i - 1)
        BY <2>8, <3>2
      <4>2. channels'[ch(j)] = channels[ch(j)] /\ channels[ch(j)].unlock_time \in used
        BY <2>3, <2>4, <2>5, <2>9, <3>2, <4>1
      <4>3. channels[ch(j)].unlock_time <= c.start + c.timeval
        BY <2>1, <2>10, <4>2
      <4>4. channels[ch(j)].unlock_time \in Int
        BY <2>3, <2>5, <2>9
      <4> QED BY <2>4, <2>5, <2>10, <2>11, <4>2, <4>3, <4>4
    <3> QED BY <3>1, <3>2
  <2> QED BY <2>12, <2>13
<1> QED BY <1>1, <1>7, <1>8, <1>9 DEF IInv

\* Every step keeps the invariant.
LEMMA NextIInv == IInv /\ [Next]_vars => IInv'
<1> SUFFICES ASSUME IInv, [Next]_vars PROVE IInv'
  OBVIOUS
<1>1. CASE UNCHANGED <<device_vars, cpu, simlock>>
  <2>1. \A x \in CPUs : CpuInv(x)'
    BY <1>1 DEF IInv, CpuInv, more
  <2>2. LockInv' /\ DOMAIN cpu' = CPUs /\ AnswerIsLastRelease'
    BY <1>1, ReleaseStays DEF IInv, LockInv, device_vars
  <2> QED BY <1>1, <2>1, <2>2, DeviceStays DEF IInv
<1>2. CASE UNCHANGED vars
  BY <1>1, <1>2 DEF vars, driver_vars
<1>3. ASSUME NEW x \in CPUs, NEW r \in Requests, EndEarly(x, r) \/ EndUnsimulated(x, r)
      PROVE  IInv'
  BY <1>1, <1>3 DEF EndEarly, EndUnsimulated
<1>4. ASSUME NEW x \in CPUs, NEW r \in Requests, NEW start \in StartTimes, Begin(x, r, start)
      PROVE  IInv'
  BY <1>4, BeginIInv
<1>5. ASSUME NEW x \in CPUs, Lock(x) PROVE IInv'
  BY <1>5, LockIInv
<1>6. ASSUME NEW x \in CPUs, Arrive(x) PROVE IInv'
  BY <1>6, ArriveIInv
<1>7. ASSUME NEW x \in CPUs, AssertFails(x) PROVE IInv'
  BY <1>7, AssertIInv
<1>8. ASSUME NEW x \in CPUs, Unlock(x) PROVE IInv'
  BY <1>8, UnlockIInv
<1> QED BY <1>2, <1>3, <1>4, <1>5, <1>6, <1>7, <1>8 DEF Next

\* The invariant holds of every reachable state.
THEOREM Invariance == Spec => []IInv
<1> QED BY InitIInv, NextIInv, PTL DEF Spec

\* The state of the device stays well formed, and no event ever asks for a channel
\* that does not exist.
THEOREM DeviceCorrect == Spec => []DeviceTypeOK
<1>1. IInv => DeviceTypeOK
  BY DEF IInv, DeviceInv
<1> QED BY <1>1, Invariance, PTL

\* A request made of whole pages cannot fail the assert of ssd_event_arrive.
THEOREM AssertedOnlyForParts == Spec => []WithinDevice
<1>1. IInv => WithinDevice
  <2> SUFFICES ASSUME IInv, NEW x \in CPUs, cpu[x].pc = "bug",
                      cpu[x].req.nsect % SSD_PAGE_OOBSECS = 0
               PROVE  FALSE
    BY DEF WithinDevice
  <2> DEFINE r == cpu[x].req
             i == cpu[x].i
             n == r.nsect \div SSD_PAGE_OOBSECS
  <2>1. /\ r \in Requests /\ accepted(r) /\ event_page(r, i) > TOTAL /\ more(x)
        /\ cpu[x] \in Locals
    BY DEF IInv, CpuInv
  <2>2. i \in Nat /\ i < num(r) /\ num(r) \in Nat
    BY <2>1, RequestNumbers DEF more, Locals
  <2>3. i \in 0 .. (num(r) - 1)
    BY <2>2
  <2>4. event_page(r, i) + unit(r) <= logical_address(r) + n /\ logical_address(r) + n <= TOTAL
        /\ n \in Nat
    <3> HIDE DEF r, i
    <3>1. r.nsect % SSD_PAGE_OOBSECS = 0
      BY DEF r
    <3> QED BY <2>1, <2>3, <3>1, WholeRequest
  <2>5. event_page(r, i) \in Nat /\ unit(r) \in Nat \ {0} /\ logical_address(r) \in Nat
    BY <2>1, <2>2, RequestNumbers
  <2> HIDE DEF r, i, n
  <2> QED BY <2>1, <2>4, <2>5, TotalType
<1> QED BY <1>1, Invariance, PTL

\* While a request is simulated, its answer is due at the latest release among the
\* channels it has used.
THEOREM AnsweredAtLastRelease == Spec => []AnswerIsLastRelease
<1>1. IInv => AnswerIsLastRelease
  BY DEF IInv
<1> QED BY <1>1, Invariance, PTL

\* Only an iteration of the loop touches the device.
LEMMA DeviceStep ==
  ASSUME IInv, [Next]_vars, ~UNCHANGED device_vars
  PROVE  \E x \in CPUs : Arrive(x)
  BY DEF Next, EndEarly, EndUnsimulated, Begin, Lock, AssertFails, Unlock, vars

\* A call that fails changes neither a channel nor a page.
THEOREM FailuresAreHarmless == Spec => FailureChangesNothing
<1>1. IInv /\ [Next]_vars =>
        [last'.result = -1 =>
           /\ channels' = channels
           /\ \A p \in PlaneId : planes'[p].data = planes[p].data]_device_vars
  <2> SUFFICES ASSUME IInv, [Next]_vars, ~UNCHANGED device_vars, last'.result = -1
               PROVE  /\ channels' = channels
                      /\ \A p \in PlaneId : planes'[p].data = planes[p].data
    OBVIOUS
  <2>1. PICK x \in CPUs : Arrive(x)
    BY DeviceStep
  <2> DEFINE c == cpu[x]
             lpn == event_page(c.req, c.i)
  <2>2. lpn \in 0 .. TOTAL /\ c.start \in Nat /\ TimeEffect(lpn, c.start)
    BY <2>1, ArriveFacts DEF Locals
  <2>3. ssd_event_arrive(c.req.type, lpn, c.start) /\ DeviceInv
    BY <2>1 DEF Arrive, IInv
  <2>4. \A p \in PlaneId : planes'[p].data = planes[p].data
    <3> HIDE DEF c, lpn, ssd_event_arrive, DeviceInv, TimeEffect, PageEffect
    <3> QED BY <2>2, <2>3, CallStep
  <2>5. channels' = channels
    BY <2>2 DEF TimeEffect
  <2> QED BY <2>4, <2>5
<1> QED BY <1>1, Invariance, PTL DEF Spec, FailureChangesNothing

\* Refinement: behind its addresses, planes and blocks the device is a flat array
\* of pages that are programmed once between two erases of their unit.
THEOREM RawFlashRefined == Spec => ImplementsRawFlash
<1>1. Init => Flash!Init
  <2> SUFFICES ASSUME Init PROVE Flash!Init
    OBVIOUS
  <2>1. \A lpn \in 0 .. (TOTAL - 1) : page_of_lpn(lpn) = "EMPTY"
    <3> SUFFICES ASSUME NEW lpn \in 0 .. (TOTAL - 1) PROVE page_of_lpn(lpn) = "EMPTY"
      OBVIOUS
    <3>1. lpn \in 0 .. TOTAL
      BY TotalType
    <3>2. LET a == address_of(lpn)
          IN  plane_of(a) \in PlaneId /\ a.block \in BlockIndex /\ a.page \in PageIndex
      BY <3>1, AddressParts
    <3> QED BY <3>2 DEF Init, DeviceInit, page_of_lpn, plane_init, block_init
  <2>2. 0 \in 0 .. (TOTAL - 1) /\ 0 % TOTAL = 0
    BY TotalType
  <2>3. last = [op |-> "none", lpn |-> 0, start |-> 0, result |-> 0]
    BY DEF Init, DeviceInit
  <2>4. [op |-> last.op, page |-> last.lpn % TOTAL, ok |-> last.result # -1]
          = Flash!Answer("none", 0, TRUE)
    <3>1. last.op = "none" /\ last.lpn = 0 /\ (last.result # -1) = TRUE
      BY <2>3
    <3> QED BY <2>2, <3>1 DEF Flash!Answer
  <2>5. {lpn \in 0 .. (TOTAL - 1) : page_of_lpn(lpn) # "EMPTY"} = {}
    BY <2>1
  <2> HIDE DEF page_of_lpn
  <2> QED BY <2>2, <2>4, <2>5 DEF Flash!Init
<1>2. IInv /\ [Next]_vars => [Flash!Next]_(Flash!vars)
  <2> SUFFICES ASSUME IInv, [Next]_vars PROVE [Flash!Next]_(Flash!vars)
    OBVIOUS
  <2>1. CASE UNCHANGED device_vars
    BY <2>1 DEF device_vars, Flash!vars, page_of_lpn
  <2>2. CASE ~UNCHANGED device_vars
    <3>1. PICK x \in CPUs : Arrive(x)
      BY <2>2, DeviceStep
    <3> DEFINE c == cpu[x]
               lpn == event_page(c.req, c.i)
               p == lpn % TOTAL
    <3>2. /\ lpn \in 0 .. TOTAL /\ PageEffect(c.req.type, lpn)
      BY <3>1, ArriveFacts
    <3>3. p \in 0 .. (TOTAL - 1)
      BY <3>2, AddressWraps
    <3>4. last'.op = c.req.type /\ last'.lpn = lpn
      <4>1. ssd_event_arrive(c.req.type, lpn, c.start)
        BY <3>1 DEF Arrive
      <4> HIDE DEF c, lpn
      <4>2. \A op, s, d : reserve(op, lpn, s, d) \/ refuse(op, lpn, s) =>
                           last'.op = op /\ last'.lpn = lpn
        BY DEF reserve, refuse, arrived
      <4> HIDE DEF reserve, refuse
      <4>3. c.req.type = "read" /\ ArriveRead(lpn, c.start) =>
              last'.op = c.req.type /\ last'.lpn = lpn
        BY <4>2 DEF ArriveRead
      <4>4. c.req.type = "write" /\ ArriveWrite(lpn, c.start) =>
              last'.op = c.req.type /\ last'.lpn = lpn
        BY <4>2 DEF ArriveWrite
      <4>5. c.req.type = "erase" /\ ArriveErase(lpn, c.start) =>
              last'.op = c.req.type /\ last'.lpn = lpn
        BY <4>2 DEF ArriveErase
      <4> QED BY <4>1, <4>3, <4>4, <4>5 DEF ssd_event_arrive
    <3>5. /\ programmed = {l \in 0 .. (TOTAL - 1) : page_of_lpn(l) # "EMPTY"}
          /\ programmed' = {l \in 0 .. (TOTAL - 1) : page_of_lpn(l)' # "EMPTY"}
      BY DEF programmed
    <3> DEFINE Unit == [l \in 0 .. (TOTAL - 1) |-> l \div SSD_BLOCK_SIZE]
    <3>6. \A l \in 0 .. (TOTAL - 1) : Unit[l] = l \div SSD_BLOCK_SIZE
      OBVIOUS
    <3> HIDE DEF c, p, page_of_lpn
    <3>7. CASE c.req.type = "read" /\ last'.result # -1 /\ programmed' = programmed
      <4>1. Flash!Read(p)
        BY <3>4, <3>5, <3>7 DEF Flash!Read, Flash!Answer, p
      <4> QED BY <3>3, <4>1 DEF Flash!Next
    <3>8. CASE /\ c.req.type = "write" /\ (last'.result # -1) = (p \notin programmed)
               /\ programmed' = programmed \cup {p}
      <4>1. Flash!Program(p)
        BY <3>4, <3>5, <3>8 DEF Flash!Program, Flash!Answer, p
      <4> QED BY <3>3, <4>1 DEF Flash!Next
    <3>9. CASE /\ c.req.type = "erase" /\ last'.result # -1
               /\ programmed' = {q \in programmed :
                                    q \div SSD_BLOCK_SIZE # p \div SSD_BLOCK_SIZE}
      <4>1. Flash!Erase(p)
        BY <3>3, <3>4, <3>5, <3>6, <3>9 DEF Flash!Erase, Flash!Answer, p
      <4> QED BY <3>3, <4>1 DEF Flash!Next
    <3> QED BY <3>2, <3>7, <3>8, <3>9 DEF PageEffect, p
  <2> QED BY <2>1, <2>2
<1> QED BY <1>1, <1>2, Invariance, PTL DEF Spec, ImplementsRawFlash, Flash!Spec
-------------------------------------------------------------------------------
\* The pages of one more event.
LEMMA MorePages ==
  ASSUME NEW r \in Requests, NEW i \in Nat, event_page(r, i) \in 0 .. (TOTAL - 1)
  PROVE  LET p == event_page(r, i)
         IN  /\ EventPages(r, 0) = {}
             /\ r.type = "erase" =>
                  EventPages(r, i + 1) = EventPages(r, i) \cup
                    {q \in 0 .. (TOTAL - 1) : q \div SSD_BLOCK_SIZE = p \div SSD_BLOCK_SIZE}
             /\ r.type # "erase" =>
                  /\ EventPages(r, i + 1) = EventPages(r, i) \cup {p}
                  /\ p \notin EventPages(r, i)
<1>1. i + 1 - 1 = i /\ 0 .. i = (0 .. (i - 1)) \cup {i} /\ 0 .. (0 - 1) = {}
  OBVIOUS
<1>2. EventPages(r, 0) = {}
  BY <1>1 DEF EventPages
<1>3. r.type = "erase" =>
        EventPages(r, i + 1) = EventPages(r, i) \cup
          {q \in 0 .. (TOTAL - 1) :
             q \div SSD_BLOCK_SIZE = event_page(r, i) \div SSD_BLOCK_SIZE}
  BY <1>1 DEF EventPages
<1>4. r.type # "erase" => EventPages(r, i + 1) = EventPages(r, i) \cup {event_page(r, i)}
  BY <1>1 DEF EventPages
<1>5. ASSUME r.type # "erase" PROVE event_page(r, i) \notin EventPages(r, i)
  <2>1. \A j \in 0 .. i : event_page(r, j) = logical_address(r) + j
    BY <1>5, RequestNumbers DEF event_page, unit
  <2>2. logical_address(r) \in Nat
    BY RequestNumbers
  <2> QED BY <1>5, <2>1, <2>2 DEF EventPages
<1> QED BY <1>2, <1>3, <1>4, <1>5

\* The pages a request names, when it is made of whole pages.
LEMMA Named ==
  ASSUME NEW r \in Requests, NEW n \in Nat, r.nsect = n * SSD_PAGE_OOBSECS,
         r.block % SSD_PAGE_OOBSECS = 0
  PROVE  named(r) = {q \in 0 .. (TOTAL - 1) :
                       logical_address(r) <= q /\ q < logical_address(r) + n}
<1> DEFINE S == SSD_PAGE_OOBSECS
           la == logical_address(r)
<1>1. S \in Nat \ {0} /\ la \in Nat /\ r.block \in Nat
  BY RequestNumbers, SectorsAssumption DEF SSD_PAGE_OOBSECS
<1>2. r.block = la * S
  <2>1. ASSUME NEW a \in Nat, NEW b \in Nat \ {0}, a % b = 0
        PROVE  a = (a \div b) * b
    BY <2>1, Division
  <2> QED BY <1>1, <2>1 DEF logical_address
<1>3. ASSUME NEW q \in 0 .. (TOTAL - 1)
      PROVE  /\ r.block <= q * S <=> la <= q
             /\ (q + 1) * S <= r.block + r.nsect <=> q < la + n
  <2>1. q \in Nat
    BY TotalType
  <2>2. ASSUME NEW a \in Nat, NEW b \in Nat, NEW s \in Nat \ {0}
        PROVE  a * s <= b * s <=> a <= b
    BY <2>2
  <2>3. r.block + r.nsect = (la + n) * S
    <3> HIDE DEF S, la
    <3> QED BY <1>1, <1>2 DEF S
  <2> HIDE DEF S, la
  <2>4. r.block <= q * S <=> la <= q
    BY <1>1, <1>2, <2>1, <2>2
  <2>5. (q + 1) * S <= (la + n) * S <=> q + 1 <= la + n
    <3>1. q + 1 \in Nat /\ la + n \in Nat
      BY <1>1, <2>1
    <3> QED BY <1>1, <2>2, <3>1
  <2> QED BY <1>1, <2>1, <2>3, <2>4, <2>5
<1> QED BY <1>3 DEF named

\* Nothing is asked of the simulator for a request that covers no page.
LEMMA CoversNothing ==
  ASSUME NEW r \in Requests, r.nsect = 1 \/ page_reserved(logical_address(r))
  PROVE  Covers(r) = {}
<1> DEFINE S == SSD_PAGE_OOBSECS
<1>1. /\ S \in Nat \ {0, 1} /\ r.block \in Nat
      /\ SSD_BLOCK_SIZE \in Nat /\ FLASHPGS_PER_BLOCK = SSD_BLOCK_SIZE
  BY RequestNumbers, SectorsAssumption, BlockSizeAssumption, SettingsAssumption
     DEF SSD_PAGE_OOBSECS
<1>2. CASE page_reserved(logical_address(r))
  <2>1. r.block < SSD_BLOCK_SIZE * S
    BY <1>1, <1>2, QuotientBelow DEF page_reserved, logical_address
  <2> QED BY <2>1 DEF Covers
<1>3. CASE r.nsect = 1
  <2>1. ASSUME NEW q \in 0 .. (TOTAL - 1), r.block <= q * S, (q + 1) * S <= r.block + 1
        PROVE  FALSE
    <3>1. q \in Nat
      BY TotalType
    <3> HIDE DEF S
    <3>2. (q + 1) * S = q * S + S /\ q * S \in Nat
      BY <1>1, <3>1
    <3> QED BY <1>1, <2>1, <3>2
  <2>2. named(r) = {}
    BY <1>3, <2>1 DEF named
  <2> QED BY <2>2 DEF Covers
<1> QED BY <1>2, <1>3

\* The events of a write or an erase of whole pages name what it covers.
LEMMA CoversEvents ==
  ASSUME WholePages, NEW r \in Requests, accepted(r), r.nsect # 1, r.type # "read",
         ~page_reserved(logical_address(r))
  PROVE  Covers(r) = EventPages(r, num(r))
<1> DEFINE S == SSD_PAGE_OOBSECS
           B == SSD_BLOCK_SIZE
           n == r.nsect \div S
           la == logical_address(r)
<1>1. /\ r.block % S = 0 /\ r.nsect % S = 0
      /\ r.type = "erase" => la % FLASHPGS_PER_BLOCK = 0
  BY DEF WholePages
<1>2. /\ n \in Nat /\ r.nsect = n * S /\ la + n <= TOTAL /\ num(r) = n \div unit(r)
  BY <1>1, WholeRequest
<1>3. /\ S \in Nat \ {0} /\ B \in Nat \ {0} /\ FLASHPGS_PER_BLOCK = B /\ la \in Nat
      /\ num(r) \in Nat /\ r.type \in {"write", "erase"} /\ r.block \in Nat
  BY RequestNumbers, SectorsAssumption, BlockSizeAssumption, SettingsAssumption
     DEF SSD_PAGE_OOBSECS
<1>4. named(r) = {q \in 0 .. (TOTAL - 1) : la <= q /\ q < la + n}
  BY <1>1, <1>2, Named
<1>5. ~(r.block < B * S)
  BY <1>3, QuotientBelow DEF page_reserved, logical_address
<1> HIDE DEF n, la, B, S
<1>6. CASE r.type = "write"
  <2>1. Covers(r) = named(r)
    BY <1>5, <1>6 DEF Covers, B, S
  <2>2. unit(r) = 1 /\ num(r) = n
    <3>1. n \div 1 = n
      BY <1>2
    <3> QED BY <1>2, <1>6, <3>1 DEF unit
  <2>3. \A j \in Nat : event_page(r, j) = la + j
    BY <1>3, <2>2 DEF event_page, la
  <2>4. EventPages(r, num(r)) = {q \in 0 .. (TOTAL - 1) : \E j \in 0 .. (n - 1) : q = la + j}
    <3>1. 0 .. (n - 1) \subseteq Nat
      BY <1>2
    <3>2. \A j \in 0 .. (n - 1) : event_page(r, j) = la + j
      BY <2>3, <3>1
    <3> QED BY <1>6, <2>2, <3>2 DEF EventPages
  <2>5. ASSUME NEW q \in 0 .. (TOTAL - 1)
        PROVE  (\E j \in 0 .. (n - 1) : q = la + j) <=> (la <= q /\ q < la + n)
    <3>1. q \in Nat
      BY TotalType
    <3>2. (la <= q /\ q < la + n) => q - la \in 0 .. (n - 1) /\ q = la + (q - la)
      BY <1>2, <1>3, <3>1
    <3> QED BY <1>2, <1>3, <3>1, <3>2
  <2> QED BY <1>4, <2>1, <2>4, <2>5
<1>7. CASE r.type = "erase"
  <2> DEFINE k == la \div B
             m == n \div B
             M == SSD_SIZE * PACKAGE_SIZE * DIE_SIZE * PLANE_SIZE
  <2>1. Covers(r) = {p \in named(r) : block_of(p) \subseteq named(r)}
    BY <1>5, <1>7 DEF Covers, B, S
  <2>2. unit(r) = B /\ num(r) = m /\ m \in Nat
    BY <1>2, <1>3, <1>7 DEF unit
  <2>3. la = B * k /\ k \in Nat
    <3>1. ASSUME NEW a \in Nat, NEW b \in Nat \ {0}, a % b = 0
          PROVE  a = b * (a \div b) /\ a \div b \in Nat
      BY <3>1, Division
    <3> QED BY <1>1, <1>3, <1>7, <3>1
  <2>4. TOTAL = M * B /\ M \in Nat
    BY GeometryAssumption, PlaneSizeAssumption DEF TOTAL, B
  <2>5. B * m <= n /\ n < B * m + B
    <3> QED BY <1>2, <1>3, QuotientBounds
  <2> HIDE DEF k, m, M
  <2>6. \A j \in Nat : event_page(r, j) \div B = k + j
    <3> SUFFICES ASSUME NEW j \in Nat PROVE event_page(r, j) \div B = k + j
      OBVIOUS
    <3>1. event_page(r, j) = B * (k + j) + 0
      BY <1>3, <2>2, <2>3 DEF event_page, la
    <3>2. k + j \in Int /\ 0 \in 0 .. (B - 1)
      BY <1>3, <2>3
    <3> HIDE DEF event_page
    <3> QED BY <1>3, <3>1, <3>2, DivisionUnique
  <2>7. EventPages(r, num(r)) = {q \in 0 .. (TOTAL - 1) : \E j \in 0 .. (m - 1) : q \div B = k + j}
    <3>1. 0 .. (m - 1) \subseteq Nat
      BY <2>2
    <3>2. \A j \in 0 .. (m - 1) : event_page(r, j) \div B = k + j
      BY <2>6, <3>1
    <3> QED BY <1>7, <2>2, <3>2 DEF EventPages, B
  <2>8. ASSUME NEW q \in 0 .. (TOTAL - 1)
        PROVE  /\ q \in Nat /\ q \div B \in Nat /\ q \div B < M
               /\ B * (q \div B) <= q /\ q < B * (q \div B) + B
    <3>1. q \in Nat /\ q < M * B
      BY <2>4, TotalType
    <3>2. q \div B < M
      BY <1>3, <2>4, <3>1, QuotientBelow
    <3> QED BY <1>3, <3>1, <3>2, QuotientBounds
  <2>9. ASSUME NEW q \in 0 .. (TOTAL - 1),
               NEW j \in 0 .. (m - 1), q \div B = k + j
        PROVE  la <= q /\ q < la + n
    <3>1. j \in Nat /\ j + 1 <= m
      BY <2>2
    <3>2. B * (k + j) = la + B * j /\ B * j \in Nat /\ B * j + B = B * (j + 1)
      BY <1>3, <2>3, <3>1
    <3>3. B * (j + 1) <= B * m
      BY <1>3, <2>2, <3>1
    <3>4. B * (k + j) <= q /\ q < B * (k + j) + B /\ q \in Nat
      BY <2>8, <2>9
    <3>5. B * m \in Nat /\ B * (j + 1) \in Nat /\ B * (k + j) \in Nat
      BY <1>3, <2>2, <2>3, <3>1
    <3> QED BY <1>2, <1>3, <2>5, <3>2, <3>3, <3>4, <3>5
  <2>10. ASSUME NEW p \in EventPages(r, num(r)) PROVE p \in Covers(r)
    <3>1. PICK j \in 0 .. (m - 1) : p \in 0 .. (TOTAL - 1) /\ p \div B = k + j
      BY <2>7
    <3>2. p \in named(r)
      BY <1>4, <2>9, <3>1
    <3>3. \A q \in block_of(p) : q \in 0 .. (TOTAL - 1) /\ q \div B = k + j
      BY <3>1 DEF block_of, B
    <3>4. block_of(p) \subseteq named(r)
      BY <1>4, <2>9, <3>3
    <3> QED BY <2>1, <3>2, <3>4
  <2>11. ASSUME NEW p \in Covers(r) PROVE p \in EventPages(r, num(r))
    <3> DEFINE u == p \div B
               z == B * u + (B - 1)
    <3>1. p \in 0 .. (TOTAL - 1) /\ la <= p /\ p < la + n /\ block_of(p) \subseteq named(r)
      BY <1>4, <2>1
    <3>2. u \in Nat /\ u < M /\ B * u <= p /\ p < B * u + B /\ p \in Nat
      BY <2>8, <3>1
    <3> HIDE DEF u
    <3>3. z \in 0 .. (TOTAL - 1)
      <4>1. B * (u + 1) <= B * M /\ B * M = TOTAL /\ B * (u + 1) = B * u + B
        BY <1>3, <2>4, <3>2
      <4>2. B * u \in Nat
        BY <1>3, <3>2
      <4> QED BY <1>3, <4>1, <4>2, TotalType
    <3>4. z \div B = u
      <4>1. B - 1 \in 0 .. (B - 1) /\ u \in Int
        BY <1>3, <3>2
      <4> QED BY <1>3, <4>1, DivisionUnique
    <3>5. z < la + n
      <4>1. z \in block_of(p)
        BY <3>3, <3>4 DEF block_of, u, B
      <4> HIDE DEF z
      <4> QED BY <1>4, <3>1, <4>1
    <3>6. k <= u /\ u < k + m
      <4>1. B * k < B * (u + 1)
        BY <1>3, <2>3, <3>1, <3>2
      <4>2. k < u + 1
        BY <1>3, <2>3, <3>2, <4>1
      <4>3. B * (u + 1) <= B * k + n
        BY <1>2, <1>3, <2>3, <3>2, <3>5
      <4>4. B * (u + 1) < B * (k + m + 1)
        BY <1>2, <1>3, <2>2, <2>3, <2>5, <3>2, <4>3
      <4>5. u + 1 < k + m + 1
        BY <1>3, <2>2, <2>3, <3>2, <4>4
      <4> QED BY <2>2, <2>3, <3>2, <4>2, <4>5
    <3>7. u - k \in 0 .. (m - 1) /\ u = k + (u - k)
      BY <2>2, <2>3, <3>2, <3>6
    <3> QED BY <2>7, <3>1, <3>7 DEF u
  <2> QED BY <2>10, <2>11
<1> QED BY <1>3, <1>6, <1>7
-------------------------------------------------------------------------------
\* Only the CPU in simlock can disturb ProgressInv.
LEMMA ProgressStays ==
  ASSUME ProgressInv, UNCHANGED <<device_vars, before, simlock>>,
         \A x \in simlock : /\ cpu'[x].req = cpu[x].req /\ cpu'[x].i = cpu[x].i
                            /\ cpu'[x].timeval = cpu[x].timeval
  PROVE  ProgressInv'
<1>1. programmed' = programmed
  BY DEF device_vars, programmed, page_of_lpn
<1> QED BY <1>1 DEF ProgressInv, Progress

\* An iteration of the loop keeps it.
LEMMA ArriveProgress ==
  ASSUME WholePages, IInv, ProgressInv, NEW x \in CPUs, Arrive(x)
  PROVE  ProgressInv'
<1> DEFINE c == cpu[x]
           r == c.req
           i == c.i
           p == event_page(r, i)
           res == last'.result
           tv == longest(res, c.timeval)
<1>1. /\ c \in Locals /\ c.pc = "simulating" /\ r \in Requests
      /\ i \in Nat /\ i < num(r) /\ num(r) \in Nat
      /\ c.timeval \in Nat /\ p \in 0 .. TOTAL
      /\ cpu' = [cpu EXCEPT ![x] = [c EXCEPT !.i = i + 1, !.timeval = tv]]
      /\ simlock = {x} /\ simlock' = {x} /\ before' = before
      /\ res \in Nat \cup {-1} /\ PageEffect(r.type, p)
  BY ArriveFacts
<1>2. tv # -1 <=> res # -1
  BY <1>1 DEF longest
<1>3. cpu'[x].req = r /\ cpu'[x].i = i + 1 /\ cpu'[x].timeval = tv
  BY <1>1 DEF IInv, Locals
<1>4. accepted(r) /\ r.nsect # 1
  BY <1>1 DEF IInv, CpuInv
<1>5. c.timeval # -1 /\ i + 1 > 0 /\ i + 1 - 1 = i
  BY <1>1
<1>6. CASE r.type = "read"
  <2>1. programmed = before
    BY <1>1, <1>6 DEF ProgressInv, Progress
  <2>2. res # -1 /\ programmed' = programmed
    BY <1>1, <1>6 DEF PageEffect
  <2> HIDE DEF tv, res, programmed, c
  <2> QED BY <1>1, <1>2, <1>3, <1>6, <2>1, <2>2 DEF ProgressInv, Progress
<1>7. CASE r.type # "read"
  <2>1. p \in 0 .. (TOTAL - 1) /\ p % TOTAL = p
    <3>1. r.nsect % SSD_PAGE_OOBSECS = 0
      BY <1>1, <1>4, <1>7 DEF WholePages
    <3>2. i \in 0 .. (num(r) - 1)
      BY <1>1
    <3> DEFINE n == r.nsect \div SSD_PAGE_OOBSECS
    <3>3. p + unit(r) <= logical_address(r) + n /\ logical_address(r) + n <= TOTAL /\ n \in Nat
      BY <1>1, <1>4, <3>1, <3>2, WholeRequest
    <3>4. unit(r) \in Nat \ {0} /\ logical_address(r) \in Nat
      BY <1>1, RequestNumbers
    <3> HIDE DEF n, p
    <3>5. p < TOTAL
      BY <1>1, <3>3, <3>4, TotalType
    <3> QED BY <1>1, <3>5, AddressWraps
  <2> DEFINE E == EventPages(r, i)
             N == EventPages(r, i + 1)
  <2>2. CASE r.type = "erase"
    <3>1. programmed = before \ E
      BY <1>1, <2>2 DEF ProgressInv, Progress
    <3>2. res # -1 /\ programmed' = {q \in programmed :
                                       q \div SSD_BLOCK_SIZE # p \div SSD_BLOCK_SIZE}
      BY <1>1, <2>1, <2>2 DEF PageEffect
    <3>3. N = E \cup {q \in 0 .. (TOTAL - 1) : q \div SSD_BLOCK_SIZE = p \div SSD_BLOCK_SIZE}
      BY <1>1, <2>1, <2>2, MorePages
    <3>4. programmed \subseteq 0 .. (TOTAL - 1)
      BY DEF programmed
    <3> HIDE DEF tv, res, programmed, c, p, E, N
    <3>5. programmed' = before \ N
      BY <3>1, <3>2, <3>3, <3>4
    <3> QED BY <1>1, <1>2, <1>3, <2>2, <3>2, <3>5 DEF ProgressInv, Progress, N, c
  <2>3. CASE r.type = "write"
    <3>1. programmed = before \cup E /\ before \cap E = {}
      BY <1>1, <1>5, <2>3 DEF ProgressInv, Progress
    <3>2. (res # -1) = (p \notin programmed) /\ programmed' = programmed \cup {p}
      BY <1>1, <2>1, <2>3 DEF PageEffect
    <3>3. N = E \cup {p} /\ p \notin E
      BY <1>1, <2>1, <2>3, MorePages
    <3>4. event_page(r, i + 1 - 1) = p /\ EventPages(r, i + 1 - 1) = E
      BY <1>5
    <3> HIDE DEF tv, res, programmed, c, p, E, N
    <3>5. CASE p \notin programmed
      <4>1. tv # -1 /\ programmed' = before \cup N /\ before \cap N = {}
        BY <1>2, <3>1, <3>2, <3>3, <3>5
      <4> QED BY <1>1, <1>3, <2>3, <4>1 DEF ProgressInv, Progress, N, c
    <3>6. CASE p \in programmed
      <4>1. tv = -1 /\ p \in before /\ programmed' = before \cup E /\ before \cap E = {}
        BY <1>2, <3>1, <3>2, <3>3, <3>6
      <4> DEFINE e == event_page(r, i + 1 - 1)
                 F == EventPages(r, i + 1 - 1)
      <4>2. e = p /\ F = E /\ i + 1 > 0
        BY <1>5, <3>4
      <4>3. e \in before' /\ programmed' = before' \cup F /\ before' \cap F = {}
        BY <1>1, <4>1, <4>2
      <4>4. simlock' = {x} /\ cpu'[x].req.type = "write" /\ cpu'[x].timeval = -1
            /\ cpu'[x].i > 0
            /\ event_page(cpu'[x].req, cpu'[x].i - 1) = e
            /\ EventPages(cpu'[x].req, cpu'[x].i - 1) = F
        BY <1>1, <1>3, <1>5, <2>3, <4>1
      <4> HIDE DEF e, F
      <4> QED BY <4>3, <4>4 DEF ProgressInv, Progress
    <3> QED BY <3>5, <3>6
  <2>4. r.type \in {"read", "write", "erase"}
    BY <1>1, RequestNumbers
  <2> QED BY <1>7, <2>2, <2>3, <2>4
<1> QED BY <1>6, <1>7

\* Every step keeps it.
LEMMA NextProgress ==
  ASSUME WholePages, IInv, ProgressInv, [Next]_vars
  PROVE  ProgressInv'
<1>1. CASE UNCHANGED <<device_vars, before, simlock, cpu>>
  BY <1>1, ProgressStays
<1>2. CASE UNCHANGED vars
  BY <1>1, <1>2 DEF vars, driver_vars
<1>3. ASSUME NEW x \in CPUs, NEW r \in Requests, EndEarly(x, r) \/ EndUnsimulated(x, r)
      PROVE  ProgressInv'
  BY <1>1, <1>3 DEF EndEarly, EndUnsimulated
<1>4. ASSUME NEW x \in CPUs, NEW r \in Requests, NEW start \in StartTimes, Begin(x, r, start)
      PROVE  ProgressInv'
  <2>1. x \notin simlock /\ simlock \subseteq CPUs
    BY <1>4 DEF Begin, IInv, LockInv, Holding
  <2>2. \A y \in simlock : cpu'[y] = cpu[y]
    BY <1>4, <2>1 DEF Begin, IInv
  <2> QED BY <1>4, <2>2, ProgressStays DEF Begin
<1>5. ASSUME NEW x \in CPUs, Lock(x) PROVE ProgressInv'
  <2>1. /\ simlock' = {x} /\ before' = programmed /\ UNCHANGED device_vars
        /\ cpu' = [cpu EXCEPT ![x].pc = "simulating"]
    BY <1>5 DEF Lock
  <2>2. cpu[x] \in Locals /\ cpu[x].req \in Requests /\ cpu[x].i = 0 /\ cpu[x].timeval = 0
    BY <1>5 DEF Lock, IInv, CpuInv
  <2>3. cpu'[x].req = cpu[x].req /\ cpu'[x].i = 0 /\ cpu'[x].timeval = 0
    BY <2>1, <2>2 DEF IInv, Locals
  <2>4. programmed' = programmed
    BY <2>1 DEF device_vars, programmed, page_of_lpn
  <2>5. EventPages(cpu[x].req, 0) = {}
    <3>1. 0 .. (0 - 1) = {}
      OBVIOUS
    <3> QED BY <3>1 DEF EventPages
  <2>6. cpu[x].req.type \in {"read", "write", "erase"}
    BY <2>2, RequestNumbers
  <2> HIDE DEF programmed
  <2>7. Progress(cpu[x].req, 0, 0)'
    BY <2>1, <2>4, <2>5, <2>6 DEF Progress
  <2> QED BY <2>1, <2>3, <2>7 DEF ProgressInv, Progress
<1>6. ASSUME NEW x \in CPUs, Arrive(x) PROVE ProgressInv'
  BY <1>6, ArriveProgress
<1>7. ASSUME NEW x \in CPUs, AssertFails(x) PROVE ProgressInv'
  <2>1. \A y \in simlock : /\ cpu'[y].req = cpu[y].req /\ cpu'[y].i = cpu[y].i
                           /\ cpu'[y].timeval = cpu[y].timeval
    BY <1>7 DEF AssertFails, IInv, LockInv, CpuInv, Locals
  <2> QED BY <1>7, <2>1, ProgressStays DEF AssertFails
<1>8. ASSUME NEW x \in CPUs, Unlock(x) PROVE ProgressInv'
  BY <1>8 DEF Unlock, ProgressInv
<1> QED BY <1>2, <1>3, <1>4, <1>5, <1>6, <1>7, <1>8 DEF Next

\* The moment at which a simulated request acts, for RangeFlash, is when simlock is
\* let go of.
LEMMA UnlockRefines ==
  ASSUME WholePages, IInv, ProgressInv, NEW x \in CPUs, Unlock(x)
  PROVE  Ranges!Next
<1> DEFINE c == cpu[x]
           r == c.req
           ret == IF c.timeval = -1 THEN -2 ELSE 0
<1>1. /\ c.pc = "simulating" /\ ~more(x) /\ simlock' = {}
      /\ answered' = [req |-> r, ret |-> ret] /\ UNCHANGED device_vars
  BY DEF Unlock, reply
<1>2. /\ c \in Locals /\ r \in Requests /\ accepted(r) /\ r.nsect # 1
      /\ ~page_reserved(logical_address(r)) /\ c.i <= num(r)
  BY <1>1 DEF IInv, CpuInv, Holding
<1>3. num(r) \in Nat /\ c.i \in Nat /\ r.type \in {"read", "write", "erase"}
  BY <1>2, RequestNumbers DEF Locals
<1>4. c.timeval # -1 => c.i = num(r)
  BY <1>1, <1>2, <1>3 DEF more
<1>5. x \in simlock /\ Progress(r, c.i, c.timeval)
  BY <1>1 DEF IInv, LockInv, Holding, ProgressInv
<1>6. simlock # {} /\ programmed' = programmed
  BY <1>1, <1>5 DEF device_vars, programmed, page_of_lpn
<1>7. r.type # "read" => Covers(r) = EventPages(r, num(r))
  BY <1>2, CoversEvents
<1> HIDE DEF r, programmed
<1>8. CASE r.type = "read"
  <2>1. programmed = before /\ ret = 0
    BY <1>5, <1>8 DEF Progress
  <2>2. Ranges!Read(r)
    BY <1>1, <1>6, <1>8, <2>1 DEF Ranges!Read, Ranges!Answer
  <2> QED BY <1>2, <2>2 DEF Ranges!Next
<1>9. CASE r.type = "erase"
  <2>1. programmed = before \ Covers(r) /\ ret = 0
    BY <1>4, <1>5, <1>7, <1>9 DEF Progress
  <2> HIDE DEF ret
  <2>2. Ranges!Erase(r)
    BY <1>1, <1>6, <1>9, <2>1 DEF Ranges!Erase, Ranges!Answer
  <2> QED BY <1>2, <2>2 DEF Ranges!Next
<1>10. CASE r.type = "write"
  <2> DEFINE C == Covers(r)
             taken == C \cap before
  <2>1. CASE c.timeval # -1
    <3>1. programmed = before \cup C /\ taken = {} /\ ret = 0
      BY <1>4, <1>5, <1>7, <1>10, <2>1 DEF Progress
    <3>2. before \cup C = before \cup {p \in C : \A q \in taken : p < q}
      BY <3>1
    <3> HIDE DEF ret
    <3>3. Ranges!Write(r)
      BY <1>1, <1>6, <1>10, <3>1, <3>2 DEF Ranges!Write, Ranges!Answer
    <3> QED BY <1>2, <3>3 DEF Ranges!Next
  <2>2. CASE c.timeval = -1
    <3> DEFINE e == event_page(r, c.i - 1)
               E == EventPages(r, c.i - 1)
    <3>1. /\ c.i > 0 /\ e \in before /\ programmed = before \cup E /\ before \cap E = {}
      BY <1>5, <1>10, <2>2 DEF Progress
    <3>2. ret = -2
      BY <2>2
    <3>3. \A j \in Nat : event_page(r, j) = logical_address(r) + j
      BY <1>10, RequestNumbers, <1>2 DEF event_page, unit
    <3>4. C = {q \in 0 .. (TOTAL - 1) : \E j \in 0 .. (num(r) - 1) : q = logical_address(r) + j}
      <4>1. \A j \in 0 .. (num(r) - 1) : event_page(r, j) = logical_address(r) + j
        BY <1>3, <3>3
      <4> QED BY <1>7, <1>10, <4>1 DEF EventPages
    <3>5. E = {q \in 0 .. (TOTAL - 1) : \E j \in 0 .. (c.i - 2) : q = logical_address(r) + j}
      <4>1. c.i - 1 - 1 = c.i - 2
        BY <1>3
      <4>2. \A j \in 0 .. (c.i - 2) : event_page(r, j) = logical_address(r) + j
        BY <1>3, <3>3
      <4> QED BY <1>10, <4>1, <4>2 DEF EventPages
    <3>6. e = logical_address(r) + (c.i - 1) /\ logical_address(r) \in Nat
          /\ c.i - 1 \in 0 .. (num(r) - 1)
      BY <1>2, <1>3, <3>1, <3>3, RequestNumbers
    <3>7. e \in 0 .. (TOTAL - 1)
      <4>1. r.nsect % SSD_PAGE_OOBSECS = 0
        BY <1>2, <1>10 DEF WholePages
      <4> DEFINE n == r.nsect \div SSD_PAGE_OOBSECS
      <4>2. e + unit(r) <= logical_address(r) + n /\ logical_address(r) + n <= TOTAL /\ n \in Nat
        BY <1>2, <3>6, <4>1, WholeRequest
      <4>3. unit(r) \in Nat \ {0}
        BY <1>2, RequestNumbers
      <4>4. e \in Nat /\ logical_address(r) \in Nat
        BY <1>2, <3>6, RequestNumbers
      <4> HIDE DEF n, e
      <4> QED BY <4>2, <4>3, <4>4, TotalType
    <3> HIDE DEF c, e, E, C
    <3>8. e \in taken
      BY <3>1, <3>4, <3>6, <3>7
    <3>9. E = {p \in C : \A q \in taken : p < q}
      <4>1. ASSUME NEW p \in E PROVE p \in C
        <5>1. PICK j \in 0 .. (c.i - 2) : p \in 0 .. (TOTAL - 1) /\ p = logical_address(r) + j
          BY <3>5
        <5>2. j \in 0 .. (num(r) - 1)
          BY <1>3, <3>6, <5>1
        <5> QED BY <3>4, <5>1, <5>2
      <4>2. ASSUME NEW p \in E, NEW q \in taken PROVE p < q
        <5>1. PICK j \in 0 .. (c.i - 2) : p = logical_address(r) + j
          BY <3>5
        <5>2. PICK k \in 0 .. (num(r) - 1) : q \in 0 .. (TOTAL - 1) /\ q = logical_address(r) + k
          BY <3>4
        <5>3. k \notin 0 .. (c.i - 2)
          BY <3>1, <3>5, <5>2
        <5> QED BY <1>3, <3>6, <5>1, <5>2, <5>3
      <4>3. ASSUME NEW p \in C, \A q \in taken : p < q PROVE p \in E
        <5>1. PICK k \in 0 .. (num(r) - 1) : p \in 0 .. (TOTAL - 1) /\ p = logical_address(r) + k
          BY <3>4
        <5>2. p < e
          BY <3>8, <4>3
        <5>3. k \in 0 .. (c.i - 2)
          BY <1>3, <3>6, <5>1, <5>2
        <5> QED BY <3>5, <5>1, <5>3
      <4> QED BY <4>1, <4>2, <4>3
    <3> HIDE DEF ret
    <3>10. Ranges!Write(r)
      <4>1. taken # {}
        BY <3>8
      <4> QED BY <1>1, <1>6, <1>10, <3>1, <3>2, <3>9, <4>1
              DEF Ranges!Write, Ranges!Answer, C
    <3> QED BY <1>2, <3>10 DEF Ranges!Next
  <2> QED BY <2>1, <2>2
<1> QED BY <1>3, <1>8, <1>9, <1>10

\* Refinement: for requests made of whole pages every request is atomic and exact,
\* whatever the other CPUs do, and a write that fails leaves programmed just the
\* pages before the culprit.
THEOREM RangeFlashRefined ==
  ASSUME WholePages
  PROVE  Spec => ImplementsRangeFlash
<1>1. Init => Ranges!Init /\ ProgressInv
  <2> SUFFICES ASSUME Init PROVE Ranges!Init /\ ProgressInv
    OBVIOUS
  <2>1. programmed = {}
    <3> SUFFICES ASSUME NEW lpn \in 0 .. (TOTAL - 1) PROVE page_of_lpn(lpn) = "EMPTY"
      BY DEF programmed
    <3>1. lpn \in 0 .. TOTAL
      BY TotalType
    <3>2. LET a == address_of(lpn)
          IN  plane_of(a) \in PlaneId /\ a.block \in BlockIndex /\ a.page \in PageIndex
      BY <3>1, AddressParts
    <3> QED BY <3>2 DEF Init, DeviceInit, page_of_lpn, plane_init, block_init
  <2> HIDE DEF programmed
  <2> QED BY <2>1 DEF Init, Ranges!Init, ProgressInv
<1>2. IInv /\ ProgressInv /\ [Next]_vars => ProgressInv'
  BY NextProgress
<1>3. IInv /\ ProgressInv /\ [Next]_vars => [Ranges!Next]_(Ranges!vars)
  <2> SUFFICES ASSUME IInv, ProgressInv, [Next]_vars PROVE [Ranges!Next]_(Ranges!vars)
    OBVIOUS
  <2>1. UNCHANGED device_vars => programmed' = programmed
    BY DEF device_vars, programmed, page_of_lpn
  <2> HIDE DEF programmed
  <2>2. CASE UNCHANGED vars
    BY <2>1, <2>2 DEF vars, driver_vars, Ranges!vars
  <2>3. ASSUME NEW x \in CPUs, NEW r \in Requests, EndEarly(x, r) PROVE Ranges!Next
    <3>1. Ranges!Refuse(r)
      BY <2>1, <2>3 DEF EndEarly, reply, refusals, Ranges!Refuse, Ranges!Answer
    <3> QED BY <3>1 DEF Ranges!Next
  <2>4. ASSUME NEW x \in CPUs, NEW r \in Requests, EndUnsimulated(x, r) PROVE Ranges!Next
    <3>1. Covers(r) = {}
      BY <2>4, CoversNothing DEF EndUnsimulated
    <3>2. answered' = [req |-> r, ret |-> 0] /\ UNCHANGED <<device_vars, simlock, before>>
      BY <2>4 DEF EndUnsimulated, reply
    <3>3. CASE r.type = "read"
      BY <2>1, <3>2, <3>3 DEF Ranges!Read, Ranges!Answer, Ranges!Next
    <3>4. CASE r.type = "erase"
      BY <2>1, <3>1, <3>2, <3>4 DEF Ranges!Erase, Ranges!Answer, Ranges!Next
    <3>5. CASE r.type = "write"
      BY <2>1, <3>1, <3>2, <3>5 DEF Ranges!Write, Ranges!Answer, Ranges!Next
    <3> QED BY <3>3, <3>4, <3>5, RequestNumbers
  <2>5. ASSUME NEW x \in CPUs, NEW r \in Requests, NEW start \in StartTimes, Begin(x, r, start)
        PROVE  UNCHANGED Ranges!vars
    BY <2>1, <2>5 DEF Begin, Ranges!vars
  <2>6. ASSUME NEW x \in CPUs, Lock(x) PROVE UNCHANGED Ranges!vars
    BY <2>1, <2>6 DEF Lock, Ranges!vars
  <2>7. ASSUME NEW x \in CPUs, Arrive(x) PROVE UNCHANGED Ranges!vars
    <3>1. simlock = {x} /\ simlock' = {x} /\ before' = before
      BY <2>7, ArriveFacts
    <3>2. answered' = answered
      BY <2>7 DEF Arrive
    <3> QED BY <3>1, <3>2 DEF Ranges!vars
  <2>8. ASSUME NEW x \in CPUs, AssertFails(x) PROVE UNCHANGED Ranges!vars
    BY <2>1, <2>8 DEF AssertFails, Ranges!vars
  <2>9. ASSUME NEW x \in CPUs, Unlock(x) PROVE Ranges!Next
    BY <2>9, UnlockRefines
  <2> QED BY <2>2, <2>3, <2>4, <2>5, <2>6, <2>7, <2>8, <2>9 DEF Next
<1> QED BY <1>1, <1>2, <1>3, Invariance, PTL DEF Spec, ImplementsRangeFlash, Ranges!Spec
===============================================================================
