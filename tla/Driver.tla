-------------------------------- MODULE Driver --------------------------------
(***************************************************************************)
(* do_request (brd.c) from the request's sectors to the answer: which     *)
(* flash pages a request names, how many, and the loop over               *)
(* ssd_event_arrive under simlock, on several CPUs.  The device's disk    *)
(* has SSD_PAGE_OOBSECS sectors for each flash page, SSD_PAGE_SECS of     *)
(* data and one for the client's own use.  The data's copy, the queue of  *)
(* answers and the timers are BackingStore and CompletionQueue.           *)
(***************************************************************************)
EXTENDS SsdDevice

CONSTANTS CPUs,                \* CPUs running do_request
          Requests,            \* [type, block, nsect]: what clients ask
          SSD_PAGE_SECS,       \* data sectors per flash page
          FLASHPGS_PER_BLOCK   \* pages per erase, as settings.h has it

ASSUME SectorsAssumption == SSD_PAGE_SECS \in Nat \ {0}
ASSUME SettingsAssumption == FLASHPGS_PER_BLOCK = SSD_BLOCK_SIZE
ASSUME RequestsAssumption ==
  Requests \subseteq [type : {"read", "write", "erase"}, block : Nat, nsect : Nat \ {0}]

SSD_PAGE_OOBSECS == SSD_PAGE_SECS + 1
sdk_capacity     == TOTAL * SSD_PAGE_OOBSECS
refusals         == {-12, -111}       \* -ENOMEM, and a write that is no clone

\* The first page of a request.
logical_address(r) == r.block \div SSD_PAGE_OOBSECS

\* (mutant of size) the sectors are not divided among pages with a spare one.
size_raw(r) == r.nsect

\* The data sectors of a request: those for the client's own use are left out,
\* but only when the request is made of whole pages.
size(r) ==
  IF r.nsect % SSD_PAGE_OOBSECS = 0
  THEN (r.nsect * SSD_PAGE_SECS) \div SSD_PAGE_OOBSECS ELSE r.nsect

\* (mutant of num) an erase that ends within a block erases it.
num_up(r) ==
  LET pages == size(r) \div SSD_PAGE_SECS
  IN  IF r.type = "erase"
      THEN (pages + FLASHPGS_PER_BLOCK - 1) \div FLASHPGS_PER_BLOCK ELSE pages

\* How many events a request makes, and how many pages lie between two of them.
num(r) ==
  LET pages == size(r) \div SSD_PAGE_SECS
  IN  IF r.type = "erase" THEN pages \div FLASHPGS_PER_BLOCK ELSE pages
unit(r) == IF r.type = "erase" THEN FLASHPGS_PER_BLOCK ELSE 1

event_page(r, i) == logical_address(r) + i * unit(r)

\* settings.h, with ENABLE_UPS: the first block is not simulated.
page_reserved(lpn) == lpn < FLASHPGS_PER_BLOCK
-------------------------------------------------------------------------------
VARIABLES cpu,       \* per CPU: the locals of its do_request
          simlock,   \* the set holding the CPU inside simlock, if any
          answered,  \* history: the last request answered, and its status
          before     \* history: the pages programmed when simlock was taken

driver_vars == <<cpu, simlock, answered, before>>
vars == <<device_vars, driver_vars>>

NO_REQUEST == [type |-> "none", block |-> 0, nsect |-> 1]
idle == [pc |-> "idle", req |-> NO_REQUEST, start |-> 0, i |-> 0, timeval |-> 0]

programmed == {lpn \in 0 .. (TOTAL - 1) : page_of_lpn(lpn) # "EMPTY"}

Init ==
  /\ DeviceInit
  /\ cpu = [x \in CPUs |-> idle]
  /\ simlock = {}
  /\ answered = [req |-> NO_REQUEST, ret |-> 0]
  /\ before = {}

reply(r, ret) == answered' = [req |-> r, ret |-> ret]

\* The capacity check at the head of do_request.
accepted(r) == r.block < sdk_capacity /\ r.block + r.nsect <= sdk_capacity

\* A write is given up before the simulator is asked: there is no memory for its
\* data, or its bio was not cloned by another driver.
EndEarly(x, r) ==
  /\ cpu[x].pc = "idle" /\ accepted(r) /\ r.type = "write"
  /\ \E ret \in refusals : reply(r, ret)
  /\ UNCHANGED <<device_vars, cpu, simlock, before>>

\* A request for one sector, or one that starts in a reserved page, is answered
\* without asking the simulator.
EndUnsimulated(x, r) ==
  /\ cpu[x].pc = "idle" /\ accepted(r)
  /\ r.nsect = 1 \/ page_reserved(logical_address(r))
  /\ reply(r, 0)
  /\ UNCHANGED <<device_vars, cpu, simlock, before>>

\* The clock is read; the CPU is about to take simlock.
Begin(x, r, start) ==
  /\ cpu[x].pc = "idle" /\ accepted(r)
  /\ r.nsect # 1 /\ ~page_reserved(logical_address(r))
  /\ cpu' = [cpu EXCEPT ![x] = [idle EXCEPT !.pc = "timed", !.req = r, !.start = start]]
  /\ UNCHANGED <<device_vars, simlock, answered, before>>

Lock(x) ==
  /\ cpu[x].pc = "timed" /\ simlock = {}
  /\ simlock' = {x}
  /\ before' = programmed
  /\ cpu' = [cpu EXCEPT ![x].pc = "simulating"]
  /\ UNCHANGED <<device_vars, answered>>

\* ssd_event_arrive, past its assert.
ssd_event_arrive(type, lpn, start) ==
  \/ type = "read"  /\ ArriveRead(lpn, start)
  \/ type = "write" /\ ArriveWrite(lpn, start)
  \/ type = "erase" /\ ArriveErase(lpn, start)

more(x) == cpu[x].timeval # -1 /\ cpu[x].i < num(cpu[x].req)

\* (mutant of longest) the last event decides.
latest(new, old) == new

\* The longest event decides, and one that fails.
longest(new, old) == IF new < 0 THEN -1 ELSE IF new > old THEN new ELSE old

\* One iteration of the loop.
Arrive(x) ==
  LET c   == cpu[x]
      lpn == event_page(c.req, c.i)
  IN  /\ c.pc = "simulating" /\ more(x) /\ lpn <= TOTAL
      /\ ssd_event_arrive(c.req.type, lpn, c.start)
      /\ cpu' = [cpu EXCEPT ![x].i = @ + 1, ![x].timeval = longest(last'.result, @)]
      /\ UNCHANGED <<simlock, answered, before>>

\* The assert of ssd_event_arrive does not hold: BUG_ON stops the CPU where it is.
AssertFails(x) ==
  /\ cpu[x].pc = "simulating" /\ more(x)
  /\ event_page(cpu[x].req, cpu[x].i) > TOTAL
  /\ cpu' = [cpu EXCEPT ![x].pc = "bug"]
  /\ UNCHANGED <<device_vars, simlock, answered, before>>

\* The loop is over: the request is queued for its answer.
Unlock(x) ==
  /\ cpu[x].pc = "simulating" /\ ~more(x)
  /\ simlock' = {}
  /\ before' = {}
  /\ reply(cpu[x].req, IF cpu[x].timeval = -1 THEN -2 ELSE 0)
  /\ cpu' = [cpu EXCEPT ![x] = idle]
  /\ UNCHANGED device_vars

Next ==
  \E x \in CPUs :
    \/ \E r \in Requests : EndEarly(x, r) \/ EndUnsimulated(x, r)
    \/ \E r \in Requests, start \in StartTimes : Begin(x, r, start)
    \/ Lock(x) \/ Arrive(x) \/ AssertFails(x) \/ Unlock(x)

Spec == Init /\ [][Next]_vars
-------------------------------------------------------------------------------
\* ssd_ssd.c:173 asserts that every page number do_request computes is on the
\* device, or one past its end.
AssertHolds == \A x \in CPUs : cpu[x].pc # "bug"

\* The assert can only fail, and stop the kernel, for a request that is not made
\* of whole pages: for all others the capacity check keeps every event on the
\* device.
WithinDevice ==
  \A x \in CPUs : cpu[x].pc = "bug" => cpu[x].req.nsect % SSD_PAGE_OOBSECS # 0

\* While a request is simulated, the time it will be answered at is the latest
\* release among the channels its events have used so far: no other CPU can
\* reserve one of them in between, and no event is forgotten.
AnswerIsLastRelease ==
  \A x \in simlock :
    LET used == {channels[get_channel(address_of(event_page(cpu[x].req, j)))].unlock_time :
                   j \in 0 .. (cpu[x].i - 1)}
        due  == cpu[x].start + cpu[x].timeval
    IN  (cpu[x].timeval # -1 /\ used # {}) =>
          due \in used /\ \A u \in used : u <= due

\* The pages all of whose sectors a request names and, for an erase, that lie in
\* blocks all of which it names; none, if it starts in the reserved block.
named(r) == {p \in 0 .. (TOTAL - 1) :
               /\ r.block <= p * SSD_PAGE_OOBSECS
               /\ (p + 1) * SSD_PAGE_OOBSECS <= r.block + r.nsect}
block_of(p) == {q \in 0 .. (TOTAL - 1) : q \div SSD_BLOCK_SIZE = p \div SSD_BLOCK_SIZE}
Covers(r) ==
  IF r.block < SSD_BLOCK_SIZE * SSD_PAGE_OOBSECS THEN {}
  ELSE IF r.type = "erase" THEN {p \in named(r) : block_of(p) \subseteq named(r)}
  ELSE named(r)

\* Requests that RangeFlash is about: an event's unit is what a client names.  All
\* requests but reads are of whole pages, or of the one sector that is never
\* simulated, and an erase starts with a unit.
WholePages ==
  \A r \in Requests :
    r.type = "read" \/ r.nsect = 1 \/
      /\ r.block % SSD_PAGE_OOBSECS = 0 /\ r.nsect % SSD_PAGE_OOBSECS = 0
      /\ r.type = "erase" => logical_address(r) % FLASHPGS_PER_BLOCK = 0

Ranges == INSTANCE RangeFlash WITH
  programmed <- IF simlock # {} THEN before ELSE programmed,
  answer <- answered

\* For such requests do_request is atomic and exact: whatever other CPUs do, a
\* request acts at one moment on the pages its sectors cover, and a write that
\* fails leaves programmed just the pages before the culprit.
ImplementsRangeFlash == Ranges!Spec
===============================================================================
