------------------------------ MODULE FlashBlock ------------------------------
(***************************************************************************)
(* Flash pages and the erase block that owns them (ssd_page.c,            *)
(* ssd_block.c).  A block is a record; the operators below are the        *)
(* block's methods, each mapping the block before the call to the block   *)
(* after it.  The composing modules hold the variables.                   *)
(***************************************************************************)
EXTENDS Integers, FiniteSets

CONSTANT SSD_BLOCK_SIZE        \* pages per block

ASSUME BlockSizeAssumption == SSD_BLOCK_SIZE \in Nat \ {0}

PageIndex  == 0 .. (SSD_BLOCK_SIZE - 1)
page_state == {"EMPTY", "VALID", "INVALID"}
block_state == {"FREE", "ACTIVE", "INACTIVE"}
status == {"SUCCESS", "FAILURE"}

Block == [data            : [PageIndex -> page_state],
          pages_valid     : Nat,
          pages_invalid   : Nat,
          state           : block_state,
          last_erase_time : Nat]

\* The pages of block b that are in state s.
PagesIn(b, s) == {i \in PageIndex : b.data[i] = s}

\* ssd_block_init: every page EMPTY, both counters 0, an implied erasure at 0.
block_init == [data            |-> [i \in PageIndex |-> "EMPTY"],
               pages_valid     |-> 0,
               pages_invalid   |-> 0,
               state           |-> "FREE",
               last_erase_time |-> 0]

\* ssd_page_read: VALID and EMPTY pages can be read.
page_readable(b, i) == b.data[i] \in {"VALID", "EMPTY"}

\* (mutant of page_writable) a stale page can be programmed without an erase.
not_valid(b, i) == b.data[i] # "VALID"

\* ssd_page_write: only an EMPTY page can be programmed.
page_writable(b, i) == b.data[i] = "EMPTY"

\* ssd_block_write: a refused write changes nothing.
block_write(b, i) ==
  IF page_writable(b, i)
  THEN [b EXCEPT !.data = [@ EXCEPT ![i] = "VALID"],
                 !.pages_valid = @ + 1,
                 !.state = "ACTIVE"]
  ELSE b

\* (mutant of block_erase) the erase leaves the counter of invalid pages.
block_erase_keeps_invalid(b, t) ==
  [block_init EXCEPT !.last_erase_time = t, !.pages_invalid = b.pages_invalid]

\* ssd_block_erase, for an event that ends at time t.  It cannot fail.
block_erase(b, t) == [block_init EXCEPT !.last_erase_time = t]

\* The state ssd_block_invalidate_page derives from the counters.
state_of(valid, invalid) ==
  IF invalid >= SSD_BLOCK_SIZE THEN "INACTIVE"
  ELSE IF valid > 0 \/ invalid > 0 THEN "ACTIVE" ELSE "FREE"

\* ssd_block_invalidate_page: pages_valid keeps counting the page.
block_invalidate_page(b, i) ==
  [b EXCEPT !.data = [@ EXCEPT ![i] = "INVALID"],
            !.pages_invalid = @ + 1,
            !.state = state_of(b.pages_valid, b.pages_invalid + 1)]

\* ssd_block_get_next_page succeeds iff some page is EMPTY ...
has_next_page(b) == PagesIn(b, "EMPTY") # {}

\* (mutant of next_page_of) the page after the programmed ones, as if pages were
\* always programmed in order.
page_after_programmed(b) ==
  CHOOSE i \in 0 .. SSD_BLOCK_SIZE :
    /\ \A j \in PageIndex : j >= i => b.data[j] = "EMPTY"
    /\ i > 0 => b.data[i - 1] # "EMPTY"

\* ... and then yields the lowest one.
next_page_of(b) == CHOOSE i \in PagesIn(b, "EMPTY") :
                     \A j \in PagesIn(b, "EMPTY") : i <= j
===============================================================================
