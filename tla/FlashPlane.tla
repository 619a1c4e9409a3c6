------------------------------ MODULE FlashPlane ------------------------------
(***************************************************************************)
(* A plane: an array of erase blocks, the plane's idea of its next free   *)
(* page, its count of free blocks and its wear statistics (ssd_plane.c).  *)
(* Each operator is one method of the plane, from the plane before the    *)
(* call to the plane after it.                                            *)
(***************************************************************************)
EXTENDS FlashBlock

CONSTANT PLANE_SIZE            \* blocks per plane

ASSUME PlaneSizeAssumption == PLANE_SIZE \in Nat \ {0}

BlockIndex == 0 .. (PLANE_SIZE - 1)

\* enum address_valid: how much of an address is meaningful.
NONE    == 0
PACKAGE == 1
DIE     == 2
PLANE   == 3
BLOCK   == 4
PAGE    == 5

FreePage == [block : BlockIndex, page : PageIndex, valid : {PLANE, BLOCK, PAGE}]

Plane == [data            : [BlockIndex -> Block],
          next_page       : FreePage,
          free_blocks     : Nat,
          least_worn      : BlockIndex,
          last_erase_time : Nat]

plane_init == [data            |-> [b \in BlockIndex |-> block_init],
               next_page       |-> [block |-> 0, page |-> 0, valid |-> PAGE],
               free_blocks     |-> PLANE_SIZE,
               least_worn      |-> 0,
               last_erase_time |-> 0]

\* Blocks get_next_page looks into, and those in which it finds a page.
candidates(p) == {b \in BlockIndex : p.data[b].state # "INACTIVE"}
usable(p)     == {b \in candidates(p) : has_next_page(p.data[b])}
first_usable(p) == CHOOSE b \in usable(p) : \A c \in usable(p) : b <= c

\* get_next_page: the first EMPTY page of the first block that has one; a
\* failed search leaves the block and page of the previous answer in place.
get_next_page(p) ==
  IF usable(p) # {}
  THEN [p EXCEPT !.next_page = [block |-> first_usable(p),
                                page  |-> next_page_of(p.data[first_usable(p)]),
                                valid |-> PAGE]]
  ELSE [p EXCEPT !.next_page = [@ EXCEPT !.valid =
                                  IF candidates(p) # {} THEN BLOCK ELSE PLANE]]

plane_read_ret(p, b, i) ==
  IF page_readable(p.data[b], i) THEN "SUCCESS" ELSE "FAILURE"

\* ssd_plane_write: the search for the next page runs BEFORE the page is
\* programmed, and whether or not the write succeeds.  free_blocks does not
\* change: the code compares the block's state before the write with itself.
plane_write(p, b, i) ==
  LET q == IF b = p.next_page.block THEN get_next_page(p) ELSE p
  IN  [q EXCEPT !.data = [@ EXCEPT ![b] = block_write(q.data[b], i)]]

plane_write_ret(p, b, i) ==
  IF page_writable(p.data[b], i) THEN "SUCCESS" ELSE "FAILURE"

\* update_wear_stats: without HAS_WL every block has 1000 erases remaining, so
\* no block beats block 0, and the plane takes over block 0's erase time.
update_wear_stats(p) ==
  [p EXCEPT !.least_worn = 0, !.last_erase_time = p.data[0].last_erase_time]

\* (mutant of refresh_if_full) only an answer of PLANE counts as full.
refresh_if_plane(p) == IF p.next_page.valid = PLANE THEN get_next_page(p) ELSE p

\* The refresh that follows an erase or a merge.
refresh_if_full(p) == IF p.next_page.valid < PAGE THEN get_next_page(p) ELSE p

\* ssd_plane_erase, for an event that ends at time t.
plane_erase(p, b, t) ==
  LET written == [p EXCEPT !.data = [@ EXCEPT ![b] = block_erase(p.data[b], t)]]
      erased  == update_wear_stats(written)
  IN  refresh_if_full([erased EXCEPT !.free_blocks = @ + 1])

\* (mutant of merge_fits) the pages to move are compared with the block's size.
fits_in_block(b) == Cardinality(PagesIn(b, "VALID")) <= SSD_BLOCK_SIZE

\* ssd_plane_merge of a block into itself (PlaneMerge.tla runs its loops): the
\* events it builds always name page 0.  Every VALID page is invalidated, and
\* the one page written is page 0, if it was EMPTY.
merge_fits(b) == Cardinality(PagesIn(b, "VALID")) <= Cardinality(PagesIn(b, "EMPTY"))

merge_lands(b) == b.data[0] = "EMPTY"

merged(b) ==
  LET V == PagesIn(b, "VALID")
  IN  IF V = {} THEN b
      ELSE [b EXCEPT !.data = [i \in PageIndex |->
                                 IF i \in V THEN "INVALID"
                                 ELSE IF i = 0 /\ merge_lands(b) THEN "VALID"
                                 ELSE b.data[i]],
                     !.pages_valid   = IF merge_lands(b) THEN @ + 1 ELSE @,
                     !.pages_invalid = @ + Cardinality(V),
                     !.state         = "ACTIVE"]

\* (mutant of merged_ret) only the first write can fail.
merged_ret_first(b) ==
  IF PagesIn(b, "VALID") = {} \/ merge_lands(b) THEN "SUCCESS" ELSE "FAILURE"

merged_ret(b) ==
  LET V == PagesIn(b, "VALID")
  IN  IF V = {} \/ (merge_lands(b) /\ Cardinality(V) = 1)
      THEN "SUCCESS" ELSE "FAILURE"

plane_merge(p, b) ==
  IF merge_fits(p.data[b])
  THEN refresh_if_full([p EXCEPT !.data = [@ EXCEPT ![b] = merged(p.data[b])]])
  ELSE p

plane_merge_ret(p, b) ==
  IF merge_fits(p.data[b]) THEN merged_ret(p.data[b]) ELSE "FAILURE"
===============================================================================
