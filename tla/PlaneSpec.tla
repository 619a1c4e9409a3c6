------------------------------- MODULE PlaneSpec -------------------------------
(***************************************************************************)
(* One plane under every sequence of calls of its methods: read, write,   *)
(* erase and merge, with any in-range address, as ssd_die.c forwards      *)
(* them.  The plane has no locking of its own: the driver calls it under  *)
(* simlock, so each call is one step.                                     *)
(***************************************************************************)
EXTENDS FlashPlane

CONSTANTS EndTimes,            \* the times at which erase events end
          MaxFreeBlocks        \* bound on the counter free_blocks

ASSUME EndTimesAssumption == EndTimes \subseteq Nat
ASSUME MaxFreeBlocksAssumption == MaxFreeBlocks \in Nat

VARIABLES plane,   \* the Plane
          last,    \* the last call and what it returned
          halted   \* an assert has failed (BUG_ON in the kernel build)

vars == <<plane, last, halted>>

Calls == [op    : {"none", "read", "write", "erase", "merge"},
          block : BlockIndex,
          ret   : status]

call(op, b, ret) == [op |-> op, block |-> b, ret |-> ret]

Init ==
  /\ plane = plane_init
  /\ last = call("none", 0, "SUCCESS")
  /\ halted = FALSE

ReadPage(b, i) ==
  /\ ~halted
  /\ last' = call("read", b, plane_read_ret(plane, b, i))
  /\ UNCHANGED <<plane, halted>>

WritePage(b, i) ==
  /\ ~halted
  /\ plane' = plane_write(plane, b, i)
  /\ last' = call("write", b, plane_write_ret(plane, b, i))
  /\ UNCHANGED halted

EraseBlock(b, t) ==
  /\ ~halted
  /\ plane.free_blocks < MaxFreeBlocks
  /\ plane' = plane_erase(plane, b, t)
  /\ last' = call("erase", b, "SUCCESS")
  /\ UNCHANGED halted

\* ssd_plane_merge when both addresses name block b.
MergeBlock(b) ==
  /\ ~halted
  /\ plane' = plane_merge(plane, b)
  /\ last' = call("merge", b, plane_merge_ret(plane, b))
  /\ UNCHANGED halted

\* ssd_plane_merge of block b into another block of the plane: the addresses
\* compare equal only down to the plane, and the assert at line 180 fails.
MergeInto(b, c) ==
  /\ ~halted
  /\ b # c
  /\ halted' = TRUE
  /\ last' = call("merge", b, "FAILURE")
  /\ UNCHANGED plane

Next ==
  \/ \E b \in BlockIndex, i \in PageIndex : ReadPage(b, i) \/ WritePage(b, i)
  \/ \E b \in BlockIndex, t \in EndTimes : EraseBlock(b, t)
  \/ \E b \in BlockIndex : MergeBlock(b)
  \/ \E b, c \in BlockIndex : MergeInto(b, c)

Spec == Init /\ [][Next]_vars
-------------------------------------------------------------------------------
\* The plane, the record of the last call and the assert flag are well formed.
TypeOK ==
  /\ plane \in Plane
  /\ last \in Calls
  /\ halted \in BOOLEAN

\* ssd_block.c keeps two counters and a state beside the page array: after any
\* calls, pages_valid counts the pages programmed since the last erase (an
\* invalidated page stays counted), pages_invalid the INVALID ones, and the
\* block is FREE exactly when every page is EMPTY.
BlockAccounting ==
  \A b \in BlockIndex :
    LET blk == plane.data[b]
    IN  /\ blk.pages_valid   = Cardinality({i \in PageIndex : blk.data[i] # "EMPTY"})
        /\ blk.pages_invalid = Cardinality(PagesIn(blk, "INVALID"))
        /\ (blk.state = "FREE") = (\A i \in PageIndex : blk.data[i] = "EMPTY")

\* get_free_page never hides free space: while it answers with less than a page
\* (next_page.valid < PAGE), no block of the plane has an EMPTY page.
FreeSpaceKnown ==
  plane.next_page.valid < PAGE =>
    \A b \in BlockIndex : PagesIn(plane.data[b], "EMPTY") = {}

\* No sequence of calls makes a block INACTIVE: a merge invalidates pages only
\* when as many EMPTY ones remain, so some page is never INVALID and
\* get_next_page goes on considering every block.
NoBlockRetires ==
  \A b \in BlockIndex :
    /\ plane.data[b].state # "INACTIVE"
    /\ PagesIn(plane.data[b], "INVALID") # PageIndex

\* No update in place: a page becomes EMPTY again only together with its whole
\* block, and a page that was programmed is not programmed again before that.
NoInPlaceUpdate ==
  [][\A b \in BlockIndex, i \in PageIndex :
       LET old == plane.data[b].data[i]
           new == plane'.data[b].data[i]
       IN  /\ (old # "EMPTY" /\ new = "EMPTY") =>
                (last'.op = "erase" /\ \A j \in PageIndex : plane'.data[b].data[j] = "EMPTY")
           /\ (old # "VALID" /\ new = "VALID") => old = "EMPTY"]_vars

\* The status of a merge can be believed: one that returns SUCCESS leaves the
\* block with as many VALID pages as before.
MergeSuccessKeepsPages ==
  [][(last'.op = "merge" /\ last'.ret = "SUCCESS") =>
       Cardinality(PagesIn(plane'.data[last'.block], "VALID")) =
       Cardinality(PagesIn(plane.data[last'.block], "VALID"))]_vars
===============================================================================
