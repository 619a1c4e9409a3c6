------------------------------ MODULE PlaneMerge ------------------------------
(***************************************************************************)
(* ssd_plane_merge run loop by loop, in between the other calls of a      *)
(* plane.  The function runs under the caller's lock, so no other call    *)
(* starts while a merge is in progress.  PlaneSpec, in which the same     *)
(* merge is one step, is what this module is shown to implement.          *)
(***************************************************************************)
EXTENDS PlaneSpec

\* The function's locals.  read.page and write.page are read_page and
\* write_page: the loops advance these, while the addresses inside read_event
\* and write_event were copied when both were 0.
VARIABLE merge

mvars == <<plane, last, halted, merge>>

event_page == 0

idle(b) == [pc          |-> "idle", block |-> b,
            before      |-> plane_init,
            merge_count |-> 0, num_merged |-> 0,
            read_page   |-> 0, write_page |-> 0,
            errors      |-> 0]

MInit == Init /\ merge = idle(0)

valid_count(b) == Cardinality(PagesIn(b, "VALID"))

\* (mutant of empty_count) INVALID pages are taken for room as well.
room_count(b) == Cardinality(PageIndex \ PagesIn(b, "VALID"))

empty_count(b) == Cardinality(PagesIn(b, "EMPTY"))

\* Count the pages to move and the room for them; give up if there is none.
MergeStart(b) ==
  /\ merge.pc = "idle" /\ ~halted
  /\ IF valid_count(plane.data[b]) > empty_count(plane.data[b])
     THEN /\ last' = call("merge", b, "FAILURE")
          /\ UNCHANGED merge
     ELSE /\ merge' = [idle(b) EXCEPT !.pc = "read", !.before = plane,
                                      !.merge_count = valid_count(plane.data[b])]
          /\ UNCHANGED last
  /\ UNCHANGED <<plane, halted>>

more_to_read == merge.num_merged < merge.merge_count /\ merge.read_page < SSD_BLOCK_SIZE

\* One iteration of the outer loop up to the inner one: a VALID page is
\* invalidated after the event's page has been read.
MergeRead ==
  /\ merge.pc = "read" /\ more_to_read
  /\ LET blk == plane.data[merge.block]
     IN  IF blk.data[merge.read_page] = "VALID"
         THEN /\ plane' = [plane EXCEPT !.data[merge.block] =
                             block_invalidate_page(@, merge.read_page)]
              /\ merge' = [merge EXCEPT !.pc = "write",
                             !.errors = IF page_readable(blk, event_page) THEN @ ELSE @ + 1]
         ELSE /\ merge' = [merge EXCEPT !.read_page = @ + 1]
              /\ UNCHANGED plane
  /\ UNCHANGED <<last, halted>>

\* (mutants of written) a failed write is retried; a failed write is not counted.
written_or_retry(m, blk) ==
  IF page_writable(blk, event_page)
  THEN [m EXCEPT !.pc = "read", !.read_page = @ + 1, !.num_merged = @ + 1]
  ELSE m
written_uncounted(m, blk) ==
  [m EXCEPT !.pc = "read", !.read_page = @ + 1, !.num_merged = @ + 1]

\* The locals after the inner loop has written, or failed to write: the loop is
\* left, and write_page keeps its value for the next time.
written(m, blk) ==
  [m EXCEPT !.pc = "read", !.read_page = @ + 1, !.num_merged = @ + 1,
            !.errors = IF page_writable(blk, event_page) THEN @ ELSE @ + 1]

\* One iteration of the inner loop: at an EMPTY page the event's page is written.
MergeWrite ==
  /\ merge.pc = "write" /\ merge.write_page < SSD_BLOCK_SIZE
  /\ LET blk == plane.data[merge.block]
     IN  IF blk.data[merge.write_page] = "EMPTY"
         THEN /\ plane' = [plane EXCEPT !.data[merge.block] = block_write(@, event_page)]
              /\ merge' = written(merge, blk)
         ELSE /\ merge' = [merge EXCEPT !.write_page = @ + 1]
              /\ UNCHANGED plane
  /\ UNCHANGED <<last, halted>>

\* The loops are done: refresh next_page, return by the error count.
MergeEnd ==
  /\ merge.pc = "read" /\ ~more_to_read
  /\ plane' = refresh_if_full(plane)
  /\ last' = call("merge", merge.block,
                  IF merge.errors = 0 THEN "SUCCESS" ELSE "FAILURE")
  /\ merge' = idle(0)
  /\ UNCHANGED halted

\* The other calls of the plane, between merges.
OtherCall ==
  /\ merge.pc = "idle"
  /\ \/ \E b \in BlockIndex, i \in PageIndex : ReadPage(b, i) \/ WritePage(b, i)
     \/ \E b \in BlockIndex, t \in EndTimes : EraseBlock(b, t)
     \/ \E b, c \in BlockIndex : MergeInto(b, c)
  /\ UNCHANGED merge

MNext ==
  \/ \E b \in BlockIndex : MergeStart(b)
  \/ MergeRead \/ MergeWrite \/ MergeEnd
  \/ OtherCall

MSpec == MInit /\ [][MNext]_mvars /\ WF_mvars(MergeRead \/ MergeWrite \/ MergeEnd)
-------------------------------------------------------------------------------
\* A merge never needs the last case of the inner loop (no EMPTY page left at or
\* after write_page), nor more rounds than it has pages to move.
MergeLoopsBounded ==
  /\ merge.pc = "write" =>
       \E i \in PageIndex : i >= merge.write_page /\ plane.data[merge.block].data[i] = "EMPTY"
  /\ merge.num_merged <= merge.merge_count
  /\ merge.errors <= 2 * merge.merge_count

\* Every merge that starts returns.
MergeReturns == merge.pc # "idle" ~> merge.pc = "idle"

\* While a merge is in progress its caller has seen nothing of it yet.
Atomic == INSTANCE PlaneSpec
            WITH plane <- IF merge.pc = "idle" THEN plane ELSE merge.before

\* The merge with its loops does in one call what PlaneSpec does in one step.
ImplementsPlaneSpec == Atomic!Spec
===============================================================================
