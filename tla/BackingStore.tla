----------------------------- MODULE BackingStore -----------------------------
(***************************************************************************)
(* The contents of the disk (brd.c): a tree of pages, allocated on the    *)
(* first write to them, that the bios of do_request read, write and       *)
(* discard under io_mutex, and that the ioctl BLKFLSBUF frees without it. *)
(*                                                                         *)
(* A bio is a sequence of segments.  A segment is handled sector by       *)
(* sector: for a write, a pass that makes the pages exist comes before    *)
(* the pass that copies.  Sectors never straddle a page.                  *)
(***************************************************************************)
EXTENDS Segments, FiniteSets, FiniteSetsExt

CONSTANTS Procs,               \* processes with an open file on the device
          PAGES,               \* pages of the disk
          PAGE_SECTORS,        \* sectors per page
          Values,              \* what a sector can hold; 0 is a cleared one
          Segments,            \* the sequences of segment lengths of bios
          FREE_BATCH,          \* pages brd_free_pages looks up at a time
          AllocFails,          \* whether alloc_page may fail
          SharedOpen           \* whether the processes share one open file

\* Processes are finitely many, and a bio has at least one segment.
ASSUME StoreAssumption ==
  /\ IsFiniteSet(Procs)
  /\ PAGES \in Nat \ {0}
  /\ PAGE_SECTORS \in Nat \ {0} /\ FREE_BATCH \in Nat \ {0}
  /\ 0 \in Values
  /\ Segments \subseteq Seq(Nat \ {0}) \ {<<>>}
  /\ AllocFails \in BOOLEAN /\ SharedOpen \in BOOLEAN

PageIdx  == 0 .. (PAGES - 1)
NoPage   == <<>>
Page     == [0 .. (PAGE_SECTORS - 1) -> Values]
Capacity == PAGES * PAGE_SECTORS
Sector   == 0 .. (Capacity - 1)

page_of(s)   == s \div PAGE_SECTORS
offset_of(s) == s % PAGE_SECTORS
zero_page    == [o \in 0 .. (PAGE_SECTORS - 1) |-> 0]

VARIABLES tree,      \* brd_pages: per page number, the page or NoPage
          io_mutex,  \* the set holding the mutex's owner, if any
          pc,        \* where each process is
          io,        \* per process: the locals of handle_request_bio
          pos        \* per process: the position of brd_free_pages

vars == <<tree, io_mutex, pc, io, pos>>

\* first and buf are history: where the bio began and what a read has returned.
no_io == [rw |-> "none", first |-> 0, size |-> 0, sector |-> 0, lens |-> <<>>,
          value |-> 0, i |-> 0, buf |-> <<>>]

\* What a read of sector s copies: zeroes where there is no page.
content(s) == IF tree[page_of(s)] = NoPage THEN 0 ELSE tree[page_of(s)][offset_of(s)]

Init ==
  /\ tree = [x \in PageIdx |-> NoPage]
  /\ io_mutex = {}
  /\ pc = [p \in Procs |-> "closed"]
  /\ io = [p \in Procs |-> no_io]
  /\ pos = [p \in Procs |-> 0]

goto(p, label) == pc' = [pc EXCEPT ![p] = label]
-------------------------------------------------------------------------------
(* Opening and closing the device: external.  Both need bd_mutex, which    *)
(* the ioctl holds while it frees pages.                                   *)

bd_mutex_free == \A p \in Procs : pc[p] # "freeing"

\* bd_openers.
openers ==
  LET users == Cardinality({p \in Procs : pc[p] # "closed"})
  IN  IF SharedOpen /\ users > 0 THEN 1 ELSE users

Open(p) == /\ pc[p] = "closed" /\ bd_mutex_free
           /\ goto(p, "open")
           /\ UNCHANGED <<tree, io_mutex, io, pos>>

Close(p) == /\ pc[p] = "open" /\ bd_mutex_free
            /\ goto(p, "closed")
            /\ UNCHANGED <<tree, io_mutex, io, pos>>
-------------------------------------------------------------------------------
(* One bio of p, in the loop of do_request.                                *)

\* do_request refuses (-111) a write that was not cloned, and
\* handle_request_bio (-EIO) one that ends beyond the capacity.
accepted(rw, first, lens, cloned) ==
  /\ rw = "write" => cloned
  /\ first + bi_size(lens) <= Capacity

start(p, rw, first, lens, v) ==
  /\ io' = [io EXCEPT ![p] =
              [rw |-> rw, first |-> first, size |-> bi_size(lens), sector |-> first,
               lens |-> lens, value |-> IF rw = "write" THEN v ELSE 0,
               i |-> 0, buf |-> <<>>]]
  /\ goto(p, CASE rw = "write" -> "setup" [] rw = "read" -> "copy" [] OTHER -> "discard")

\* (mutant of StartBio) the mutex does not exclude.
StartBioAnyway(p, rw, first, lens, v, cloned) ==
  /\ pc[p] = "open" /\ accepted(rw, first, lens, cloned)
  /\ io_mutex' = io_mutex \cup {p}
  /\ start(p, rw, first, lens, v)
  /\ UNCHANGED <<tree, pos>>

\* A bio that is refused changes nothing.
StartBio(p, rw, first, lens, v, cloned) ==
  /\ pc[p] = "open" /\ accepted(rw, first, lens, cloned)
  /\ io_mutex = {}
  /\ io_mutex' = {p}
  /\ start(p, rw, first, lens, v)
  /\ UNCHANGED <<tree, pos>>

\* handle_request_bio returns, and the mutex is released.
end_bio(p) ==
  /\ io_mutex' = {}
  /\ io' = [io EXCEPT ![p] = no_io]
  /\ goto(p, "open")

\* (mutant of insert_page) a page that is there already is replaced.
insert_new_page(x) == tree' = [tree EXCEPT ![x] = zero_page]

\* brd_insert_page: a page that is there already is kept.
insert_page(x) == tree' = [tree EXCEPT ![x] = IF @ = NoPage THEN zero_page ELSE @]

\* copy_to_brd_setup for the segment's sector i; after the last one, the copying.
SetupSector(p) ==
  LET s == io[p].sector + io[p].i
      last == io[p].i + 1 = Head(io[p].lens)
  IN  /\ pc[p] = "setup"
      /\ insert_page(page_of(s))
      /\ io' = [io EXCEPT ![p].i = IF last THEN 0 ELSE @ + 1]
      /\ goto(p, IF last THEN "copy" ELSE "setup")
      /\ UNCHANGED <<io_mutex, pos>>

\* No memory for the page: the segment is not begun and the bio is given up.
SetupFails(p) ==
  /\ pc[p] = "setup" /\ AllocFails
  /\ tree[page_of(io[p].sector + io[p].i)] = NoPage
  /\ end_bio(p)
  /\ UNCHANGED <<tree, pos>>

\* (mutant of next_sector) the next segment goes where the first one went.
first_sector(b) == b.first

\* Where the next segment goes.
next_sector(b) == b.sector + Head(b.lens)

\* After sector i: the next sector, the next segment or the end of the bio.
advance(p, b) ==
  IF b.i + 1 < Head(b.lens)
    THEN io' = [io EXCEPT ![p] = [b EXCEPT !.i = @ + 1]] /\ UNCHANGED <<io_mutex, pc>>
  ELSE IF Len(b.lens) > 1
    THEN /\ io' = [io EXCEPT ![p] = [b EXCEPT !.i = 0, !.lens = Tail(@),
                                              !.sector = next_sector(b)]]
         /\ goto(p, IF b.rw = "write" THEN "setup" ELSE "copy")
         /\ UNCHANGED io_mutex
  ELSE end_bio(p)

\* copy_from_brd.
ReadSector(p) ==
  LET s == io[p].sector + io[p].i
  IN  /\ pc[p] = "copy" /\ io[p].rw = "read"
      /\ advance(p, [io[p] EXCEPT !.buf = Append(@, content(s))])
      /\ UNCHANGED <<tree, pos>>

\* copy_to_brd.  It has no page to copy to only if one was freed since the setup:
\* BUG_ON(!page) stops the process for good.
WriteSector(p) ==
  LET s == io[p].sector + io[p].i
  IN  /\ pc[p] = "copy" /\ io[p].rw = "write"
      /\ tree[page_of(s)] # NoPage
      /\ tree' = [tree EXCEPT ![page_of(s)][offset_of(s)] = io[p].value]
      /\ advance(p, io[p])
      /\ UNCHANGED pos

\* brd_zero_page; a page that does not exist reads as zeroes anyway.
clear_page(pg) == IF pg = NoPage THEN NoPage ELSE zero_page

\* discard_from_brd: the page that holds the sector, as long as a page's worth is
\* left.  An unaligned range is not rounded: the page is cleared as a whole.
DiscardPage(p) ==
  /\ pc[p] = "discard" /\ io[p].size >= (io[p].i + 1) * PAGE_SECTORS
  /\ tree' = [tree EXCEPT ![page_of(io[p].sector)] = clear_page(@)]
  /\ io' = [io EXCEPT ![p].i = @ + 1, ![p].sector = @ + PAGE_SECTORS]
  /\ UNCHANGED <<io_mutex, pc, pos>>

EndDiscard(p) ==
  /\ pc[p] = "discard" /\ io[p].size < (io[p].i + 1) * PAGE_SECTORS
  /\ end_bio(p)
  /\ UNCHANGED <<tree, pos>>
-------------------------------------------------------------------------------
(* brd_ioctl(BLKFLSBUF), by a process that has no I/O of its own going on.  *)

\* (mutant of Flush) the number of openers is not looked at.
FlushAnyway(p) ==
  /\ pc[p] = "open" /\ bd_mutex_free
  /\ pos' = [pos EXCEPT ![p] = 0]
  /\ goto(p, "freeing")
  /\ UNCHANGED <<tree, io_mutex, io>>

\* With brd_mutex and bd_mutex, if there is no other opener (else -EBUSY).
Flush(p) ==
  /\ pc[p] = "open" /\ bd_mutex_free
  /\ openers <= 1
  /\ pos' = [pos EXCEPT ![p] = 0]
  /\ goto(p, "freeing")
  /\ UNCHANGED <<tree, io_mutex, io>>

\* radix_tree_gang_lookup: up to FREE_BATCH pages from position k on, in order.
gang_lookup(k) ==
  {x \in PageIdx : /\ tree[x] # NoPage /\ x >= k
                   /\ Cardinality({y \in PageIdx : tree[y] # NoPage /\ y >= k /\ y < x})
                        < FREE_BATCH}

\* (mutant of FreeBatch) positions are taken for page counts.
FreeBatchStrides(p) ==
  LET batch == gang_lookup(pos[p])
  IN  /\ pc[p] = "freeing"
      /\ tree' = [x \in PageIdx |-> IF x \in batch THEN NoPage ELSE tree[x]]
      /\ IF Cardinality(batch) = FREE_BATCH
         THEN pos' = [pos EXCEPT ![p] = Max(batch) + FREE_BATCH] /\ UNCHANGED pc
         ELSE pos' = [pos EXCEPT ![p] = 0] /\ goto(p, "open")
      /\ UNCHANGED <<io_mutex, io>>

\* One round of brd_free_pages; the first batch that is not full is the last.
FreeBatch(p) ==
  LET batch == gang_lookup(pos[p])
  IN  /\ pc[p] = "freeing"
      /\ tree' = [x \in PageIdx |-> IF x \in batch THEN NoPage ELSE tree[x]]
      /\ IF Cardinality(batch) = FREE_BATCH
         THEN pos' = [pos EXCEPT ![p] = Max(batch) + 1] /\ UNCHANGED pc
         ELSE pos' = [pos EXCEPT ![p] = 0] /\ goto(p, "open")
      /\ UNCHANGED <<io_mutex, io>>
-------------------------------------------------------------------------------
Next ==
  \/ \E p \in Procs, rw \in {"read", "write", "discard"}, s \in Sector,
        lens \in Segments, v \in Values, cloned \in BOOLEAN :
       StartBio(p, rw, s, lens, v, cloned)
  \/ \E p \in Procs :
       \/ Open(p) \/ Close(p)
       \/ SetupSector(p) \/ SetupFails(p) \/ ReadSector(p) \/ WriteSector(p)
       \/ DiscardPage(p) \/ EndDiscard(p)
       \/ Flush(p) \/ FreeBatch(p)

Spec == Init /\ [][Next]_vars
-------------------------------------------------------------------------------
\* A read returns one moment's contents: while it goes from sector to sector and
\* from segment to segment, nothing it has already copied changes.
ReadIsSnapshot ==
  \A p \in Procs : \A k \in 1 .. Len(io[p].buf) :
    io[p].buf[k] = content(io[p].first + k - 1)

\* A write that was not given up has put its value in every sector of its range
\* when it lets go of io_mutex.
WriteIsWhole ==
  [][\A p \in Procs :
       (pc[p] = "copy" /\ io[p].rw = "write" /\ pc'[p] = "open") =>
         \A s \in Sector :
           (io[p].first <= s /\ s < io[p].first + io[p].size) =>
              content(s)' = io[p].value]_vars

\* Making pages exist for a write changes nothing that can be read, so a segment
\* whose setup fails half way leaves its sectors as they were.
SetupIsInvisible ==
  [][\A p \in Procs :
       (pc[p] = "setup" /\ <<pc[p], io[p]>>' # <<pc[p], io[p]>>) =>
         \A s \in Sector : content(s)' = content(s)]_vars

\* The pages under a bio stay: a page is freed only when no bio is being handled
\* (brd.c:135-136: "The page lifetime is protected by the fact that we have opened
\* the device node -- brd pages will never be deleted under us").
PagesStay ==
  [][(\E x \in PageIdx : tree[x] # NoPage /\ tree'[x] = NoPage) => io_mutex = {}]_vars

\* A flush frees every page, however they are spread over the tree.
FlushFreesAll ==
  [][\A p \in Procs : (pc[p] = "freeing" /\ pc'[p] = "open") =>
       \A x \in PageIdx : tree'[x] = NoPage]_vars
===============================================================================
