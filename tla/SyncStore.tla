------------------------------- MODULE SyncStore -------------------------------
(***************************************************************************)
(* The older driver (syncbrd.c): the block layer calls brd_make_request   *)
(* in the context of whoever submits a bio, nothing serialises the bios,  *)
(* and the tree of pages is guarded by brd_lock only while a page is      *)
(* inserted.  A page is found without a lock, and a page's index is set   *)
(* after it has been inserted.                                            *)
(*                                                                         *)
(* A segment goes through two passes over the pages it lies in: for a     *)
(* write, one that makes the pages exist, then the one that copies.  Only *)
(* BLKFLSBUF frees pages, and it looks at the number of openers alone:    *)
(* processes that share one open file count as one.                       *)
(***************************************************************************)
EXTENDS Segments, FiniteSets, TLC

CONSTANTS Procs,               \* processes with an open file on the device
          PAGES, PAGE_SECTORS,
          Values,              \* what a sector can hold; 0 is a cleared one
          Bios,                \* [rw, first, lens]: lens are the segments' lengths
          SharedOpen           \* whether the processes share one open file

ASSUME ProcsAssumption == IsFiniteSet(Procs)
ASSUME SizesAssumption ==
  PAGES \in Nat \ {0} /\ PAGE_SECTORS \in Nat \ {0} /\ 0 \in Values
ASSUME SharedOpenAssumption == SharedOpen \in BOOLEAN
\* A segment is no longer than a page; a discard is one run of sectors, which need
\* not begin or end with a page.
ASSUME BiosAssumption ==
  \A b \in Bios :
    /\ b.rw \in {"read", "write", "discard"} /\ b.first \in Nat
    /\ b.lens \in Seq(Nat \ {0}) /\ b.lens # <<>>
    /\ IF b.rw = "discard" THEN Len(b.lens) = 1
       ELSE \A j \in DOMAIN b.lens : b.lens[j] <= PAGE_SECTORS

Sector       == 0 .. (PAGES * PAGE_SECTORS - 1)
idx(s)       == s \div PAGE_SECTORS
offset(s)    == s % PAGE_SECTORS

\* The sectors a bio names, which must be on the disk, and those it reads, writes or
\* clears.  discard_from_brd clears whole pages: as many as the discard's length
\* holds, from the one that its first sector is in.
range(b)      == b.first .. (b.first + bi_size(b.lens) - 1)
first_of(b)   == IF b.rw = "discard" THEN b.first - offset(b.first) ELSE b.first
lens_of(b)    == IF b.rw = "discard" THEN <<PAGE_SECTORS * idx(Head(b.lens))>> ELSE b.lens
sectors_of(b) == first_of(b) .. (first_of(b) + bi_size(lens_of(b)) - 1)

NoPage    == <<>>
new_page(indexed) ==
  [data |-> [o \in 0 .. (PAGE_SECTORS - 1) |-> 0], indexed |-> indexed]

VARIABLES brd_pages,  \* per page number: the page or NoPage
          brd_lock,   \* the set holding the lock's owner, if any
          allocated,  \* how many pages alloc_page has given and not got back
          pc,         \* where each process is
          io,         \* per process: the locals of brd_make_request
          failed      \* history: whether its last bio failed

vars == <<brd_pages, brd_lock, allocated, pc, io, failed>>

\* A bio's segment starts at sector and is done up to its i-th sector; the part
\* of it in the current page ends before upto.  bio, value and buf are history.
no_io == [bio |-> {}, value |-> 0, buf |-> <<>>,
          rw |-> "none", sector |-> 0, lens |-> <<>>, i |-> 0, upto |-> 0]

Init ==
  /\ brd_pages = [x \in 0 .. (PAGES - 1) |-> NoPage]
  /\ brd_lock = {}
  /\ allocated = 0
  /\ pc = [p \in Procs |-> "closed"]
  /\ io = [p \in Procs |-> no_io]
  /\ failed = [p \in Procs |-> FALSE]

pages_in_tree == {x \in DOMAIN brd_pages : brd_pages[x] # NoPage}

goto(p, label) == pc' = [pc EXCEPT ![p] = label]

here(p) == io[p].sector + io[p].i             \* the sector a process is at
page(p) == brd_pages[idx(here(p))]            \* and the page brd_lookup_page finds
end_of_part(p) ==
  LET left    == Head(io[p].lens) - io[p].i
      in_page == PAGE_SECTORS - offset(here(p))
  IN  io[p].i + (IF left < in_page THEN left ELSE in_page)
-------------------------------------------------------------------------------
(* Opening, closing and BLKFLSBUF.                                         *)

\* brd_ioctl holds bd_mutex; one that has stopped at a BUG_ON never lets go of it.
bd_mutex_free == \A q \in Procs : pc[q] # "bug_flush"

\* bd_openers.
openers ==
  LET users == Cardinality({p \in Procs : pc[p] # "closed"})
  IN  IF SharedOpen /\ users > 0 THEN 1 ELSE users

Open(p)  == /\ pc[p] = "closed" /\ bd_mutex_free /\ goto(p, "open")
            /\ UNCHANGED <<brd_pages, brd_lock, allocated, io, failed>>
Close(p) == /\ pc[p] = "open" /\ bd_mutex_free /\ goto(p, "closed")
            /\ UNCHANGED <<brd_pages, brd_lock, allocated, io, failed>>

\* brd_free_pages goes through the pages in order, up to one whose index is not
\* what it should be, where a BUG_ON stops it.
freeable == {x \in pages_in_tree : \A y \in pages_in_tree : y <= x => brd_pages[y].indexed}

\* Where q is once the pages of freeable are gone.  One that has a pointer to such a
\* page goes on in memory that is no longer the disk's, where the model does not
\* follow it (but lets go of brd_lock for it).
freed_under(q) ==
  IF pc[q] \in {"copy", "index"} /\ idx(here(q)) \in freeable THEN "freed" ELSE pc[q]

\* The only opener frees all pages.  Neither brd_lock is taken nor bios are waited
\* for.  The batches of brd_free_pages are one step: with separate opens there is
\* nobody to see them.
BLKFLSBUF(p) ==
  /\ pc[p] = "open" /\ bd_mutex_free /\ openers <= 1
  /\ brd_pages' = [x \in DOMAIN brd_pages |-> IF x \in freeable THEN NoPage
                                              ELSE brd_pages[x]]
  /\ allocated' = allocated - Cardinality(freeable)
  /\ pc' = [q \in Procs |-> IF q # p THEN freed_under(q)
                            ELSE IF freeable = pages_in_tree THEN "open" ELSE "bug_flush"]
  /\ brd_lock' = {q \in brd_lock : freed_under(q) # "freed"}
  /\ UNCHANGED <<io, failed>>
-------------------------------------------------------------------------------
(* brd_make_request.                                                       *)

first_pass(rw) == IF rw = "write" THEN "setup" ELSE "find"

\* A bio that ends beyond the capacity (-EIO), and a discard of less than a page,
\* change nothing.
StartBio(p, b, v) ==
  /\ pc[p] = "open" /\ range(b) \subseteq Sector /\ sectors_of(b) # {}
  /\ io' = [io EXCEPT ![p] = [no_io EXCEPT !.bio = {b}, !.rw = b.rw,
                                           !.value = IF b.rw = "write" THEN v ELSE 0,
                                           !.sector = first_of(b), !.lens = lens_of(b)]]
  /\ failed' = [failed EXCEPT ![p] = FALSE]
  /\ goto(p, first_pass(b.rw))
  /\ UNCHANGED <<brd_pages, brd_lock, allocated>>

\* bio_endio.
end_bio(p, fails) ==
  /\ io' = [io EXCEPT ![p] = no_io]
  /\ failed' = [failed EXCEPT ![p] = fails]
  /\ goto(p, "open")

\* brd_lookup_page finds a page whose index is not what it should be: BUG_ON.
LookupFails(p) ==
  /\ pc[p] \in {"setup", "find"} /\ page(p) # NoPage /\ ~page(p).indexed
  /\ goto(p, IF pc[p] = "setup" THEN "bug_setup" ELSE "bug_find")
  /\ UNCHANGED <<brd_pages, brd_lock, allocated, io, failed>>

finds(p, pass)   == pc[p] = pass /\ page(p) # NoPage /\ page(p).indexed
misses(p, pass)  == pc[p] = pass /\ page(p) = NoPage

\* (mutant of set_up) only the first page of a segment is made.
set_up_first(p) == io' = [io EXCEPT ![p].i = 0] /\ goto(p, "find")

\* The page at hand exists: on to the next one of the segment, or to the copying.
set_up(p) ==
  LET done == end_of_part(p) = Head(io[p].lens)
  IN  /\ io' = [io EXCEPT ![p].i = IF done THEN 0 ELSE end_of_part(p)]
      /\ goto(p, IF done THEN "find" ELSE "setup")

SetupFinds(p) == /\ finds(p, "setup") /\ set_up(p)
                 /\ UNCHANGED <<brd_pages, brd_lock, allocated, failed>>

\* alloc_page and radix_tree_preload; without memory the bio is given up.
Allocate(p) ==
  /\ misses(p, "setup") /\ goto(p, "insert")
  /\ allocated' = allocated + 1
  /\ UNCHANGED <<brd_pages, brd_lock, io, failed>>
AllocateFails(p) ==
  /\ misses(p, "setup") /\ end_bio(p, TRUE)
  /\ UNCHANGED <<brd_pages, brd_lock, allocated>>

\* Under brd_lock; the new page's index is whatever its memory held before.
Insert(p) ==
  /\ pc[p] = "insert" /\ brd_lock = {} /\ page(p) = NoPage
  /\ brd_lock' = {p}
  /\ \E indexed \in BOOLEAN :
       brd_pages' = [brd_pages EXCEPT ![idx(here(p))] = new_page(indexed)]
  /\ goto(p, "index")
  /\ UNCHANGED <<allocated, io, failed>>

SetIndex(p) ==
  /\ pc[p] = "index"
  /\ brd_pages' = [brd_pages EXCEPT ![idx(here(p))].indexed = TRUE]
  /\ brd_lock' = {}
  /\ set_up(p)
  /\ UNCHANGED <<allocated, failed>>

\* (mutants of InsertLoses) the page is not freed; the other's page is replaced.
InsertLosesKeeps(p) ==
  /\ pc[p] = "insert" /\ brd_lock = {} /\ page(p) # NoPage
  /\ set_up(p)
  /\ UNCHANGED <<brd_pages, brd_lock, allocated, failed>>
InsertLosesReplaces(p) ==
  /\ pc[p] = "insert" /\ brd_lock = {} /\ page(p) # NoPage
  /\ brd_pages' = [brd_pages EXCEPT ![idx(here(p))] = new_page(TRUE)]
  /\ allocated' = allocated - 1
  /\ set_up(p)
  /\ UNCHANGED <<brd_lock, failed>>

\* Another process has inserted the page meanwhile: it is used, the new one freed.
InsertLoses(p) ==
  /\ pc[p] = "insert" /\ brd_lock = {} /\ page(p) # NoPage
  /\ allocated' = allocated - 1
  /\ set_up(p)
  /\ UNCHANGED <<brd_pages, brd_lock, failed>>

\* The part of the segment up to its j-th sector is done, with l as the locals:
\* on to the next page, to the next segment, or to the end of the bio.
advance(p, l, j) ==
  IF j = Head(l.lens) /\ Len(l.lens) > 1
  THEN /\ io' = [io EXCEPT ![p] = [l EXCEPT !.i = 0, !.upto = 0, !.lens = Tail(@),
                                            !.sector = @ + Head(l.lens)]]
       /\ goto(p, first_pass(l.rw))
  ELSE /\ io' = [io EXCEPT ![p] = [l EXCEPT !.i = j, !.upto = 0]]
       /\ goto(p, IF j = Head(l.lens) THEN "done" ELSE "find")

EndBio(p) == /\ pc[p] = "done" /\ end_bio(p, FALSE)
             /\ UNCHANGED <<brd_pages, brd_lock, allocated>>

\* The copying, or clearing, of the part in a page begins.
CopyFinds(p) ==
  /\ finds(p, "find") /\ goto(p, "copy")
  /\ io' = [io EXCEPT ![p].upto = end_of_part(p)]
  /\ UNCHANGED <<brd_pages, brd_lock, allocated, failed>>

\* There is no page: a read gets zeroes for all of the part, and a discard has
\* nothing to do; a write stops at BUG_ON.
CopyMisses(p) ==
  LET l      == io[p]
      zeroes == [s \in here(p) .. (l.sector + end_of_part(p) - 1) |-> 0]
      l2     == IF l.rw = "read" THEN [l EXCEPT !.buf = @ @@ zeroes] ELSE l
  IN  /\ misses(p, "find")
      /\ IF l.rw = "write" THEN goto(p, "bug_find") /\ UNCHANGED io
         ELSE advance(p, l2, end_of_part(p))
      /\ UNCHANGED <<brd_pages, brd_lock, allocated, failed>>

\* One sector is copied or cleared.
CopySector(p) ==
  LET l  == io[p]
      s  == here(p)
      l2 == IF l.rw = "read"
            THEN [l EXCEPT !.buf = @ @@ [t \in {s} |-> brd_pages[idx(t)].data[offset(t)]]]
            ELSE l
  IN  /\ pc[p] = "copy"
      /\ brd_pages' = IF l.rw = "read" THEN brd_pages
           ELSE [brd_pages EXCEPT ![idx(s)].data[offset(s)] =
                   IF l.rw = "write" THEN l.value ELSE 0]
      /\ IF l.i + 1 = l.upto THEN advance(p, l2, l.upto)
         ELSE io' = [io EXCEPT ![p] = [l2 EXCEPT !.i = @ + 1]] /\ UNCHANGED pc
      /\ UNCHANGED <<brd_lock, allocated, failed>>

Next ==
  \E p \in Procs :
    \/ Open(p) \/ Close(p) \/ BLKFLSBUF(p)
    \/ \E b \in Bios, v \in Values : StartBio(p, b, v)
    \/ LookupFails(p)
    \/ SetupFinds(p) \/ Allocate(p) \/ AllocateFails(p)
    \/ Insert(p) \/ SetIndex(p) \/ InsertLoses(p)
    \/ CopyFinds(p) \/ CopyMisses(p) \/ CopySector(p) \/ EndBio(p)

Spec == Init /\ [][Next]_vars
-------------------------------------------------------------------------------
\* No page is lost or freed twice: those alloc_page has given are in the tree, or
\* with a process on its way to insert one, also when two processes insert the
\* same page or a bio is given up.
PagesAccounted ==
  allocated = Cardinality(pages_in_tree)
            + Cardinality({p \in Procs : pc[p] = "insert"})

\* The sectors a process has done: those before its segment, and, past the setup,
\* those of the segment before the one it is at.
done_by(p) ==
  IF io[p].bio = {} THEN {}
  ELSE LET before == IF pc[p] \in {"setup", "insert", "index", "bug_setup"}
                     THEN io[p].sector ELSE here(p)
       IN  {s \in UNION {sectors_of(b) : b \in io[p].bio} : s < before}

\* What the disk holds, a sector without a page being zeroes, and what each process
\* has done of its bio.
content == [s \in Sector |-> IF brd_pages[idx(s)] = NoPage THEN 0
                             ELSE brd_pages[idx(s)].data[offset(s)]]
doing   == [p \in Procs |-> [bio |-> io[p].bio, value |-> io[p].value,
                             done |-> done_by(p), buf |-> io[p].buf]]

Disk == INSTANCE SectorStore WITH SectorsOf <- sectors_of

\* Without a lock around the bios every sector is still read or written once, at
\* some moment of its bio: pages that appear, race to be inserted, or are missing
\* do not lose or invent a sector.  A discard clears what sectors_of says.  With
\* separate opens a flush never empties the disk under a bio.
ImplementsSectorStore == Disk!Spec

stopped(p) == pc[p] \in {"bug_setup", "bug_find"}

\* With separate opens, of the asserts on pages only the one on a page's index can
\* fail, and only while another process is between inserting that page and setting
\* its index: a write never misses a page it has set up, and a flush finds every
\* page under its index.
StopsOnlyInWindow ==
  [][\A p \in Procs :
       /\ (~stopped(p) /\ stopped(p)') =>
            \E q \in Procs : pc[q] = "index" /\ idx(here(q)) = idx(here(p))
       /\ pc'[p] # "bug_flush"]_vars
===============================================================================
