---------------------------- MODULE SyncStoreProofs ----------------------------
(***************************************************************************)
(* Proofs about SyncStore, for any processes, disk, values and bios: the  *)
(* pages are accounted for, a process stops only in the window between    *)
(* another's insertion of a page and the setting of its index, and every  *)
(* bio is served as SectorStore says, although nothing serialises them.   *)
(*                                                                         *)
(* The invariant says of each process what its locals and the pages in    *)
(* the tree have to do with one another where it is.  What a process      *)
(* relies on is not disturbed by the steps of the others: only BLKFLSBUF  *)
(* takes pages out of the tree, and with separate opens no other process  *)
(* is then in a bio.  What is proved of a shared open file too is that    *)
(* the pages are accounted for.                                           *)
(***************************************************************************)
EXTENDS SyncStore, NumberLemmas, FiniteSetTheorems

PageNumber == 0 .. (PAGES - 1)
Page == [data : [0 .. (PAGE_SECTORS - 1) -> Values], indexed : BOOLEAN]

Setup   == {"setup", "insert", "index"}
Serving == Setup \cup {"find", "copy", "done", "bug_setup", "bug_find", "freed"}

\* The sectors of the segment that the setup has passed: all, once it is over.
set_up_to(l, c) == IF c \in Setup THEN l.i ELSE Head(l.lens)

\* The locals of a process that is at c in the bio b, when the pages of the tree
\* have the numbers T.
ServingOK(l, c, T, b) ==
  /\ c \in Serving
  /\ l = [bio |-> {b}, value |-> l.value, buf |-> l.buf, rw |-> b.rw,
          sector |-> l.sector, lens |-> l.lens, i |-> l.i, upto |-> l.upto]
  /\ l.value \in Values
  /\ l.sector \in Nat /\ l.i \in Nat /\ l.lens \in Seq(Nat \ {0}) /\ l.lens # <<>>
  /\ first_of(b) \in Nat /\ first_of(b) <= l.sector
  /\ l.sector + bi_size(l.lens) = first_of(b) + bi_size(lens_of(b))
  /\ first_of(b) + bi_size(lens_of(b)) <= PAGES * PAGE_SECTORS
  /\ IF c = "done" THEN l.i = Head(l.lens) /\ Len(l.lens) = 1 ELSE l.i < Head(l.lens)
  /\ c \in Setup => b.rw = "write"
  /\ c = "index" => idx(l.sector + l.i) \in T
  /\ c = "copy" => /\ l.upto \in Nat /\ l.i < l.upto /\ l.upto <= Head(l.lens)
                   /\ \A s \in (l.sector + l.i) .. (l.sector + l.upto - 1) :
                        idx(s) = idx(l.sector + l.i)
                   /\ idx(l.sector + l.i) \in T
  /\ (~SharedOpen /\ b.rw = "write" /\ c \in Setup \cup {"find", "copy"}) =>
       \A s \in l.sector .. (l.sector + set_up_to(l, c) - 1) : idx(s) \in T

\* The locals of a process that is at c, in a bio or not.
LocalOK(l, c, T) ==
  \/ c \in {"closed", "open", "bug_flush"} /\ l = no_io
  \/ \E b \in Bios : ServingOK(l, c, T, b)

PagesOK ==
  /\ brd_pages \in [PageNumber -> {NoPage} \cup Page]
  /\ \A x \in pages_in_tree : ~brd_pages[x].indexed =>
       \E q \in Procs : pc[q] = "index" /\ idx(here(q)) = x

\* brd_lock is held by the one process that sets the index of a page.
LockOK ==
  /\ brd_lock = {q \in Procs : pc[q] = "index"}
  /\ \A q, r \in brd_lock : q = r

IInv ==
  /\ PagesOK /\ LockOK
  /\ DOMAIN io = Procs /\ DOMAIN pc = Procs
  /\ io = [p \in Procs |-> io[p]] /\ pc = [p \in Procs |-> pc[p]]
  /\ \A p \in Procs : LocalOK(io[p], pc[p], pages_in_tree)
  /\ PagesAccounted
-------------------------------------------------------------------------------
(* The disk and the segments.                                              *)

\* A sector of the disk lies in a page of the disk.
LEMMA SectorInPage ==
  ASSUME NEW s \in Nat, s < PAGES * PAGE_SECTORS
  PROVE  idx(s) \in PageNumber /\ offset(s) \in 0 .. (PAGE_SECTORS - 1)
<1>1. /\ s \div PAGE_SECTORS \in Nat /\ s % PAGE_SECTORS \in 0 .. (PAGE_SECTORS - 1)
      /\ s \div PAGE_SECTORS < PAGES
  BY SizesAssumption, Division, QuotientBelow
<1> QED BY <1>1, SizesAssumption DEF idx, offset, PageNumber

\* The part of a segment in the page at hand is not empty, not longer than what is
\* left of the segment, and does lie in that page.
LEMMA PartInPage ==
  ASSUME NEW p, io[p].sector \in Nat, io[p].i \in Nat, Head(io[p].lens) \in Nat,
         io[p].i < Head(io[p].lens)
  PROVE  /\ end_of_part(p) \in Nat
         /\ io[p].i < end_of_part(p) /\ end_of_part(p) <= Head(io[p].lens)
         /\ \A s \in here(p) .. (io[p].sector + end_of_part(p) - 1) : idx(s) = idx(here(p))
<1> DEFINE h == here(p)
           n == PAGE_SECTORS
           q == h \div n
           r == h % n
           e == end_of_part(p)
<1>0. n \in Nat \ {0} /\ h \in Nat /\ h = io[p].sector + io[p].i
  BY SizesAssumption DEF here
<1>1. q \in Nat /\ r \in 0 .. (n - 1) /\ h = n * q + r
  <2> HIDE DEF h, n
  <2> QED BY <1>0, Division
<1>2. e \in Nat /\ io[p].i < e /\ e <= Head(io[p].lens) /\ e <= io[p].i + (n - r)
  <2>1. e = io[p].i + (IF Head(io[p].lens) - io[p].i < n - r
                       THEN Head(io[p].lens) - io[p].i ELSE n - r)
    BY DEF end_of_part, offset
  <2> HIDE DEF r, n, e
  <2> QED BY <1>0, <1>1, <2>1
<1> HIDE DEF e, r, q, h, n
<1>3. ASSUME NEW s \in h .. (io[p].sector + e - 1) PROVE s \div n = q
  <2> DEFINE o == s - n * q
  <2>0. n * q \in Nat
    BY <1>0, <1>1
  <2>1. o \in 0 .. (n - 1) /\ s = n * q + o
    BY <1>0, <1>1, <1>2, <2>0
  <2> HIDE DEF o
  <2>3. n \in Nat \ {0} /\ q \in Int /\ o \in 0 .. (n - 1)
    BY <1>0, <1>1, <2>1
  <2>2. (n * q + o) \div n = q
    BY <2>3, DivisionUnique
  <2> QED BY <2>1, <2>2
<1> QED BY <1>2, <1>3 DEF idx, h, e, q, n

\* The segments of a bio in service: the one at hand lies on the disk, and the
\* others follow it.
LEMMA SegmentAtHand ==
  ASSUME NEW l, NEW c, NEW T, NEW b, ServingOK(l, c, T, b)
  PROVE  /\ Head(l.lens) \in Nat \ {0} /\ l.i <= Head(l.lens)
         /\ l.sector + Head(l.lens) <= first_of(b) + bi_size(lens_of(b))
         /\ l.sector + Head(l.lens) <= PAGES * PAGE_SECTORS
         /\ Len(l.lens) = 1 => bi_size(l.lens) = Head(l.lens)
         /\ Len(l.lens) > 1 => /\ Tail(l.lens) \in Seq(Nat \ {0}) /\ Tail(l.lens) # <<>>
                               /\ bi_size(Tail(l.lens)) \in Nat
                               /\ bi_size(l.lens) = Head(l.lens) + bi_size(Tail(l.lens))
<1> DEFINE lens == l.lens
           h == Head(lens)
           z == bi_size(lens)
           m == PAGES * PAGE_SECTORS
<1>1. lens \in Seq(Nat \ {0}) /\ lens # <<>> /\ l.sector \in Nat /\ l.i \in Nat
  BY DEF ServingOK
<1>2. /\ h \in Nat \ {0} /\ z \in Nat /\ h <= z
      /\ Len(lens) = 1 => z = h
      /\ Len(lens) > 1 => /\ Tail(lens) \in Seq(Nat \ {0}) /\ Tail(lens) # <<>>
                          /\ bi_size(Tail(lens)) \in Nat
                          /\ z = h + bi_size(Tail(lens))
  BY <1>1, FirstSegment
<1>3. l.i <= h
  <2>1. IF c = "done" THEN l.i = h ELSE l.i < h
    BY DEF ServingOK
  <2> HIDE DEF h
  <2> QED BY <1>1, <1>2, <2>1
<1>4. /\ l.sector + z = first_of(b) + bi_size(lens_of(b))
      /\ first_of(b) + bi_size(lens_of(b)) <= m
  BY DEF ServingOK
<1>5. m \in Nat
  BY SizesAssumption
<1> HIDE DEF lens, h, z, m
<1>6. l.sector + h <= l.sector + z /\ l.sector + h \in Nat /\ l.sector + z \in Nat
  BY <1>1, <1>2
<1>7. l.sector + h <= m
  <2> DEFINE x == l.sector + h
             y == l.sector + z
  <2>1. x \in Nat /\ y \in Nat /\ x <= y /\ y <= m
    BY <1>4, <1>6
  <2> HIDE DEF x, y
  <2>2. x <= m
    BY <1>5, <2>1
  <2> QED BY <2>2 DEF x
<1>8. l.sector + h <= first_of(b) + bi_size(lens_of(b))
  BY <1>4, <1>6
<1> QED BY <1>2, <1>3, <1>7, <1>8, Zenon DEF lens, h, z, m

\* A process can rely on more pages.
LEMMA LocalMonotone ==
  ASSUME NEW l, NEW c, NEW T, NEW U, T \subseteq U, LocalOK(l, c, T)
  PROVE  LocalOK(l, c, U)
<1>1. ASSUME NEW b \in Bios, ServingOK(l, c, T, b) PROVE ServingOK(l, c, U, b)
  BY <1>1 DEF ServingOK
<1> QED BY <1>1 DEF LocalOK
-------------------------------------------------------------------------------
(* The steps of one process through its bio.                               *)

\* A step that is of p's alone as far as the locals go.
OnlyOf(p) == io' = [io EXCEPT ![p] = io'[p]] /\ pc' = [pc EXCEPT ![p] = pc'[p]]

\* The first sector that a process has not done.
undone_from(l, c) ==
  IF c \in {"setup", "insert", "index", "bug_setup"} THEN l.sector ELSE l.sector + l.i

\* Passing a page in the setup, when the page is there.
LEMMA SetUpLocal ==
  ASSUME NEW p \in Procs, NEW T, NEW U, NEW b, T \subseteq U,
         DOMAIN io = Procs, DOMAIN pc = Procs,
         ServingOK(io[p], pc[p], T, b), pc[p] \in Setup, idx(here(p)) \in U,
         set_up(p)
  PROVE  /\ OnlyOf(p)
         /\ ServingOK(io'[p], pc'[p], U, b) /\ pc'[p] \in {"setup", "find"}
         /\ io'[p].buf = io[p].buf /\ io'[p].value = io[p].value
         /\ undone_from(io'[p], pc'[p]) = undone_from(io[p], pc[p])
<1> DEFINE l == io[p]
           e == end_of_part(p)
           done == e = Head(l.lens)
           j == IF done THEN 0 ELSE e
           c == IF done THEN "find" ELSE "setup"
<1>1. /\ l.sector \in Nat /\ l.i \in Nat /\ l.i < Head(l.lens)
      /\ Head(l.lens) \in Nat \ {0} /\ b.rw = "write"
  BY SegmentAtHand DEF ServingOK, Setup
<1>2. /\ e \in Nat /\ l.i < e /\ e <= Head(l.lens)
      /\ \A s \in here(p) .. (l.sector + e - 1) : idx(s) = idx(here(p))
  BY <1>1, PartInPage
<1>3. io' = [io EXCEPT ![p].i = j] /\ pc' = [pc EXCEPT ![p] = c]
  BY DEF set_up, goto
<1>4. ~SharedOpen => \A s \in l.sector .. (l.sector + e - 1) : idx(s) \in U
  <2> SUFFICES ASSUME ~SharedOpen
               PROVE  \A s \in l.sector .. (l.sector + e - 1) : idx(s) \in U
    OBVIOUS
  <2>1. ASSUME NEW s \in l.sector .. (l.sector + e - 1), s < here(p) PROVE idx(s) \in U
    <3>1. s \in l.sector .. (l.sector + l.i - 1)
      BY <1>1, <2>1 DEF here
    <3> QED BY <3>1 DEF ServingOK, set_up_to, Setup
  <2>2. ASSUME NEW s \in l.sector .. (l.sector + e - 1), ~(s < here(p)) PROVE idx(s) \in U
    <3>1. s \in here(p) .. (l.sector + e - 1)
      BY <1>1, <1>2, <2>2 DEF here
    <3> QED BY <1>2, <3>1
  <2> QED BY <2>1, <2>2
<1>5. j \in Nat /\ j < Head(l.lens)
  BY <1>1, <1>2
<1>6. io'[p] = [l EXCEPT !.i = j] /\ pc'[p] = c
  BY <1>3
<1>7. io' = [io EXCEPT ![p] = io'[p]]
  BY <1>3
<1>8. ~SharedOpen =>
        \A s \in l.sector .. (l.sector + (IF c \in Setup THEN j ELSE Head(l.lens)) - 1) :
          idx(s) \in U
  BY <1>4 DEF Setup
<1> DEFINE m == io'[p]
<1>9. /\ m = [bio |-> {b}, value |-> l.value, buf |-> l.buf, rw |-> b.rw,
              sector |-> l.sector, lens |-> l.lens, i |-> j, upto |-> l.upto]
      /\ m.sector = l.sector /\ m.lens = l.lens /\ m.i = j /\ m.upto = l.upto
      /\ m.value = l.value /\ m.buf = l.buf
  <2>1. l = [bio |-> {b}, value |-> l.value, buf |-> l.buf, rw |-> b.rw,
             sector |-> l.sector, lens |-> l.lens, i |-> l.i, upto |-> l.upto]
    BY DEF ServingOK
  <2> QED BY <1>6, <2>1
<1>10. ServingOK(m, c, U, b)
  <2>1. /\ l.value \in Values /\ l.lens \in Seq(Nat \ {0}) /\ l.lens # <<>>
        /\ first_of(b) \in Nat /\ first_of(b) <= l.sector
        /\ l.sector + bi_size(l.lens) = first_of(b) + bi_size(lens_of(b))
        /\ first_of(b) + bi_size(lens_of(b)) <= PAGES * PAGE_SECTORS
    BY DEF ServingOK
  <2>2. c \in Setup \cup {"find"} /\ c \in Serving /\ c # "done" /\ c # "copy" /\ c # "index"
    BY DEF Setup, Serving
  <2> HIDE DEF m, c, j, l
  <2> QED BY <1>1, <1>5, <1>8, <1>9, <2>1, <2>2 DEF ServingOK, set_up_to
<1>11. undone_from(m, c) = undone_from(l, pc[p])
  <2>1. undone_from(l, pc[p]) = l.sector
    BY DEF undone_from, Setup
  <2>2. c = "find" => j = 0
    OBVIOUS
  <2>3. c \in {"find", "setup"}
    OBVIOUS
  <2> HIDE DEF m, c, j, l
  <2> QED BY <1>1, <1>9, <2>1, <2>2, <2>3 DEF undone_from
<1> QED BY <1>3, <1>6, <1>7, <1>9, <1>10, <1>11 DEF OnlyOf

\* Finishing a part of a segment: within the segment, at its end, at the bio's.
LEMMA AdvanceLocal ==
  ASSUME NEW p \in Procs, NEW T, NEW b, DOMAIN io = Procs, DOMAIN pc = Procs,
         ServingOK(io[p], pc[p], T, b), pc[p] \in {"find", "copy"},
         NEW buf, NEW j \in Nat, io[p].i < j, j <= Head(io[p].lens),
         advance(p, [io[p] EXCEPT !.buf = buf], j)
  PROVE  /\ OnlyOf(p)
         /\ ServingOK(io'[p], pc'[p], T, b) /\ pc'[p] \in {"setup", "find", "done"}
         /\ io'[p].buf = buf /\ io'[p].value = io[p].value
         /\ undone_from(io'[p], pc'[p]) = io[p].sector + j
<1> DEFINE k == io[p]
           l == [io[p] EXCEPT !.buf = buf]
           h == Head(k.lens)
           m == io'[p]
<1>1. k = [bio |-> {b}, value |-> k.value, buf |-> k.buf, rw |-> b.rw,
           sector |-> k.sector, lens |-> k.lens, i |-> k.i, upto |-> k.upto]
  BY DEF ServingOK
<1>2. l = [bio |-> {b}, value |-> k.value, buf |-> buf, rw |-> b.rw,
           sector |-> k.sector, lens |-> k.lens, i |-> k.i, upto |-> k.upto]
  BY <1>1
<1>8. l.value = k.value /\ l.rw = b.rw /\ l.sector = k.sector /\ l.lens = k.lens
  BY <1>2
<1>9. advance(p, l, j)
  OBVIOUS
<1> HIDE DEF l
<1>3. /\ k.sector \in Nat /\ k.i \in Nat /\ h \in Nat \ {0} /\ k.i < h
      /\ k.value \in Values /\ k.lens \in Seq(Nat \ {0}) /\ k.lens # <<>>
  BY SegmentAtHand DEF ServingOK
<1>6. /\ first_of(b) \in Nat /\ first_of(b) <= k.sector
      /\ k.sector + bi_size(k.lens) = first_of(b) + bi_size(lens_of(b))
  BY DEF ServingOK
<1>7. first_of(b) + bi_size(lens_of(b)) <= PAGES * PAGE_SECTORS
  BY DEF ServingOK
<1>4. CASE j = h /\ Len(l.lens) > 1
  <2> DEFINE c == first_pass(b.rw)
  <2>1. /\ io' = [io EXCEPT ![p] = [l EXCEPT !.i = 0, !.upto = 0, !.lens = Tail(@),
                                             !.sector = @ + Head(l.lens)]]
        /\ pc' = [pc EXCEPT ![p] = c]
    BY <1>8, <1>9, <1>4 DEF advance, goto
  <2>2. pc'[p] = c
    BY <2>1
  <2>3. /\ m = [bio |-> {b}, value |-> k.value, buf |-> buf, rw |-> b.rw,
                sector |-> k.sector + h, lens |-> Tail(k.lens), i |-> 0, upto |-> 0]
        /\ m.sector = k.sector + h /\ m.lens = Tail(k.lens) /\ m.i = 0 /\ m.upto = 0
        /\ m.value = k.value /\ m.buf = buf
    <3>1. m = [l EXCEPT !.i = 0, !.upto = 0, !.lens = Tail(@), !.sector = @ + Head(l.lens)]
      BY <2>1
    <3> HIDE DEF m, k, h
    <3>2. m = [bio |-> {b}, value |-> k.value, buf |-> buf, rw |-> b.rw,
               sector |-> k.sector + Head(l.lens), lens |-> Tail(l.lens), i |-> 0, upto |-> 0]
      BY <1>2, <3>1
    <3>3. Head(l.lens) = h /\ Tail(l.lens) = Tail(k.lens)
      BY <1>8 DEF h
    <3> QED BY <3>2, <3>3
  <2>4. OnlyOf(p)
    BY <2>1 DEF OnlyOf
  <2>5. /\ Tail(k.lens) \in Seq(Nat \ {0}) /\ Tail(k.lens) # <<>>
        /\ bi_size(Tail(k.lens)) \in Nat
        /\ bi_size(k.lens) = h + bi_size(Tail(k.lens))
    BY <1>8, <1>4, SegmentAtHand
  <2>6. Head(Tail(k.lens)) \in Nat \ {0}
    BY <2>5
  <2>7. /\ k.sector + h \in Nat /\ first_of(b) <= k.sector + h
        /\ k.sector + h + bi_size(Tail(k.lens)) = first_of(b) + bi_size(lens_of(b))
    <3> DEFINE x == k.sector
               y == bi_size(Tail(k.lens))
               z == bi_size(k.lens)
    <3>1. x \in Nat /\ h \in Nat /\ y \in Nat /\ z = h + y
      BY <1>3, <2>5
    <3>2. first_of(b) \in Nat /\ first_of(b) <= x /\ x + z = first_of(b) + bi_size(lens_of(b))
      BY <1>6
    <3> HIDE DEF x, y, z, h
    <3>3. x + h \in Nat /\ first_of(b) <= x + h /\ x + h + y = x + z
      BY <3>1, <3>2
    <3> QED BY <3>2, <3>3 DEF x, y
  <2>8. (c = "setup" /\ b.rw = "write") \/ (c = "find" /\ b.rw # "write")
    BY DEF first_pass
  <2> HIDE DEF k, h, m, c
  <2>9. ServingOK(m, c, T, b)
    <3>1. c \in Serving /\ c # "done" /\ c # "copy" /\ c # "index"
      BY <2>8 DEF Serving, Setup
    <3>2. b.rw = "write" => set_up_to(m, c) = 0
      BY <2>3, <2>8 DEF set_up_to, Setup
    <3>3. b.rw = "write" => \A s \in m.sector .. (m.sector + set_up_to(m, c) - 1) : idx(s) \in T
      BY <2>3, <2>7, <3>2
    <3>4. c \in Setup => b.rw = "write"
      BY <2>8 DEF Setup
    <3>5. m.value \in Values /\ m.i < Head(m.lens)
      <4>1. m.value = k.value /\ m.i = 0 /\ m.lens = Tail(k.lens)
        BY <2>3
      <4>2. 0 < Head(Tail(k.lens))
        BY <2>6, Positive
      <4> QED BY <1>3, <4>1, <4>2
    <3> QED BY <1>6, <1>7, <2>3, <2>5, <2>7, <3>1, <3>3, <3>4, <3>5 DEF ServingOK
  <2>10. undone_from(m, c) = k.sector + j
    BY <1>3, <1>4, <2>3, <2>7, <2>8 DEF undone_from, h
  <2> QED BY <2>2, <2>3, <2>4, <2>8, <2>9, <2>10 DEF m, k
<1>5. CASE ~(j = h /\ Len(l.lens) > 1)
  <2> DEFINE c == IF j = h THEN "done" ELSE "find"
  <2>1. /\ io' = [io EXCEPT ![p] = [l EXCEPT !.i = j, !.upto = 0]]
        /\ pc' = [pc EXCEPT ![p] = c]
    BY <1>8, <1>9, <1>5 DEF advance, goto
  <2>2. pc'[p] = c
    BY <2>1
  <2>3. /\ m = [bio |-> {b}, value |-> k.value, buf |-> buf, rw |-> b.rw,
                sector |-> k.sector, lens |-> k.lens, i |-> j, upto |-> 0]
        /\ m.sector = k.sector /\ m.lens = k.lens /\ m.i = j /\ m.upto = 0
        /\ m.value = k.value /\ m.buf = buf
    <3>1. m = [l EXCEPT !.i = j, !.upto = 0]
      BY <2>1
    <3> HIDE DEF m, k
    <3>2. m = [bio |-> {b}, value |-> k.value, buf |-> buf, rw |-> b.rw,
               sector |-> k.sector, lens |-> k.lens, i |-> j, upto |-> 0]
      BY <1>2, <3>1
    <3> QED BY <3>2
  <2>4. OnlyOf(p)
    BY <2>1 DEF OnlyOf
  <2>5. c = "done" => Len(k.lens) = 1
    <3>1. Len(k.lens) \in Nat \ {0}
      BY <1>3, EmptySeq
    <3>2. l.lens = k.lens
      BY <1>8
    <3>3. c = "done" => j = h
      OBVIOUS
    <3>4. ASSUME j = h PROVE ~(Len(k.lens) > 1)
      BY <1>5, <3>2, <3>4
    <3> HIDE DEF k, c, h
    <3>5. ~(Len(k.lens) > 1) => Len(k.lens) = 1
      BY <3>1, Positive
    <3> QED BY <3>3, <3>4, <3>5
  <2>6. (~SharedOpen /\ b.rw = "write") =>
          \A s \in k.sector .. (k.sector + h - 1) : idx(s) \in T
    BY DEF ServingOK, set_up_to, Setup
  <2>7. c \in {"done", "find"} /\ (c = "done" <=> j = h)
    OBVIOUS
  <2> HIDE DEF k, m, c
  <2>8. ServingOK(m, c, T, b)
    <3>1. c \in Serving /\ c # "copy" /\ c \notin Setup
      BY <2>7 DEF Serving, Setup
    <3>2. IF c = "done" THEN m.i = Head(m.lens) /\ Len(m.lens) = 1 ELSE m.i < Head(m.lens)
      <4>1. j < h \/ j = h
        BY <1>3 DEF k
      <4> HIDE DEF h
      <4>2. m.i = j /\ Head(m.lens) = h /\ m.lens = k.lens
        BY <2>3 DEF h
      <4> QED BY <2>5, <2>7, <4>1, <4>2
    <3>3. (~SharedOpen /\ b.rw = "write" /\ c \in Setup \cup {"find", "copy"}) =>
            \A s \in m.sector .. (m.sector + set_up_to(m, c) - 1) : idx(s) \in T
      BY <2>3, <2>6, <3>1 DEF set_up_to, h
    <3>4. c \notin {"index", "copy"} /\ c \notin Setup
      BY <2>7 DEF Setup
    <3> QED BY <1>3, <1>6, <1>7, <2>3, <3>1, <3>2, <3>3, <3>4 DEF ServingOK
  <2>9. undone_from(m, c) = k.sector + j
    BY <2>3, <2>7 DEF undone_from
  <2> QED BY <2>2, <2>3, <2>4, <2>7, <2>8, <2>9 DEF m, k
<1> QED BY <1>4, <1>5

\* The sectors a bio does are no more than it names, from no later on than the page
\* that its first one is in.
LEMMA BioLens ==
  ASSUME NEW b \in Bios
  PROVE  /\ first_of(b) \in Nat /\ lens_of(b) \in Seq(Nat) /\ lens_of(b) # <<>>
         /\ bi_size(lens_of(b)) \in Nat
         /\ b.first \in Nat /\ bi_size(b.lens) \in Nat \ {0}
         /\ first_of(b) <= b.first /\ bi_size(lens_of(b)) <= bi_size(b.lens)
<1> DEFINE n == PAGE_SECTORS
           h == Head(b.lens)
           z == bi_size(b.lens)
<1>1. /\ b.first \in Nat /\ b.lens \in Seq(Nat \ {0}) /\ b.lens # <<>>
      /\ b.rw = "discard" => Len(b.lens) = 1
  BY BiosAssumption
<1>2. /\ h \in Nat \ {0} /\ z \in Nat /\ h <= z
      /\ Len(b.lens) = 1 => z = h
  BY <1>1, FirstSegment
<1>3. z \in Nat \ {0}
  <2> HIDE DEF h, z
  <2> QED BY <1>2
<1>4. CASE b.rw # "discard"
  <2>1. first_of(b) = b.first /\ lens_of(b) = b.lens
    BY <1>4 DEF first_of, lens_of
  <2> QED BY <1>1, <1>3, <2>1
<1>5. CASE b.rw = "discard"
  <2> DEFINE k == n * (h \div n)
             lens == <<k>>
  <2>1. /\ b.first % n \in 0 .. (n - 1) /\ b.first - (b.first % n) \in Nat
        /\ b.first - (b.first % n) <= b.first
    <3> DEFINE f == b.first
               q == f \div n
               r == f % n
    <3>1. n \in Nat \ {0} /\ f \in Nat
      BY <1>1, SizesAssumption
    <3>2. q \in Nat /\ r \in 0 .. (n - 1) /\ f = n * q + r
      <4> HIDE DEF f, n
      <4> QED BY <3>1, Division
    <3>3. n * q \in Nat
      BY <3>1, <3>2
    <3> HIDE DEF f, q, r, n
    <3>4. r \in 0 .. (n - 1) /\ f - r \in Nat /\ f - r <= f
      BY <3>1, <3>2, <3>3
    <3> QED BY <3>4 DEF f, r
  <2>2. k \in Nat /\ k <= h
    <3>1. n \in Nat \ {0} /\ h \in Nat
      BY <1>2, SizesAssumption
    <3> HIDE DEF h, n
    <3>2. h \div n \in Nat /\ n * (h \div n) <= h
      BY <3>1, QuotientBounds
    <3> QED BY <3>1, <3>2
  <2>3. first_of(b) = b.first - (b.first % n) /\ lens_of(b) = lens
    BY <1>5 DEF first_of, lens_of, offset, idx
  <2> HIDE DEF k, h, z, n
  <2>4. bi_size(lens) = k
    <3>1. /\ lens \in Seq(Nat) /\ lens # <<>> /\ Head(lens) = k /\ Tail(lens) = <<>>
          /\ <<>> \in Seq(Nat)
      BY <2>2
    <3>2. bi_size(<<>>) = 0 /\ bi_size(lens) = Head(lens) + bi_size(Tail(lens))
      BY <3>1, SizeOfSegments
    <3> QED BY <2>2, <3>1, <3>2
  <2>5. lens \in Seq(Nat) /\ lens # <<>>
    BY <2>2
  <2>6. z = h
    BY <1>1, <1>2, <1>5
  <2> HIDE DEF lens
  <2> QED BY <1>1, <1>3, <2>1, <2>2, <2>3, <2>4, <2>5, <2>6 DEF z
<1> QED BY <1>4, <1>5

\* A bio that begins has sectors to do, in segments, and they are the disk's.
LEMMA BioBegins ==
  ASSUME NEW b \in Bios, range(b) \subseteq Sector, sectors_of(b) # {}
  PROVE  /\ lens_of(b) \in Seq(Nat \ {0}) /\ lens_of(b) # <<>>
         /\ first_of(b) + bi_size(lens_of(b)) <= PAGES * PAGE_SECTORS
<1> DEFINE m == PAGES * PAGE_SECTORS
           f == first_of(b)
           s == bi_size(lens_of(b))
           z == bi_size(b.lens)
<1>1. f \in Nat /\ s \in Nat /\ b.first \in Nat /\ z \in Nat \ {0} /\ f <= b.first /\ s <= z
  BY BioLens
<1>2. m \in Nat
  BY SizesAssumption
<1>3. b.first .. (b.first + z - 1) \subseteq 0 .. (m - 1)
  BY DEF range, Sector
<1>4. s # 0
  <2> SUFFICES ASSUME s = 0 PROVE FALSE
    OBVIOUS
  <2>1. sectors_of(b) = f .. (f + s - 1)
    BY DEF sectors_of
  <2> HIDE DEF f, s
  <2>2. f .. (f + s - 1) = {}
    BY <1>1
  <2> QED BY <2>1, <2>2
<1>5. f + s <= m
  <2> HIDE DEF f, s, z, m
  <2>1. b.first + z - 1 \in b.first .. (b.first + z - 1)
    BY <1>1
  <2>2. b.first + z - 1 \in 0 .. (m - 1)
    BY <1>3, <2>1
  <2> QED BY <1>1, <1>2, <2>2
<1>6. lens_of(b) \in Seq(Nat \ {0})
  <2>1. CASE b.rw # "discard"
    <3>1. lens_of(b) = b.lens
      BY <2>1 DEF lens_of
    <3> QED BY <3>1, BiosAssumption
  <2>2. CASE b.rw = "discard"
    <3> DEFINE k == PAGE_SECTORS * idx(Head(b.lens))
    <3>1. lens_of(b) = <<k>>
      BY <2>2 DEF lens_of
    <3> HIDE DEF k
    <3>2. k \in Nat /\ Head(<<k>>) = k /\ Tail(<<k>>) = <<>>
      <4>1. <<k>> \in Seq(Nat)
        BY <3>1, BioLens
      <4>2. k = <<k>>[1]
        OBVIOUS
      <4> QED BY <4>1, <4>2
    <3>3. <<k>> \in Seq(Nat) /\ <<k>> # <<>> /\ <<>> \in Seq(Nat)
      BY <3>2
    <3>4. bi_size(<<>>) = 0 /\ bi_size(<<k>>) = k + bi_size(<<>>)
      BY <3>2, <3>3, SizeOfSegments
    <3>5. k # 0
      BY <1>4, <3>1, <3>2, <3>4
    <3> QED BY <3>1, <3>2, <3>5
  <2> QED BY <2>1, <2>2
<1> QED BY <1>5, <1>6, BioLens

\* Where a bio begins.
LEMMA StartLocal ==
  ASSUME NEW p \in Procs, NEW b \in Bios, NEW v \in Values, NEW T,
         DOMAIN io = Procs, DOMAIN pc = Procs, StartBio(p, b, v)
  PROVE  /\ OnlyOf(p) /\ pc'[p] = first_pass(b.rw)
         /\ ServingOK(io'[p], pc'[p], T, b)
         /\ io'[p].buf = <<>> /\ io'[p].value = (IF b.rw = "write" THEN v ELSE 0)
         /\ undone_from(io'[p], pc'[p]) = first_of(b)
<1> DEFINE m == io'[p]
           c == first_pass(b.rw)
           w == IF b.rw = "write" THEN v ELSE 0
           n == PAGES * PAGE_SECTORS
<1>1. pc' = [pc EXCEPT ![p] = c] /\ pc'[p] = c
  BY DEF StartBio, goto
<1>2. io' = [io EXCEPT ![p] = [no_io EXCEPT !.bio = {b}, !.rw = b.rw, !.value = w,
                                            !.sector = first_of(b), !.lens = lens_of(b)]]
  BY DEF StartBio
<1>3. /\ m = [bio |-> {b}, value |-> w, buf |-> <<>>, rw |-> b.rw,
              sector |-> first_of(b), lens |-> lens_of(b), i |-> 0, upto |-> 0]
  BY <1>2 DEF no_io
<1>4. OnlyOf(p)
  BY <1>1, <1>2 DEF OnlyOf
<1>5. m.value = w /\ m.sector = first_of(b) /\ m.lens = lens_of(b) /\ m.i = 0 /\ m.buf = <<>>
  BY <1>3
<1>6. lens_of(b) \in Seq(Nat \ {0}) /\ lens_of(b) # <<>> /\ first_of(b) \in Nat
  BY BioBegins, BioLens DEF StartBio
<1>7. /\ Head(lens_of(b)) \in Nat \ {0} /\ bi_size(lens_of(b)) \in Nat
      /\ Head(lens_of(b)) <= bi_size(lens_of(b))
  <2>1. lens_of(b) \in Seq(Nat)
    BY <1>6
  <2>2. /\ bi_size(lens_of(b)) \in Nat /\ bi_size(Tail(lens_of(b))) \in Nat
        /\ bi_size(lens_of(b)) = Head(lens_of(b)) + bi_size(Tail(lens_of(b)))
    BY <1>6, <2>1, SizeOfSegments
  <2>3. Head(lens_of(b)) \in Nat \ {0}
    BY <1>6
  <2> DEFINE x == Head(lens_of(b))
             y == bi_size(Tail(lens_of(b)))
  <2> HIDE DEF x, y
  <2>4. x <= x + y
    BY <2>2, <2>3 DEF x, y
  <2> QED BY <2>2, <2>3, <2>4 DEF x, y
<1>8. first_of(b) + bi_size(lens_of(b)) <= n
  BY BioBegins DEF StartBio
<1>9. w \in Values
  BY SizesAssumption
<1>10. (c = "setup" /\ b.rw = "write") \/ (c = "find" /\ b.rw # "write")
  BY DEF first_pass
<1> HIDE DEF m, c, w
<1>11. ServingOK(m, c, T, b)
  <2>1. c \in Serving /\ c # "done" /\ c # "copy" /\ c # "index"
    BY <1>10 DEF Serving, Setup
  <2>2. m.i < Head(m.lens)
    BY <1>5, <1>7, Positive
  <2>3. b.rw = "write" => set_up_to(m, c) = 0
    BY <1>5, <1>10 DEF set_up_to, Setup
  <2>4. b.rw = "write" => \A s \in m.sector .. (m.sector + set_up_to(m, c) - 1) : idx(s) \in T
    BY <1>5, <1>6, <2>3
  <2>5. c \in Setup => b.rw = "write"
    BY <1>10 DEF Setup
  <2>6. first_of(b) <= m.sector /\ m.sector \in Nat /\ m.i \in Nat
    BY <1>5, <1>6
  <2> QED BY <1>3, <1>5, <1>6, <1>8, <1>9, <2>1, <2>2, <2>4, <2>5, <2>6 DEF ServingOK
<1>12. undone_from(m, c) = first_of(b)
  BY <1>5, <1>6, <1>10 DEF undone_from
<1> QED BY <1>1, <1>4, <1>5, <1>11, <1>12 DEF m, c, w
-------------------------------------------------------------------------------
(* Pages and processes, counted.                                           *)

inserting == {q \in Procs : pc[q] = "insert"}

\* A page is not NoPage, whatever it holds, and a new one is a page.
LEMMA PagesArePages ==
  /\ \A g \in Page : g # NoPage
  /\ \A indexed \in BOOLEAN : new_page(indexed) \in Page
<1>1. ASSUME NEW g \in Page PROVE g # NoPage
  <2>1. DOMAIN g = {"data", "indexed"}
    BY DEF Page
  <2>2. DOMAIN NoPage = {}
    BY DEF NoPage
  <2> QED BY <2>1, <2>2
<1>2. ASSUME NEW indexed \in BOOLEAN PROVE new_page(indexed) \in Page
  BY SizesAssumption DEF new_page, Page
<1> QED BY <1>1, <1>2

\* The tree has finitely many pages.
LEMMA TreeFinite ==
  ASSUME PagesOK
  PROVE  /\ pages_in_tree \subseteq PageNumber
         /\ IsFiniteSet(pages_in_tree) /\ Cardinality(pages_in_tree) \in Nat
<1>1. pages_in_tree \subseteq PageNumber
  BY DEF PagesOK, pages_in_tree
<1>2. IsFiniteSet(PageNumber)
  BY FS_Interval, SizesAssumption DEF PageNumber
<1> QED BY <1>1, <1>2, FS_Subset, FS_CardinalityType

\* A step of one process changes the number of those inserting a page by its own.
LEMMA Inserting ==
  ASSUME NEW p \in Procs, DOMAIN pc = Procs, OnlyOf(p)
  PROVE  /\ Cardinality(inserting) \in Nat /\ Cardinality(inserting') \in Nat
         /\ Cardinality(inserting') = IF pc[p] # "insert" /\ pc'[p] = "insert"
                                        THEN Cardinality(inserting) + 1
                                      ELSE IF pc[p] = "insert" /\ pc'[p] # "insert"
                                        THEN Cardinality(inserting) - 1
                                      ELSE Cardinality(inserting)
<1>1. IsFiniteSet(inserting) /\ IsFiniteSet(inserting')
  BY ProcsAssumption, FS_Subset DEF inserting
<1>2. inserting' = IF pc'[p] = "insert" THEN inserting \cup {p} ELSE inserting \ {p}
  BY DEF inserting, OnlyOf
<1>3. p \in inserting <=> pc[p] = "insert"
  BY DEF inserting
<1>4. Cardinality(inserting) \in Nat /\ Cardinality(inserting') \in Nat
  BY <1>1, FS_CardinalityType
<1> QED BY <1>1, <1>2, <1>3, <1>4, FS_AddElement, FS_RemoveElement

\* The others go on as they were when p takes a step that takes no page away.
LEMMA LocalsPreserved ==
  ASSUME IInv, NEW p \in Procs, OnlyOf(p), pages_in_tree \subseteq pages_in_tree',
         LocalOK(io'[p], pc'[p], pages_in_tree')
  PROVE  /\ (DOMAIN io = Procs /\ DOMAIN pc = Procs)'
         /\ (io = [q \in Procs |-> io[q]] /\ pc = [q \in Procs |-> pc[q]])'
         /\ (\A q \in Procs : LocalOK(io[q], pc[q], pages_in_tree))'
<1>1. ASSUME NEW q \in Procs PROVE LocalOK(io'[q], pc'[q], pages_in_tree')
  <2>1. CASE q = p
    BY <2>1
  <2>2. CASE q # p
    <3>1. io'[q] = io[q] /\ pc'[q] = pc[q]
      BY <2>2 DEF OnlyOf, IInv
    <3>2. LocalOK(io[q], pc[q], pages_in_tree)
      BY DEF IInv
    <3> HIDE DEF pages_in_tree
    <3> QED BY <3>1, <3>2, LocalMonotone
  <2> QED BY <2>1, <2>2
<1> DEFINE l == io'[p]
           c == pc'[p]
<1>2. io' = [io EXCEPT ![p] = l] /\ pc' = [pc EXCEPT ![p] = c]
  BY DEF OnlyOf
<1>3. /\ io = [q \in Procs |-> io[q]] /\ pc = [q \in Procs |-> pc[q]]
      /\ DOMAIN io = Procs /\ DOMAIN pc = Procs
  BY DEF IInv
<1> HIDE DEF l, c
<1>4. DOMAIN io' = Procs /\ DOMAIN pc' = Procs
  BY <1>2, <1>3
<1>5. io' = [q \in Procs |-> io'[q]] /\ pc' = [q \in Procs |-> pc'[q]]
  BY <1>2, <1>3, <1>4
<1> QED BY <1>1, <1>4, <1>5

\* A step of p that puts no page into the tree, takes none out, and has nothing to
\* do with brd_lock.
LEMMA QuietStep ==
  ASSUME IInv, NEW p \in Procs, OnlyOf(p), LocalOK(io'[p], pc'[p], pages_in_tree),
         pc[p] # "index", pc'[p] # "index",
         brd_pages' \in [PageNumber -> {NoPage} \cup Page],
         \A x \in PageNumber : /\ brd_pages'[x] = NoPage <=> brd_pages[x] = NoPage
                               /\ brd_pages[x] # NoPage =>
                                    brd_pages'[x].indexed = brd_pages[x].indexed,
         UNCHANGED brd_lock,
         allocated' = IF pc[p] # "insert" /\ pc'[p] = "insert" THEN allocated + 1
                      ELSE IF pc[p] = "insert" /\ pc'[p] # "insert" THEN allocated - 1
                      ELSE allocated
  PROVE  IInv'
<1>1. PagesOK /\ LockOK /\ DOMAIN pc = Procs /\ DOMAIN io = Procs /\ PagesAccounted
  BY DEF IInv
<1>2. pages_in_tree' = pages_in_tree
  BY <1>1 DEF pages_in_tree, PagesOK
<1>3. \A q \in Procs : pc[q] = "index" => q # p /\ pc'[q] = "index" /\ io'[q] = io[q]
  BY <1>1 DEF OnlyOf
<1>4. PagesOK'
  <2>1. ASSUME NEW x \in pages_in_tree', ~brd_pages'[x].indexed
        PROVE  \E q \in Procs : pc'[q] = "index" /\ idx(here(q)') = x
    <3>1. x \in PageNumber /\ brd_pages[x] # NoPage /\ x \in pages_in_tree
      BY <1>1, <1>2, <2>1 DEF pages_in_tree, PagesOK
    <3>2. PICK q \in Procs : pc[q] = "index" /\ idx(here(q)) = x
      BY <1>1, <2>1, <3>1 DEF PagesOK
    <3>3. pc'[q] = "index" /\ here(q)' = here(q)
      BY <1>3, <3>2 DEF here
    <3> QED BY <3>2, <3>3
  <2> QED BY <2>1 DEF PagesOK, idx
<1>5. LockOK'
  <2>1. \A q \in Procs : pc'[q] = "index" <=> pc[q] = "index"
    BY <1>1 DEF OnlyOf
  <2> QED BY <1>1, <2>1 DEF LockOK
<1>6. PagesAccounted'
  <2>1. allocated = Cardinality(pages_in_tree) + Cardinality(inserting)
    BY <1>1 DEF PagesAccounted, inserting
  <2>2. allocated' = Cardinality(pages_in_tree') + Cardinality(inserting')
    BY <1>1, <1>2, <2>1, Inserting, TreeFinite
  <2> QED BY <2>2 DEF PagesAccounted, inserting
<1>7. LocalOK(io'[p], pc'[p], pages_in_tree')
  BY <1>2
<1> QED BY <1>2, <1>4, <1>5, <1>6, <1>7, LocalsPreserved DEF IInv
-------------------------------------------------------------------------------
(* The invariant: the initial state and the steps, action by action.       *)

\* At first there are no pages and no bios.
LEMMA InitIInv == Init => IInv
<1> SUFFICES ASSUME Init PROVE IInv
  OBVIOUS
<1>1. pages_in_tree = {} /\ \A p \in Procs : pc[p] = "closed" /\ io[p] = no_io
  BY DEF Init, pages_in_tree
<1>2. PagesOK
  BY <1>1 DEF Init, PagesOK, PageNumber
<1>3. LockOK
  BY <1>1 DEF Init, LockOK
<1>4. PagesAccounted
  <2>1. {p \in Procs : pc[p] = "insert"} = {}
    BY <1>1
  <2>2. allocated = 0 /\ Cardinality({}) = 0
    BY FS_EmptySet DEF Init
  <2>3. pages_in_tree = {}
    BY <1>1
  <2> HIDE DEF pages_in_tree
  <2> QED BY <2>1, <2>2, <2>3 DEF PagesAccounted
<1>5. /\ DOMAIN io = Procs /\ DOMAIN pc = Procs
      /\ io = [p \in Procs |-> io[p]] /\ pc = [p \in Procs |-> pc[p]]
  BY DEF Init
<1>6. \A p \in Procs : LocalOK(io[p], pc[p], pages_in_tree)
  BY <1>1 DEF LocalOK
<1> QED BY <1>2, <1>3, <1>4, <1>5, <1>6 DEF IInv

\* A process in a bio is in one of the disk's, and its locals are those of it.
LEMMA InBio ==
  ASSUME IInv, NEW p \in Procs, pc[p] \notin {"closed", "open", "bug_flush"}
  PROVE  \E b \in Bios : ServingOK(io[p], pc[p], pages_in_tree, b)
<1>1. LocalOK(io[p], pc[p], pages_in_tree)
  BY DEF IInv
<1> QED BY <1>1 DEF LocalOK

\* The page at hand is one of the disk's, and brd_lookup_page looks for it.
LEMMA PageAtHand ==
  ASSUME IInv, NEW p \in Procs, pc[p] \notin {"closed", "open", "done", "bug_flush"}
  PROVE  /\ here(p) \in Nat /\ here(p) < PAGES * PAGE_SECTORS
         /\ idx(here(p)) \in PageNumber /\ offset(here(p)) \in 0 .. (PAGE_SECTORS - 1)
         /\ page(p) # NoPage <=> idx(here(p)) \in pages_in_tree
<1>1. PICK b \in Bios : ServingOK(io[p], pc[p], pages_in_tree, b)
  BY InBio
<1>2. /\ io[p].sector \in Nat /\ io[p].i \in Nat /\ io[p].i < Head(io[p].lens)
      /\ Head(io[p].lens) \in Nat
      /\ io[p].sector + Head(io[p].lens) <= PAGES * PAGE_SECTORS
  BY <1>1, SegmentAtHand DEF ServingOK
<1>3. here(p) \in Nat /\ here(p) < PAGES * PAGE_SECTORS
  <2> DEFINE n == PAGES * PAGE_SECTORS
  <2>1. n \in Nat
    BY SizesAssumption
  <2> HIDE DEF n
  <2> QED BY <1>2, <2>1 DEF here, n
<1>4. idx(here(p)) \in PageNumber /\ offset(here(p)) \in 0 .. (PAGE_SECTORS - 1)
  <2> HIDE DEF PageNumber
  <2> QED BY <1>3, SectorInPage
<1>5. DOMAIN brd_pages = PageNumber
  BY DEF IInv, PagesOK
<1> QED BY <1>3, <1>4, <1>5 DEF page, pages_in_tree

\* Nothing moves but p's place and locals, and neither is at brd_lock.
LEMMA QuietLocalStep ==
  ASSUME IInv, NEW p \in Procs, OnlyOf(p), LocalOK(io'[p], pc'[p], pages_in_tree),
         pc[p] # "index", pc'[p] # "index", UNCHANGED <<brd_pages, brd_lock>>,
         allocated' = IF pc[p] # "insert" /\ pc'[p] = "insert" THEN allocated + 1
                      ELSE IF pc[p] = "insert" /\ pc'[p] # "insert" THEN allocated - 1
                      ELSE allocated
  PROVE  IInv'
<1>1. brd_pages' \in [PageNumber -> {NoPage} \cup Page]
  BY DEF IInv, PagesOK
<1> QED BY <1>1, QuietStep

\* The steps outside a bio, its start and its end.
LEMMA OutsideKeeps ==
  ASSUME IInv, NEW p \in Procs,
         Open(p) \/ Close(p) \/ (\E b \in Bios, v \in Values : StartBio(p, b, v))
           \/ AllocateFails(p) \/ EndBio(p)
  PROVE  IInv'
<1>1. DOMAIN io = Procs /\ DOMAIN pc = Procs /\ io = [q \in Procs |-> io[q]]
  BY DEF IInv
<1>2. CASE Open(p) \/ Close(p)
  <2>1. /\ pc[p] \in {"closed", "open"} /\ pc'[p] \in {"closed", "open"}
        /\ io' = io /\ OnlyOf(p)
        /\ UNCHANGED <<brd_pages, brd_lock, allocated>>
    BY <1>1, <1>2 DEF Open, Close, goto, OnlyOf
  <2>2. io[p] = no_io
    <3>1. LocalOK(io[p], pc[p], pages_in_tree)
      BY DEF IInv
    <3> QED BY <2>1, <3>1 DEF LocalOK, ServingOK, Serving, Setup
  <2>3. LocalOK(io'[p], pc'[p], pages_in_tree)
    BY <2>1, <2>2 DEF LocalOK
  <2> QED BY <2>1, <2>3, QuietLocalStep
<1>3. ASSUME NEW b \in Bios, NEW v \in Values, StartBio(p, b, v) PROVE IInv'
  <2>1. /\ OnlyOf(p) /\ pc'[p] = first_pass(b.rw)
        /\ ServingOK(io'[p], pc'[p], pages_in_tree, b)
    BY <1>1, <1>3, StartLocal
  <2>2. LocalOK(io'[p], pc'[p], pages_in_tree)
    BY <2>1 DEF LocalOK
  <2>3. /\ pc[p] = "open" /\ pc'[p] \notin {"index", "insert"}
        /\ UNCHANGED <<brd_pages, brd_lock, allocated>>
    BY <1>3, <2>1 DEF StartBio, first_pass
  <2> QED BY <2>1, <2>2, <2>3, QuietLocalStep
<1>4. CASE AllocateFails(p) \/ EndBio(p)
  <2>1. /\ pc[p] \in {"setup", "done"} /\ pc'[p] = "open" /\ io'[p] = no_io /\ OnlyOf(p)
        /\ UNCHANGED <<brd_pages, brd_lock, allocated>>
    BY <1>1, <1>4 DEF AllocateFails, EndBio, end_bio, misses, goto, OnlyOf
  <2>2. LocalOK(io'[p], pc'[p], pages_in_tree)
    BY <2>1 DEF LocalOK
  <2> QED BY <2>1, <2>2, QuietLocalStep
<1> QED BY <1>2, <1>3, <1>4

\* What a change of place alone keeps of the locals.
LEMMA MoveLocal ==
  ASSUME NEW l, NEW c, NEW d, NEW T, NEW b \in Bios, ServingOK(l, c, T, b),
         \/ c = "setup" /\ d \in {"insert", "bug_setup"}
         \/ c = "find" /\ d = "bug_find"
  PROVE  ServingOK(l, d, T, b) /\ LocalOK(l, d, T) /\ undone_from(l, d) = undone_from(l, c)
<1>1. ServingOK(l, d, T, b)
  BY DEF ServingOK, Serving, Setup, set_up_to
<1> QED BY <1>1 DEF LocalOK, undone_from

\* brd_lookup_page in the setup, and what it leads to; the assert on the index.
LEMMA SetupKeeps ==
  ASSUME IInv, NEW p \in Procs,
         LookupFails(p) \/ SetupFinds(p) \/ Allocate(p) \/ InsertLoses(p)
  PROVE  IInv'
<1>1. DOMAIN io = Procs /\ DOMAIN pc = Procs /\ io = [q \in Procs |-> io[q]]
  BY DEF IInv
<1>2. pc[p] \in {"setup", "insert", "find"}
  BY DEF LookupFails, SetupFinds, Allocate, InsertLoses, finds, misses
<1>3. PICK b \in Bios : ServingOK(io[p], pc[p], pages_in_tree, b)
  BY <1>2, InBio
<1>4. CASE LookupFails(p) \/ Allocate(p)
  <2>1. /\ OnlyOf(p) /\ io'[p] = io[p] /\ UNCHANGED <<brd_pages, brd_lock>>
        /\ \/ pc[p] = "setup" /\ pc'[p] \in {"insert", "bug_setup"}
           \/ pc[p] = "find" /\ pc'[p] = "bug_find"
        /\ allocated' = IF pc'[p] = "insert" THEN allocated + 1 ELSE allocated
    BY <1>1, <1>2, <1>4 DEF LookupFails, Allocate, misses, goto, OnlyOf
  <2>2. LocalOK(io'[p], pc'[p], pages_in_tree)
    BY <1>3, <2>1, MoveLocal
  <2> QED BY <2>1, <2>2, QuietLocalStep
<1>5. CASE SetupFinds(p) \/ InsertLoses(p)
  <2>1. /\ set_up(p) /\ pc[p] \in {"setup", "insert"} /\ page(p) # NoPage
        /\ UNCHANGED <<brd_pages, brd_lock>>
        /\ allocated' = IF pc[p] = "insert" THEN allocated - 1 ELSE allocated
    BY <1>5 DEF SetupFinds, InsertLoses, finds
  <2>2. idx(here(p)) \in pages_in_tree
    BY <2>1, PageAtHand
  <2>3. /\ OnlyOf(p) /\ ServingOK(io'[p], pc'[p], pages_in_tree, b)
        /\ pc'[p] \in {"setup", "find"}
    BY <1>1, <1>3, <2>1, <2>2, SetUpLocal DEF Setup
  <2>4. LocalOK(io'[p], pc'[p], pages_in_tree)
    BY <2>3 DEF LocalOK
  <2> QED BY <2>1, <2>3, <2>4, QuietLocalStep
<1> QED BY <1>4, <1>5

\* The copying of a part begins where its page has been found.
LEMMA CopyFindsLocal ==
  ASSUME IInv, NEW p \in Procs, CopyFinds(p), NEW b \in Bios,
         ServingOK(io[p], pc[p], pages_in_tree, b)
  PROVE  /\ OnlyOf(p) /\ pc'[p] = "copy" /\ ServingOK(io'[p], pc'[p], pages_in_tree, b)
         /\ io'[p].buf = io[p].buf /\ io'[p].value = io[p].value
         /\ undone_from(io'[p], pc'[p]) = undone_from(io[p], pc[p])
<1> DEFINE l == io[p]
           e == end_of_part(p)
           m == io'[p]
<1>1. DOMAIN io = Procs /\ DOMAIN pc = Procs /\ io = [q \in Procs |-> io[q]]
  BY DEF IInv
<1>2. /\ pc[p] = "find" /\ page(p) # NoPage /\ pc' = [pc EXCEPT ![p] = "copy"]
      /\ io' = [io EXCEPT ![p].upto = e]
  BY DEF CopyFinds, finds, goto
<1>3. OnlyOf(p) /\ m = [l EXCEPT !.upto = e] /\ pc'[p] = "copy"
  BY <1>1, <1>2 DEF OnlyOf
<1>4. /\ e \in Nat /\ l.i < e /\ e <= Head(l.lens)
      /\ \A s \in here(p) .. (l.sector + e - 1) : idx(s) = idx(here(p))
  BY <1>2, PartInPage, SegmentAtHand DEF ServingOK
<1>5. idx(here(p)) \in pages_in_tree
  BY <1>2, PageAtHand
<1>6. l = [bio |-> {b}, value |-> l.value, buf |-> l.buf, rw |-> b.rw,
           sector |-> l.sector, lens |-> l.lens, i |-> l.i, upto |-> l.upto]
  BY DEF ServingOK
<1> HIDE DEF e, l, m, pages_in_tree
<1>7. m = [bio |-> {b}, value |-> l.value, buf |-> l.buf, rw |-> b.rw,
           sector |-> l.sector, lens |-> l.lens, i |-> l.i, upto |-> e]
  BY <1>3, <1>6
<1>8. /\ m.value = l.value /\ m.buf = l.buf /\ m.sector = l.sector /\ m.lens = l.lens
      /\ m.i = l.i /\ m.upto = e
  BY <1>7
<1>9. ServingOK(m, "copy", pages_in_tree, b)
  <2>1. ServingOK(l, "find", pages_in_tree, b)
    BY <1>2 DEF l
  <2>2. here(p) = l.sector + l.i
    BY DEF here, l
  <2> QED BY <1>4, <1>5, <1>7, <1>8, <2>1, <2>2 DEF ServingOK, Serving, Setup, set_up_to
<1>10. undone_from(m, "copy") = undone_from(l, "find")
  BY <1>8 DEF undone_from
<1> QED BY <1>2, <1>3, <1>8, <1>9, <1>10 DEF l, m

\* With separate opens no page is missing under a write.
LEMMA WriteFinds ==
  ASSUME ~SharedOpen, IInv, NEW p \in Procs, NEW b,
         ServingOK(io[p], pc[p], pages_in_tree, b), misses(p, "find")
  PROVE  b.rw # "write"
<1> DEFINE l == io[p]
<1>1. pc[p] = "find" /\ page(p) = NoPage
  BY DEF misses
<1>2. /\ l.sector \in Nat /\ l.i \in Nat /\ l.i < Head(l.lens) /\ Head(l.lens) \in Nat \ {0}
  BY <1>1, SegmentAtHand DEF ServingOK
<1> SUFFICES ASSUME b.rw = "write" PROVE FALSE
  OBVIOUS
<1>3. \A s \in l.sector .. (l.sector + Head(l.lens) - 1) : idx(s) \in pages_in_tree
  BY <1>1 DEF ServingOK, set_up_to, Setup
<1>4. here(p) \in l.sector .. (l.sector + Head(l.lens) - 1)
  BY <1>2 DEF here
<1>5. idx(here(p)) \in pages_in_tree
  BY <1>3, <1>4
<1> QED BY <1>1, <1>5, PageAtHand

\* No page at hand: the part of a read or a discard is over.
LEMMA CopyMissesLocal ==
  ASSUME IInv, NEW p \in Procs, CopyMisses(p), NEW b \in Bios,
         ServingOK(io[p], pc[p], pages_in_tree, b), b.rw # "write"
  PROVE  /\ OnlyOf(p)
         /\ ServingOK(io'[p], pc'[p], pages_in_tree, b)
         /\ pc[p] = "find" /\ pc'[p] \in {"setup", "find", "done"}
         /\ io'[p].buf = (IF b.rw = "read"
                          THEN io[p].buf @@ [s \in here(p) .. (io[p].sector + end_of_part(p) - 1)
                                               |-> 0]
                          ELSE io[p].buf)
         /\ io'[p].value = io[p].value
         /\ undone_from(io'[p], pc'[p]) = io[p].sector + end_of_part(p)
<1> DEFINE l == io[p]
           e == end_of_part(p)
           z == [s \in here(p) .. (l.sector + e - 1) |-> 0]
           buf == IF b.rw = "read" THEN l.buf @@ z ELSE l.buf
<1>1. DOMAIN io = Procs /\ DOMAIN pc = Procs
  BY DEF IInv
<1>2. pc[p] = "find" /\ page(p) = NoPage /\ l.rw = b.rw
  BY DEF CopyMisses, misses, ServingOK
<1>3. /\ l.sector \in Nat /\ l.i \in Nat /\ l.i < Head(l.lens) /\ Head(l.lens) \in Nat \ {0}
  BY <1>2, SegmentAtHand DEF ServingOK
<1>5. e \in Nat /\ l.i < e /\ e <= Head(l.lens)
  BY <1>3, PartInPage
<1>6. advance(p, IF b.rw = "read" THEN [l EXCEPT !.buf = @ @@ z] ELSE l, e)
  BY <1>2 DEF CopyMisses
<1>7. (IF b.rw = "read" THEN [l EXCEPT !.buf = @ @@ z] ELSE l) = [l EXCEPT !.buf = buf]
  <2>1. l = [bio |-> {b}, value |-> l.value, buf |-> l.buf, rw |-> b.rw,
             sector |-> l.sector, lens |-> l.lens, i |-> l.i, upto |-> l.upto]
    BY DEF ServingOK
  <2> HIDE DEF l, z
  <2> QED BY <2>1
<1>8. advance(p, [io[p] EXCEPT !.buf = buf], e)
  BY <1>6, <1>7
<1>10. pc[p] \in {"find", "copy"}
  BY <1>2
<1> HIDE DEF buf, e, pages_in_tree
<1>9. /\ OnlyOf(p)
      /\ ServingOK(io'[p], pc'[p], pages_in_tree, b) /\ pc'[p] \in {"setup", "find", "done"}
      /\ io'[p].buf = buf /\ io'[p].value = io[p].value
      /\ undone_from(io'[p], pc'[p]) = io[p].sector + e
  BY <1>1, <1>5, <1>8, <1>10, AdvanceLocal, Zenon
<1> QED BY <1>2, <1>9 DEF buf, e

\* A sector is copied: the next one of the part, or on from its end.
LEMMA CopySectorLocal ==
  ASSUME IInv, NEW p \in Procs, CopySector(p), NEW b \in Bios,
         ServingOK(io[p], pc[p], pages_in_tree, b)
  PROVE  /\ OnlyOf(p) /\ ServingOK(io'[p], pc'[p], pages_in_tree, b)
         /\ pc[p] = "copy" /\ pc'[p] \in {"setup", "find", "done", "copy"}
         /\ io'[p].buf =
              (IF b.rw = "read"
               THEN io[p].buf @@ [t \in {here(p)} |-> brd_pages[idx(t)].data[offset(t)]]
               ELSE io[p].buf)
         /\ io'[p].value = io[p].value
         /\ undone_from(io'[p], pc'[p]) = here(p) + 1
<1> DEFINE l == io[p]
           z == [t \in {here(p)} |-> brd_pages[idx(t)].data[offset(t)]]
           buf == IF b.rw = "read" THEN l.buf @@ z ELSE l.buf
           k == [l EXCEPT !.buf = buf]
<1>1. DOMAIN io = Procs /\ DOMAIN pc = Procs /\ pc = [q \in Procs |-> pc[q]]
  BY DEF IInv
<1>2. pc[p] = "copy" /\ l.rw = b.rw
  BY DEF CopySector, ServingOK
<1>3. /\ l.sector \in Nat /\ l.i \in Nat /\ l.upto \in Nat /\ l.i < l.upto
      /\ l.upto <= Head(l.lens) /\ Head(l.lens) \in Nat \ {0} /\ l.i < Head(l.lens)
      /\ here(p) = l.sector + l.i
  BY <1>2, SegmentAtHand DEF ServingOK, here
<1>4. (IF b.rw = "read" THEN [l EXCEPT !.buf = @ @@ z] ELSE l) = k
  <2>1. l = [bio |-> {b}, value |-> l.value, buf |-> l.buf, rw |-> b.rw,
             sector |-> l.sector, lens |-> l.lens, i |-> l.i, upto |-> l.upto]
    BY DEF ServingOK
  <2> HIDE DEF l, z
  <2> QED BY <2>1
<1>5. IF l.i + 1 = l.upto THEN advance(p, k, l.upto)
      ELSE io' = [io EXCEPT ![p] = [k EXCEPT !.i = @ + 1]] /\ UNCHANGED pc
  BY <1>2, <1>4 DEF CopySector
<1>6. CASE l.i + 1 = l.upto
  <2> DEFINE j == l.upto
  <2>1. advance(p, [io[p] EXCEPT !.buf = buf], j)
    BY <1>5, <1>6
  <2>2. l.sector + j = here(p) + 1
    BY <1>3, <1>6
  <2>4. j \in Nat /\ io[p].i < j /\ j <= Head(io[p].lens)
    BY <1>3
  <2>5. pc[p] \in {"find", "copy"}
    BY <1>2
  <2> HIDE DEF buf, pages_in_tree, j
  <2>3. /\ OnlyOf(p)
        /\ ServingOK(io'[p], pc'[p], pages_in_tree, b) /\ pc'[p] \in {"setup", "find", "done"}
        /\ io'[p].buf = buf /\ io'[p].value = io[p].value
        /\ undone_from(io'[p], pc'[p]) = io[p].sector + j
    BY <1>1, <2>1, <2>4, <2>5, AdvanceLocal, Zenon
  <2> QED BY <1>2, <2>2, <2>3 DEF buf
<1>7. CASE l.i + 1 # l.upto
  <2> DEFINE m == io'[p]
  <2>1. OnlyOf(p) /\ m = [k EXCEPT !.i = @ + 1] /\ pc'[p] = "copy"
    BY <1>1, <1>2, <1>5, <1>7 DEF OnlyOf
  <2>2. k = [bio |-> {b}, value |-> l.value, buf |-> buf, rw |-> b.rw,
             sector |-> l.sector, lens |-> l.lens, i |-> l.i, upto |-> l.upto]
    <3>1. l = [bio |-> {b}, value |-> l.value, buf |-> l.buf, rw |-> b.rw,
               sector |-> l.sector, lens |-> l.lens, i |-> l.i, upto |-> l.upto]
      BY DEF ServingOK
    <3> HIDE DEF l, buf
    <3> QED BY <3>1
  <2> HIDE DEF l, m, k, buf, pages_in_tree
  <2>3. m = [bio |-> {b}, value |-> l.value, buf |-> buf, rw |-> b.rw,
             sector |-> l.sector, lens |-> l.lens, i |-> l.i + 1, upto |-> l.upto]
    BY <2>1, <2>2
  <2>4. /\ m.value = l.value /\ m.buf = buf /\ m.sector = l.sector /\ m.lens = l.lens
        /\ m.i = l.i + 1 /\ m.upto = l.upto
    BY <2>3
  <2>5. l.i + 1 \in Nat /\ l.i + 1 < l.upto /\ l.i + 1 < Head(l.lens)
    BY <1>3, <1>7
  <2>6. ServingOK(l, "copy", pages_in_tree, b)
    BY <1>2 DEF l
  <2>7. /\ \A s \in (l.sector + l.i + 1) .. (l.sector + l.upto - 1) :
             idx(s) = idx(l.sector + (l.i + 1))
        /\ idx(l.sector + (l.i + 1)) \in pages_in_tree
    <3>1. /\ \A s \in (l.sector + l.i) .. (l.sector + l.upto - 1) :
               idx(s) = idx(l.sector + l.i)
          /\ idx(l.sector + l.i) \in pages_in_tree
      BY <2>6 DEF ServingOK
    <3>2. l.sector + (l.i + 1) \in (l.sector + l.i) .. (l.sector + l.upto - 1)
      BY <1>3, <2>5
    <3>3. idx(l.sector + (l.i + 1)) = idx(l.sector + l.i)
      BY <3>1, <3>2
    <3>4. ASSUME NEW s \in (l.sector + l.i + 1) .. (l.sector + l.upto - 1)
          PROVE  s \in (l.sector + l.i) .. (l.sector + l.upto - 1)
      BY <1>3
    <3> QED BY <3>1, <3>3, <3>4
  <2>8. ServingOK(m, "copy", pages_in_tree, b)
    <3>1. l.sector + (l.i + 1) = l.sector + l.i + 1
      BY <1>3
    <3> QED BY <2>3, <2>4, <2>5, <2>6, <2>7, <3>1 DEF ServingOK, Serving, Setup, set_up_to
  <2>9. undone_from(m, "copy") = here(p) + 1
    BY <1>3, <2>4 DEF undone_from
  <2> QED BY <1>2, <2>1, <2>4, <2>8, <2>9 DEF m, l, buf
<1> QED BY <1>6, <1>7

\* What copying a sector does to the tree: one sector of the page at hand.
LEMMA CopySectorPages ==
  ASSUME IInv, NEW p \in Procs, CopySector(p), NEW b \in Bios,
         ServingOK(io[p], pc[p], pages_in_tree, b)
  PROVE  LET x == idx(here(p))
             v == IF b.rw = "write" THEN io[p].value ELSE 0
         IN  /\ x \in pages_in_tree /\ v \in Values
             /\ brd_pages' \in [PageNumber -> {NoPage} \cup Page]
             /\ \A y \in PageNumber : /\ brd_pages'[y] = NoPage <=> brd_pages[y] = NoPage
                                      /\ brd_pages[y] # NoPage =>
                                           brd_pages'[y].indexed = brd_pages[y].indexed
             /\ b.rw = "read" => brd_pages' = brd_pages
             /\ b.rw # "read" =>
                  \A y \in pages_in_tree, o \in 0 .. (PAGE_SECTORS - 1) :
                    brd_pages'[y].data[o] = IF y = x /\ o = offset(here(p)) THEN v
                                            ELSE brd_pages[y].data[o]
<1> DEFINE x == idx(here(p))
           d == offset(here(p))
           v == IF b.rw = "write" THEN io[p].value ELSE 0
           g == brd_pages[x]
           w == [g EXCEPT !.data[d] = v]
<1>1. /\ pc[p] = "copy" /\ io[p].rw = b.rw /\ io[p].value \in Values
  BY DEF CopySector, ServingOK
<1>2. x \in PageNumber /\ d \in 0 .. (PAGE_SECTORS - 1)
  <2> HIDE DEF PageNumber
  <2> QED BY <1>1, PageAtHand
<1>3. x \in pages_in_tree
  BY <1>1 DEF ServingOK, here
<1>4. v \in Values
  BY <1>1, SizesAssumption
<1>5. brd_pages \in [PageNumber -> {NoPage} \cup Page]
  BY DEF IInv, PagesOK
<1>6. g \in Page /\ g # NoPage
  <2> HIDE DEF PageNumber
  <2> QED BY <1>2, <1>3, <1>5 DEF pages_in_tree
<1>7. brd_pages' = IF b.rw = "read" THEN brd_pages ELSE [brd_pages EXCEPT ![x] = w]
  BY <1>1 DEF CopySector
<1>8. /\ w \in Page /\ w.indexed = g.indexed
      /\ \A o \in 0 .. (PAGE_SECTORS - 1) : w.data[o] = IF o = d THEN v ELSE g.data[o]
  <2> HIDE DEF g, d, v
  <2> QED BY <1>2, <1>4, <1>6 DEF Page
<1>9. w # NoPage
  <2> HIDE DEF w
  <2> QED BY <1>8, PagesArePages
<1> HIDE DEF w, x, d, v, PageNumber
<1>10. /\ brd_pages' \in [PageNumber -> {NoPage} \cup Page]
       /\ \A y \in PageNumber : /\ brd_pages'[y] = NoPage <=> brd_pages[y] = NoPage
                                /\ brd_pages[y] # NoPage =>
                                     brd_pages'[y].indexed = brd_pages[y].indexed
  <2>1. CASE b.rw = "read"
    BY <1>5, <1>7, <2>1
  <2>2. CASE b.rw # "read"
    BY <1>2, <1>5, <1>6, <1>7, <1>8, <1>9, <2>2
  <2> QED BY <2>1, <2>2
<1>11. ASSUME b.rw # "read", NEW y \in pages_in_tree, NEW o \in 0 .. (PAGE_SECTORS - 1)
       PROVE  brd_pages'[y].data[o] = IF y = x /\ o = d THEN v ELSE brd_pages[y].data[o]
  <2>1. y \in PageNumber
    BY <1>5 DEF pages_in_tree
  <2>2. brd_pages'[y] = IF y = x THEN w ELSE brd_pages[y]
    BY <1>2, <1>5, <1>7, <1>11, <2>1
  <2> QED BY <1>8, <2>2
<1> QED BY <1>3, <1>4, <1>7, <1>10, <1>11 DEF x, d, v

\* Finding the page again for the copy, missing it, and copying preserve the invariant.
LEMMA CopyKeeps ==
  ASSUME IInv, NEW p \in Procs, CopyFinds(p) \/ CopyMisses(p) \/ CopySector(p)
  PROVE  IInv'
<1>1. pc[p] \in {"find", "copy"}
  BY DEF CopyFinds, CopyMisses, CopySector, finds, misses
<1>2. PICK b \in Bios : ServingOK(io[p], pc[p], pages_in_tree, b)
  BY <1>1, InBio
<1>3. CASE CopyFinds(p) \/ CopyMisses(p)
  <2>1. /\ OnlyOf(p) /\ ServingOK(io'[p], pc'[p], pages_in_tree, b)
        /\ pc'[p] \in {"setup", "find", "done", "copy", "bug_find"}
    <3>1. CASE CopyMisses(p) /\ b.rw = "write"
      <4>1. /\ io' = io /\ pc' = [pc EXCEPT ![p] = "bug_find"] /\ pc[p] = "find"
            /\ DOMAIN io = Procs /\ DOMAIN pc = Procs
            /\ io = [q \in Procs |-> io[q]]
        BY <1>2, <3>1 DEF CopyMisses, misses, goto, ServingOK, IInv
      <4> QED BY <1>2, <4>1, MoveLocal DEF OnlyOf
    <3> QED BY <1>2, <1>3, <3>1, CopyFindsLocal, CopyMissesLocal
  <2>2. UNCHANGED <<brd_pages, brd_lock, allocated>>
    BY <1>3 DEF CopyFinds, CopyMisses
  <2>3. LocalOK(io'[p], pc'[p], pages_in_tree)
    BY <2>1 DEF LocalOK
  <2> QED BY <1>1, <2>1, <2>2, <2>3, QuietLocalStep
<1>4. CASE CopySector(p)
  <2>1. /\ OnlyOf(p) /\ ServingOK(io'[p], pc'[p], pages_in_tree, b)
        /\ pc'[p] \in {"setup", "find", "done", "copy"}
    BY <1>2, <1>4, CopySectorLocal
  <2>2. UNCHANGED <<brd_lock, allocated>>
    BY <1>4 DEF CopySector
  <2>3. LocalOK(io'[p], pc'[p], pages_in_tree)
    BY <2>1 DEF LocalOK
  <2>4. /\ brd_pages' \in [PageNumber -> {NoPage} \cup Page]
        /\ \A y \in PageNumber : /\ brd_pages'[y] = NoPage <=> brd_pages[y] = NoPage
                                 /\ brd_pages[y] # NoPage =>
                                      brd_pages'[y].indexed = brd_pages[y].indexed
    BY <1>2, <1>4, CopySectorPages
  <2> QED BY <1>1, <2>1, <2>2, <2>3, <2>4, QuietStep
<1> QED BY <1>3, <1>4

\* The new page is in the tree, without an index until the inserter sets it.
LEMMA InsertKeeps ==
  ASSUME IInv, NEW p \in Procs, Insert(p)
  PROVE  IInv'
<1> DEFINE x == idx(here(p))
<1>1. /\ DOMAIN io = Procs /\ DOMAIN pc = Procs /\ io = [q \in Procs |-> io[q]]
      /\ PagesOK /\ LockOK /\ PagesAccounted
  BY DEF IInv
<1>2. /\ pc[p] = "insert" /\ brd_lock = {} /\ page(p) = NoPage /\ brd_lock' = {p}
      /\ io' = io /\ allocated' = allocated /\ pc' = [pc EXCEPT ![p] = "index"]
      /\ pc'[p] = "index"
  BY <1>1 DEF Insert, goto
<1>3. PICK b \in Bios : ServingOK(io[p], pc[p], pages_in_tree, b)
  BY <1>2, InBio
<1>4. x \in PageNumber /\ x \notin pages_in_tree
  <2> HIDE DEF PageNumber
  <2> QED BY <1>2, PageAtHand
<1>5. PICK g \in Page : brd_pages' = [brd_pages EXCEPT ![x] = g]
  BY PagesArePages DEF Insert
<1>6. g # NoPage
  BY PagesArePages
<1>7. brd_pages \in [PageNumber -> {NoPage} \cup Page]
  BY <1>1 DEF PagesOK
<1> HIDE DEF x, PageNumber
<1>8. brd_pages' \in [PageNumber -> {NoPage} \cup Page]
  BY <1>4, <1>5, <1>7
<1>9. pages_in_tree' = pages_in_tree \cup {x}
  BY <1>4, <1>5, <1>6, <1>7 DEF pages_in_tree
<1>10. OnlyOf(p)
  BY <1>1, <1>2 DEF OnlyOf
<1>11. here(p)' = here(p) /\ \A q \in Procs : here(q)' = here(q)
  BY <1>2 DEF here
<1>12. PagesOK'
  <2>1. ASSUME NEW y \in pages_in_tree', ~brd_pages'[y].indexed
        PROVE  \E q \in Procs : pc'[q] = "index" /\ idx(here(q)') = y
    <3>1. CASE y = x
      BY <1>2, <1>11, <3>1 DEF x
    <3>2. CASE y # x
      <4>1. y \in pages_in_tree
        BY <1>9, <3>2
      <4>2. brd_pages'[y] = brd_pages[y]
        BY <1>4, <1>5, <1>7, <3>2, <4>1 DEF pages_in_tree
      <4>3. PICK q \in Procs : pc[q] = "index" /\ idx(here(q)) = y
        BY <1>1, <2>1, <4>1, <4>2 DEF PagesOK
      <4>4. pc'[q] = "index" /\ here(q)' = here(q)
        BY <1>1, <1>2, <1>11, <4>3
      <4> QED BY <4>3, <4>4
    <3> QED BY <3>1, <3>2
  <2> QED BY <1>8, <2>1 DEF PagesOK, idx
<1>13. LockOK'
  <2>1. \A q \in Procs : pc'[q] = "index" <=> q = p
    BY <1>1, <1>2 DEF LockOK
  <2> QED BY <1>2, <2>1 DEF LockOK
<1>14. PagesAccounted'
  <2>1. allocated = Cardinality(pages_in_tree) + Cardinality(inserting)
    BY <1>1 DEF PagesAccounted, inserting
  <2>2. Cardinality(pages_in_tree') = Cardinality(pages_in_tree) + 1
        /\ Cardinality(pages_in_tree) \in Nat
    BY <1>1, <1>4, <1>9, TreeFinite, FS_AddElement
  <2>3. Cardinality(inserting') = Cardinality(inserting) - 1 /\ Cardinality(inserting) \in Nat
    BY <1>1, <1>2, <1>10, Inserting
  <2>4. allocated' = Cardinality(pages_in_tree') + Cardinality(inserting')
    BY <1>2, <2>1, <2>2, <2>3
  <2> QED BY <2>4 DEF PagesAccounted, inserting
<1>15. LocalOK(io'[p], pc'[p], pages_in_tree')
  <2>1. ServingOK(io[p], "index", pages_in_tree', b)
    BY <1>2, <1>3, <1>9 DEF ServingOK, Serving, Setup, set_up_to, x, here
  <2> QED BY <1>2, <2>1 DEF LocalOK
<1>16. pages_in_tree \subseteq pages_in_tree'
  BY <1>9
<1> QED BY <1>10, <1>12, <1>13, <1>14, <1>15, <1>16, LocalsPreserved DEF IInv

\* The index is set, brd_lock released, and the setup goes on.
LEMMA SetIndexKeeps ==
  ASSUME IInv, NEW p \in Procs, SetIndex(p)
  PROVE  IInv'
<1> DEFINE x == idx(here(p))
           g == [brd_pages[x] EXCEPT !.indexed = TRUE]
<1>1. /\ DOMAIN io = Procs /\ DOMAIN pc = Procs
      /\ PagesOK /\ LockOK /\ PagesAccounted
  BY DEF IInv
<1>2. /\ pc[p] = "index" /\ brd_lock' = {} /\ set_up(p) /\ allocated' = allocated
      /\ brd_pages' = [brd_pages EXCEPT ![x] = g]
  BY DEF SetIndex
<1>3. PICK b \in Bios : ServingOK(io[p], pc[p], pages_in_tree, b)
  BY <1>2, InBio
<1>4. x \in PageNumber /\ x \in pages_in_tree
  <2>1. x \in pages_in_tree
    BY <1>2, <1>3 DEF ServingOK, here
  <2> QED BY <1>1, <2>1, TreeFinite
<1>5. brd_pages \in [PageNumber -> {NoPage} \cup Page]
  BY <1>1 DEF PagesOK
<1>6. g \in Page /\ g # NoPage /\ g.indexed
  <2>1. brd_pages[x] \in Page
    <3> HIDE DEF PageNumber, x
    <3> QED BY <1>4, <1>5 DEF pages_in_tree
  <2>2. g \in Page /\ g.indexed
    <3> HIDE DEF x
    <3> QED BY <2>1 DEF Page
  <2> HIDE DEF g
  <2> QED BY <2>2, PagesArePages
<1> HIDE DEF g, PageNumber
<1>7. /\ brd_pages' \in [PageNumber -> {NoPage} \cup Page]
      /\ pages_in_tree' = pages_in_tree
  <2> HIDE DEF x
  <2> QED BY <1>2, <1>4, <1>5, <1>6 DEF pages_in_tree
<1>8. /\ OnlyOf(p) /\ ServingOK(io'[p], pc'[p], pages_in_tree, b)
      /\ pc'[p] \in {"setup", "find"}
  BY <1>1, <1>2, <1>3, <1>4, SetUpLocal DEF Setup
<1>9. \A q \in Procs : pc[q] = "index" <=> q = p
  BY <1>1, <1>2 DEF LockOK
<1>10. \A q \in Procs : pc'[q] # "index"
  BY <1>1, <1>8, <1>9 DEF OnlyOf
<1>11. PagesOK'
  <2>1. ASSUME NEW y \in pages_in_tree' PROVE brd_pages'[y].indexed
    <3>1. y \in pages_in_tree /\ y \in PageNumber
      BY <1>1, <1>7, TreeFinite DEF PageNumber
    <3>2. CASE y = x
      <4>1. brd_pages'[y] = g
        BY <1>2, <1>4, <1>5, <3>2
      <4> QED BY <1>6, <4>1
    <3>3. CASE y # x
      <4>1. brd_pages'[y] = brd_pages[y]
        BY <1>2, <1>4, <1>5, <3>1, <3>3
      <4>2. brd_pages[y].indexed
        <5>1. ~(\E q \in Procs : pc[q] = "index" /\ idx(here(q)) = y)
          BY <1>9, <3>3
        <5> QED BY <1>1, <3>1, <5>1 DEF PagesOK
      <4> QED BY <4>1, <4>2
    <3> QED BY <3>2, <3>3
  <2> QED BY <1>7, <2>1 DEF PagesOK
<1>12. LockOK'
  BY <1>2, <1>10 DEF LockOK
<1>13. PagesAccounted'
  <2>1. allocated = Cardinality(pages_in_tree) + Cardinality(inserting)
    BY <1>1 DEF PagesAccounted, inserting
  <2>2. Cardinality(inserting') = Cardinality(inserting)
    BY <1>1, <1>2, <1>8, Inserting
  <2>3. allocated' = Cardinality(pages_in_tree') + Cardinality(inserting')
    BY <1>2, <1>7, <2>1, <2>2
  <2> QED BY <2>3 DEF PagesAccounted, inserting
<1>14. LocalOK(io'[p], pc'[p], pages_in_tree')
  BY <1>7, <1>8 DEF LocalOK
<1> QED BY <1>7, <1>8, <1>11, <1>12, <1>13, <1>14, LocalsPreserved DEF IInv

\* With separate opens, the only opener is the only process with the device open.
LEMMA OnlyOpener ==
  ASSUME ~SharedOpen, NEW p \in Procs, BLKFLSBUF(p)
  PROVE  \A q \in Procs \ {p} : pc[q] = "closed"
<1> DEFINE users == {q \in Procs : pc[q] # "closed"}
<1>1. pc[p] = "open" /\ Cardinality(users) <= 1
  BY DEF BLKFLSBUF, openers
<1>2. IsFiniteSet(users) /\ {p} \in SUBSET users
  BY <1>1, ProcsAssumption, FS_Subset
<1>3. /\ Cardinality(users) \in Nat /\ Cardinality({p}) = 1
      /\ Cardinality({p}) <= Cardinality(users)
  BY <1>2, FS_CardinalityType, FS_Singleton, FS_Subset
<1>4. Cardinality(users) = Cardinality({p})
  BY <1>1, <1>3
<1>5. users = {p}
  BY <1>2, <1>4, FS_Subset
<1> QED BY <1>5

\* Then all of the tree is freed, and nothing else changes.
LEMMA FlushAlone ==
  ASSUME ~SharedOpen, IInv, NEW p \in Procs, BLKFLSBUF(p)
  PROVE  /\ \A q \in Procs : pc[q] \in {"closed", "open"}
         /\ brd_pages' = [x \in PageNumber |-> NoPage] /\ UNCHANGED <<pc, io, failed>>
<1>1. PagesOK /\ pc = [q \in Procs |-> pc[q]] /\ pc[p] = "open"
  BY DEF IInv, BLKFLSBUF
<1>2. \A q \in Procs \ {p} : pc[q] = "closed"
  BY OnlyOpener
<1>3. \A x \in pages_in_tree : brd_pages[x].indexed
  BY <1>1, <1>2 DEF PagesOK
<1>4. freeable = pages_in_tree
  <2> HIDE DEF pages_in_tree
  <2> QED BY <1>3 DEF freeable
<1>5. \A q \in Procs : pc'[q] = pc[q]
  BY <1>1, <1>2, <1>4 DEF BLKFLSBUF, freed_under
<1>6. pc' = pc
  BY <1>1, <1>5 DEF BLKFLSBUF
<1>7. brd_pages' = [x \in PageNumber |-> NoPage]
  <2>1. DOMAIN brd_pages = PageNumber
    BY <1>1 DEF PagesOK
  <2>2. brd_pages' = [x \in PageNumber |-> IF x \in pages_in_tree THEN NoPage
                                           ELSE brd_pages[x]]
    BY <1>4, <2>1 DEF BLKFLSBUF
  <2>3. \A x \in PageNumber : x \notin pages_in_tree => brd_pages[x] = NoPage
    BY <2>1 DEF pages_in_tree
  <2> HIDE DEF pages_in_tree, PageNumber
  <2> QED BY <2>2, <2>3
<1> QED BY <1>1, <1>2, <1>6, <1>7 DEF BLKFLSBUF

\* The pages that are freed are given back; who relies on one of them is "freed".
LEMMA FlushKeeps ==
  ASSUME IInv, NEW p \in Procs, BLKFLSBUF(p)
  PROVE  IInv'
<1> DEFINE T == pages_in_tree
           F == freeable
<1>1. /\ PagesOK /\ LockOK /\ PagesAccounted /\ DOMAIN io = Procs /\ DOMAIN pc = Procs
      /\ io = [q \in Procs |-> io[q]]
  BY DEF IInv
<1>2. /\ pc[p] = "open" /\ io' = io /\ allocated' = allocated - Cardinality(F)
      /\ brd_pages' = [x \in PageNumber |-> IF x \in F THEN NoPage ELSE brd_pages[x]]
      /\ brd_lock' = {q \in brd_lock : freed_under(q) # "freed"}
  BY <1>1 DEF BLKFLSBUF, PagesOK
<1>3. /\ DOMAIN pc' = Procs /\ pc' = [q \in Procs |-> pc'[q]]
      /\ pc'[p] \in {"open", "bug_flush"}
      /\ \A q \in Procs : q # p => pc'[q] = freed_under(q)
  <2> HIDE DEF F
  <2> QED BY DEF BLKFLSBUF
<1>4. F \subseteq T /\ T \subseteq PageNumber /\ \A x \in T : ~brd_pages[x].indexed => x \notin F
  <2>1. ASSUME NEW x \in T, x \in F PROVE brd_pages[x].indexed
    <3>1. \A y \in T : y <= x => brd_pages[y].indexed
      BY <2>1 DEF freeable
    <3>2. x \in Nat
      BY <1>1, TreeFinite, SizesAssumption DEF PageNumber
    <3> HIDE DEF T, F
    <3> QED BY <2>1, <3>1, <3>2
  <2> QED BY <1>1, <2>1, TreeFinite DEF freeable
<1>5. T' = T \ F
  <2>1. T = {x \in PageNumber : brd_pages[x] # NoPage}
    BY <1>1 DEF pages_in_tree, PagesOK
  <2>2. T' = {x \in PageNumber : brd_pages'[x] # NoPage}
    BY <1>2 DEF pages_in_tree
  <2> HIDE DEF T, F, PageNumber
  <2> QED BY <1>2, <2>1, <2>2
<1>6. \A q \in Procs : here(q)' = here(q)
  BY <1>2 DEF here
<1>7. \A q \in Procs : pc'[q] = "index" <=> pc[q] = "index" /\ idx(here(q)) \notin F
  <2>1. \A q \in Procs : freed_under(q) = "index" <=> pc[q] = "index" /\ idx(here(q)) \notin F
    <3> HIDE DEF freeable
    <3> QED BY DEF freed_under
  <2> HIDE DEF F
  <2> QED BY <1>2, <1>3, <2>1
<1> HIDE DEF T, F, PageNumber
<1>8. PagesOK'
  <2>1. brd_pages' \in [PageNumber -> {NoPage} \cup Page]
    BY <1>1, <1>2 DEF PagesOK
  <2>2. ASSUME NEW x \in T', ~brd_pages'[x].indexed
        PROVE  \E q \in Procs : pc'[q] = "index" /\ idx(here(q)') = x
    <3>1. x \in T /\ x \notin F /\ x \in PageNumber
      BY <1>4, <1>5, <2>2
    <3>2. brd_pages'[x] = brd_pages[x]
      BY <1>2, <3>1
    <3>3. PICK q \in Procs : pc[q] = "index" /\ idx(here(q)) = x
      BY <1>1, <2>2, <3>1, <3>2 DEF PagesOK, T
    <3> QED BY <1>6, <1>7, <3>1, <3>3
  <2> QED BY <2>1, <2>2 DEF PagesOK, T, idx
<1>9. LockOK'
  <2>1. brd_lock' = {q \in Procs : pc'[q] = "index"}
    <3>1. brd_lock = {q \in Procs : pc[q] = "index"}
      BY <1>1 DEF LockOK
    <3>2. \A q \in Procs : pc[q] = "index" =>
            (freed_under(q) # "freed" <=> idx(here(q)) \notin F)
      BY DEF freed_under, F
    <3> QED BY <1>2, <1>7, <3>1, <3>2
  <2>2. brd_lock' \subseteq brd_lock
    BY <1>2
  <2> QED BY <1>1, <2>1, <2>2 DEF LockOK
<1>10. PagesAccounted'
  <2>1. allocated = Cardinality(T) + Cardinality(inserting)
    BY <1>1 DEF PagesAccounted, inserting, T
  <2>2. \A q \in Procs : pc'[q] = "insert" <=> pc[q] = "insert"
    BY <1>2, <1>3 DEF freed_under
  <2>3. inserting' = inserting
    BY <2>2 DEF inserting
  <2>4. IsFiniteSet(T) /\ Cardinality(T) \in Nat
    BY <1>1, TreeFinite DEF T
  <2>5. Cardinality(T') = Cardinality(T) - Cardinality(F)
    <3>1. T \cap F = F
      BY <1>4
    <3>2. Cardinality(T \ F) = Cardinality(T) - Cardinality(T \cap F)
      BY <2>4, FS_Difference
    <3> QED BY <1>5, <3>1, <3>2
  <2>6. Cardinality(F) \in Nat /\ Cardinality(inserting) \in Nat
    <3>1. IsFiniteSet(F)
      BY <1>4, <2>4, FS_Subset
    <3>2. IsFiniteSet(inserting)
      BY ProcsAssumption, FS_Subset DEF inserting
    <3> QED BY <3>1, <3>2, FS_CardinalityType
  <2>7. allocated' = Cardinality(T') + Cardinality(inserting')
    BY <1>2, <2>1, <2>3, <2>4, <2>5, <2>6
  <2> QED BY <2>7 DEF PagesAccounted, inserting, T
<1>11. ASSUME NEW q \in Procs PROVE LocalOK(io'[q], pc'[q], T')
  <2>1. LocalOK(io[q], pc[q], T) /\ io'[q] = io[q]
    BY <1>2 DEF IInv, T
  <2>2. CASE q = p
    <3>1. io[q] = no_io
      BY <1>2, <2>1, <2>2 DEF LocalOK, ServingOK, Serving, Setup
    <3> QED BY <1>3, <2>1, <2>2, <3>1 DEF LocalOK
  <2>3. CASE q # p /\ pc[q] \in {"closed", "open", "bug_flush"}
    <3>1. pc'[q] = pc[q] /\ io[q] = no_io
      BY <1>3, <2>1, <2>3 DEF freed_under, LocalOK, ServingOK, Serving, Setup
    <3> QED BY <2>1, <2>3, <3>1 DEF LocalOK
  <2>4. CASE q # p /\ pc[q] \notin {"closed", "open", "bug_flush"}
    <3>1. PICK b \in Bios : ServingOK(io[q], pc[q], T, b)
      BY <2>4, InBio DEF T
    <3>2. SharedOpen
      BY <2>4, OnlyOpener, SharedOpenAssumption
    <3>3. pc'[q] = freed_under(q) /\ here(q) = io[q].sector + io[q].i
      BY <1>3, <2>4 DEF here
    <3>4. CASE pc[q] \in {"copy", "index"} /\ idx(here(q)) \in F
      <4>1. pc'[q] = "freed"
        BY <3>3, <3>4 DEF freed_under, F
      <4>2. ServingOK(io[q], "freed", T', b)
        BY <3>1, <3>2, <3>4 DEF ServingOK, Serving, Setup
      <4> QED BY <2>1, <4>1, <4>2 DEF LocalOK
    <3>5. CASE ~(pc[q] \in {"copy", "index"} /\ idx(here(q)) \in F)
      <4>1. pc'[q] = pc[q]
        BY <3>3, <3>5 DEF freed_under, F
      <4>2. ServingOK(io[q], pc[q], T', b)
        BY <1>5, <3>1, <3>2, <3>3, <3>5 DEF ServingOK, Serving, Setup
      <4> QED BY <2>1, <4>1, <4>2 DEF LocalOK
    <3> QED BY <3>4, <3>5
  <2> QED BY <2>2, <2>3, <2>4
<1> QED BY <1>1, <1>2, <1>3, <1>8, <1>9, <1>10, <1>11 DEF IInv, T

\* Every step preserves the inductive invariant.
LEMMA NextIInv == IInv /\ [Next]_vars => IInv'
<1> SUFFICES ASSUME IInv, [Next]_vars PROVE IInv'
  OBVIOUS
<1>1. CASE UNCHANGED vars
  <2>1. UNCHANGED <<brd_pages, brd_lock, allocated, pc, io>>
    BY <1>1 DEF vars
  <2> QED BY <2>1 DEF IInv, PagesOK, LockOK, PagesAccounted, pages_in_tree, here
<1>2. ASSUME NEW p \in Procs,
             Open(p) \/ Close(p) \/ (\E b \in Bios, v \in Values : StartBio(p, b, v))
               \/ AllocateFails(p) \/ EndBio(p)
      PROVE  IInv'
  BY <1>2, OutsideKeeps
<1>3. ASSUME NEW p \in Procs,
             LookupFails(p) \/ SetupFinds(p) \/ Allocate(p) \/ InsertLoses(p)
      PROVE  IInv'
  BY <1>3, SetupKeeps
<1>4. ASSUME NEW p \in Procs, CopyFinds(p) \/ CopyMisses(p) \/ CopySector(p) PROVE IInv'
  BY <1>4, CopyKeeps
<1>5. ASSUME NEW p \in Procs, Insert(p) PROVE IInv'
  BY <1>5, InsertKeeps
<1>6. ASSUME NEW p \in Procs, SetIndex(p) PROVE IInv'
  BY <1>6, SetIndexKeeps
<1>7. ASSUME NEW p \in Procs, BLKFLSBUF(p) PROVE IInv'
  BY <1>7, FlushKeeps
<1> QED BY <1>1, <1>2, <1>3, <1>4, <1>5, <1>6, <1>7 DEF Next

\* What each process relies on where it is holds throughout, and brd_lock excludes.
THEOREM Invariance == Spec => []IInv
<1> QED BY InitIInv, NextIInv, PTL DEF Spec

\* No page is lost or freed twice, whichever processes race to insert it, and whether
\* or not a flush frees it under a process that shares the open file.
THEOREM PagesCounted == Spec => []PagesAccounted
<1>1. IInv => PagesAccounted
  BY DEF IInv
<1> QED BY <1>1, Invariance, PTL

\* With separate opens the only assert on pages that can fail is the one on an index
\* that another process has yet to set; in particular a write always finds the pages
\* of its setup, and a flush every page under its index.
THEOREM StopsInWindow == ASSUME ~SharedOpen PROVE Spec => StopsOnlyInWindow
<1> DEFINE W == \A p \in Procs :
                  /\ (~stopped(p) /\ stopped(p)') =>
                       \E q \in Procs : pc[q] = "index" /\ idx(here(q)) = idx(here(p))
                  /\ pc'[p] # "bug_flush"
<1> DEFINE NoFlushStops == \A p \in Procs : pc[p] # "bug_flush"
<1>1. Init => NoFlushStops
  BY DEF Init
<1>2. ASSUME IInv, NoFlushStops, [Next]_vars PROVE NoFlushStops'
  <2>1. CASE UNCHANGED vars
    BY <1>2, <2>1 DEF vars
  <2>2. ASSUME NEW r \in Procs, BLKFLSBUF(r) PROVE NoFlushStops'
    <3>1. UNCHANGED pc
      BY <1>2, <2>2, FlushAlone
    <3> QED BY <1>2, <3>1
  <2>3. ASSUME NEW r \in Procs,
               \/ Open(r) \/ Close(r)
               \/ \E b \in Bios, v \in Values : StartBio(r, b, v)
               \/ LookupFails(r)
               \/ SetupFinds(r) \/ Allocate(r) \/ AllocateFails(r)
               \/ Insert(r) \/ SetIndex(r) \/ InsertLoses(r)
               \/ CopyFinds(r) \/ CopyMisses(r) \/ CopySector(r) \/ EndBio(r)
        PROVE  NoFlushStops'
    <3>1. DOMAIN pc = Procs
      BY <1>2 DEF IInv
    <3>2. UNCHANGED pc \/ \E c : c # "bug_flush" /\ pc' = [pc EXCEPT ![r] = c]
      BY <2>3 DEF Open, Close, StartBio, first_pass, LookupFails, SetupFinds, set_up,
         Allocate, AllocateFails, end_bio, Insert, SetIndex, InsertLoses, CopyFinds,
         CopyMisses, CopySector, advance, EndBio, goto
    <3> QED BY <1>2, <3>1, <3>2
  <2> QED BY <1>2, <2>1, <2>2, <2>3 DEF Next
<1>3. ASSUME IInv, NoFlushStops, [Next]_vars PROVE [W]_vars
  <2> SUFFICES ASSUME NEW p \in Procs, pc[p] \notin {"bug_setup", "bug_find"},
                      pc'[p] \in {"bug_setup", "bug_find"}, Next
               PROVE  \E q \in Procs : pc[q] = "index" /\ idx(here(q)) = idx(here(p))
    BY <1>2, <1>3 DEF stopped
  <2>1. DOMAIN pc = Procs
    BY <1>3 DEF IInv
  <2>2. PICK r \in Procs :
          \/ Open(r) \/ Close(r) \/ BLKFLSBUF(r)
          \/ \E b \in Bios, v \in Values : StartBio(r, b, v)
          \/ LookupFails(r)
          \/ SetupFinds(r) \/ Allocate(r) \/ AllocateFails(r)
          \/ Insert(r) \/ SetIndex(r) \/ InsertLoses(r)
          \/ CopyFinds(r) \/ CopyMisses(r) \/ CopySector(r) \/ EndBio(r)
    BY DEF Next
  <2>3. pc'[p] # pc[p]
    OBVIOUS
  <2>4. ~BLKFLSBUF(r)
    BY <1>3, <2>3, FlushAlone
  <2>5. LookupFails(r) \/ CopyMisses(r)
    BY <2>1, <2>2, <2>3, <2>4 DEF Open, Close, StartBio, first_pass, SetupFinds,
       set_up, Allocate, AllocateFails, end_bio, Insert, SetIndex, InsertLoses,
       CopyFinds, CopySector, advance, EndBio, goto
  <2>6. ~CopyMisses(r)
    <3> SUFFICES ASSUME CopyMisses(r) PROVE FALSE
      OBVIOUS
    <3>1. pc[r] = "find" /\ misses(r, "find")
      BY DEF CopyMisses, misses
    <3>2. PICK b \in Bios : ServingOK(io[r], pc[r], pages_in_tree, b)
      BY <1>3, <3>1, InBio
    <3>3. b.rw # "write"
      BY <1>3, <3>1, <3>2, WriteFinds
    <3>4. pc'[r] \in {"setup", "find", "done"} /\ OnlyOf(r)
      BY <1>3, <3>2, <3>3, CopyMissesLocal
    <3>5. p = r
      BY <2>1, <2>3, <3>4 DEF OnlyOf
    <3> QED BY <3>4, <3>5
  <2>7. LookupFails(r) /\ p = r
    BY <2>1, <2>3, <2>5, <2>6 DEF LookupFails, goto
  <2>8. idx(here(p)) \in pages_in_tree /\ ~brd_pages[idx(here(p))].indexed
    BY <1>3, <2>7, PageAtHand DEF LookupFails, page
  <2> QED BY <1>3, <2>8 DEF IInv, PagesOK
<1> QED BY <1>1, <1>2, <1>3, Invariance, PTL DEF Spec, StopsOnlyInWindow
-------------------------------------------------------------------------------
(* The refinement of SectorStore.                                          *)

\* The sectors of a bio before sector n.
done_upto(b, n) == {s \in sectors_of(b) : s < n}

\* A process that is at c with the locals l in the bio b, as SectorStore sees it.
as_doing(l, c, b) ==
  [bio |-> {b}, value |-> l.value, done |-> done_upto(b, undone_from(l, c)), buf |-> l.buf]

\* What the abstract store sees of a process in a bio follows from its locals.
LEMMA DoingInBio ==
  ASSUME NEW p \in Procs, NEW T, NEW b
  PROVE  /\ ServingOK(io[p], pc[p], T, b) => doing[p] = as_doing(io[p], pc[p], b)
         /\ ServingOK(io'[p], pc'[p], T, b) => doing'[p] = as_doing(io'[p], pc'[p], b)
<1>1. ASSUME ServingOK(io[p], pc[p], T, b) PROVE doing[p] = as_doing(io[p], pc[p], b)
  <2>1. io[p].bio = {b}
    BY <1>1 DEF ServingOK
  <2>2. done_by(p) = done_upto(b, undone_from(io[p], pc[p]))
    BY <2>1 DEF done_by, done_upto, undone_from, here
  <2>3. doing[p] = [bio |-> io[p].bio, value |-> io[p].value, done |-> done_by(p),
                    buf |-> io[p].buf]
    BY DEF doing
  <2> QED BY <2>1, <2>2, <2>3 DEF as_doing
<1>2. ASSUME ServingOK(io'[p], pc'[p], T, b) PROVE doing'[p] = as_doing(io'[p], pc'[p], b)
  <2>1. io'[p].bio = {b}
    BY <1>2 DEF ServingOK
  <2>2. done_by(p)' = done_upto(b, undone_from(io'[p], pc'[p]))
    BY <2>1 DEF done_by, done_upto, undone_from, here, sectors_of
  <2>3. doing'[p] = [bio |-> io'[p].bio, value |-> io'[p].value, done |-> done_by(p)',
                     buf |-> io'[p].buf]
    BY DEF doing
  <2> QED BY <2>1, <2>2, <2>3 DEF as_doing
<1> QED BY <1>1, <1>2

\* A process in no bio.
LEMMA DoingNothing ==
  ASSUME NEW p \in Procs
  PROVE  /\ io[p] = no_io => doing[p] = Disk!nothing
         /\ io'[p] = no_io => doing'[p] = Disk!nothing
<1>1. /\ no_io.bio = {} /\ no_io.value = 0 /\ no_io.buf = <<>>
  BY DEF no_io
<1>2. io[p] = no_io => done_by(p) = {}
  BY <1>1 DEF done_by
<1>3. io'[p] = no_io => done_by(p)' = {}
  BY <1>1 DEF done_by
<1>4. /\ doing[p] = [bio |-> io[p].bio, value |-> io[p].value, done |-> done_by(p),
                     buf |-> io[p].buf]
      /\ doing'[p] = [bio |-> io'[p].bio, value |-> io'[p].value, done |-> done_by(p)',
                      buf |-> io'[p].buf]
  BY DEF doing
<1> HIDE DEF done_by
<1> QED BY <1>1, <1>2, <1>3, <1>4 DEF Disk!nothing

\* A step of p's alone is one of p's alone for SectorStore too.
LEMMA DoingStep ==
  ASSUME IInv, NEW p \in Procs, OnlyOf(p)
  PROVE  doing' = [doing EXCEPT ![p] = doing'[p]]
<1>1. \A q \in Procs \ {p} : io'[q] = io[q] /\ pc'[q] = pc[q]
  BY DEF OnlyOf, IInv
<1>2. \A q \in Procs \ {p} : done_by(q)' = done_by(q)
  BY <1>1 DEF done_by, here, sectors_of
<1>3. \A q \in Procs \ {p} : doing'[q] = doing[q]
  <2> HIDE DEF done_by
  <2> QED BY <1>1, <1>2 DEF doing
<1>4. /\ doing = [q \in Procs |-> doing[q]] /\ doing' = [q \in Procs |-> doing'[q]]
      /\ DOMAIN doing = Procs
  BY DEF doing
<1> HIDE DEF doing
<1> QED BY <1>3, <1>4

\* What the disk holds in a sector.
LEMMA ContentAt ==
  ASSUME PagesOK, NEW s \in Sector
  PROVE  /\ s \in Nat /\ idx(s) \in PageNumber /\ offset(s) \in 0 .. (PAGE_SECTORS - 1)
         /\ content[s] = IF idx(s) \in pages_in_tree THEN brd_pages[idx(s)].data[offset(s)]
                         ELSE 0
<1>1. s \in Nat /\ s < PAGES * PAGE_SECTORS
  <2> DEFINE n == PAGES * PAGE_SECTORS
  <2>1. n \in Nat /\ s \in 0 .. (n - 1)
    BY SizesAssumption DEF Sector
  <2> HIDE DEF n
  <2>2. s \in Nat /\ s < n
    BY <2>1
  <2> QED BY <2>2 DEF n
<1>2. idx(s) \in PageNumber /\ offset(s) \in 0 .. (PAGE_SECTORS - 1)
  BY <1>1, SectorInPage
<1>3. idx(s) \in pages_in_tree <=> brd_pages[idx(s)] # NoPage
  BY <1>2 DEF pages_in_tree, PagesOK
<1> QED BY <1>1, <1>2, <1>3 DEF content

\* A sector is told from the others by its page and its place there.
LEMMA SectorApart ==
  ASSUME NEW s \in Nat, NEW r \in Nat, idx(s) = idx(r), offset(s) = offset(r)
  PROVE  s = r
<1> DEFINE n == PAGE_SECTORS
<1>1. /\ s = n * (s \div n) + (s % n) /\ r = n * (r \div n) + (r % n)
  <2>1. n \in Nat \ {0}
    BY SizesAssumption
  <2> HIDE DEF n
  <2> QED BY <2>1, Division
<1> HIDE DEF n
<1>2. s \div n = r \div n /\ s % n = r % n
  BY DEF idx, offset, n
<1> QED BY <1>1, <1>2

\* The end of a range, written both ways.
LEMMA DotsToEnd ==
  ASSUME NEW a \in Nat, NEW n \in Nat PROVE a .. (a + n - 1) = a .. ((a + n) - 1)
<1>1. a + n - 1 = (a + n) - 1
  OBVIOUS
<1> QED BY <1>1

\* Doing the sectors from u up to w of a bio that is done up to u.
LEMMA PartDone ==
  ASSUME NEW b \in Bios, NEW u \in Nat, NEW w \in Nat,
         first_of(b) <= u, u < w, w <= first_of(b) + bi_size(lens_of(b))
  PROVE  /\ u .. (w - 1) # {} /\ u .. (w - 1) \subseteq sectors_of(b) \ done_upto(b, u)
         /\ done_upto(b, w) = done_upto(b, u) \cup (u .. (w - 1))
<1> DEFINE n == first_of(b) + bi_size(lens_of(b))
<1>1. first_of(b) \in Nat /\ bi_size(lens_of(b)) \in Nat /\ n \in Nat
  BY BioLens
<1>2. sectors_of(b) = first_of(b) .. (n - 1)
  BY <1>1, DotsToEnd DEF sectors_of
<1>3. w <= n
  OBVIOUS
<1> HIDE DEF n
<1>4. u \in u .. (w - 1)
  OBVIOUS
<1>5. ASSUME NEW s \in u .. (w - 1) PROVE s \in first_of(b) .. (n - 1) /\ s < w /\ ~(s < u)
  BY <1>1, <1>3
<1>6. ASSUME NEW s \in first_of(b) .. (n - 1), s < w, ~(s < u) PROVE s \in u .. (w - 1)
  BY <1>1, <1>6
<1>7. ASSUME NEW s \in first_of(b) .. (n - 1), s < u PROVE s < w
  BY <1>1, <1>7
<1> HIDE DEF sectors_of
<1> QED BY <1>2, <1>4, <1>5, <1>6, <1>7 DEF done_upto

\* The sectors of a bio in service are the disk's, and it has done no more.
LEMMA BioOnDisk ==
  ASSUME NEW l, NEW c, NEW T, NEW b \in Bios, ServingOK(l, c, T, b)
  PROVE  /\ sectors_of(b) \subseteq Sector
         /\ undone_from(l, c) \in Nat /\ first_of(b) <= undone_from(l, c)
         /\ undone_from(l, c) <= first_of(b) + bi_size(lens_of(b))
<1> DEFINE n == PAGES * PAGE_SECTORS
           e == first_of(b) + bi_size(lens_of(b))
<1>1. n \in Nat /\ e <= n /\ first_of(b) \in Nat
  BY SizesAssumption DEF ServingOK
<1>2. bi_size(lens_of(b)) \in Nat /\ e \in Nat
  BY <1>1, BioLens
<1>3. sectors_of(b) = first_of(b) .. (e - 1) /\ Sector = 0 .. (n - 1)
  BY <1>1, <1>2, DotsToEnd DEF sectors_of, Sector
<1>4. /\ l.sector \in Nat /\ l.i \in Nat /\ first_of(b) <= l.sector /\ l.i <= Head(l.lens)
      /\ Head(l.lens) \in Nat /\ l.sector + Head(l.lens) <= e
  BY SegmentAtHand DEF ServingOK
<1>5. undone_from(l, c) = l.sector \/ undone_from(l, c) = l.sector + l.i
  BY DEF undone_from
<1> HIDE DEF n, e
<1>6. /\ l.sector <= e /\ l.sector + l.i \in Nat /\ l.sector + l.i <= e
      /\ first_of(b) <= l.sector + l.i
  BY <1>1, <1>2, <1>4
<1>7. first_of(b) .. (e - 1) \subseteq 0 .. (n - 1)
  BY <1>1, <1>2
<1> QED BY <1>3, <1>4, <1>5, <1>6, <1>7 DEF e

\* What SectorStore does not see: a process finds, makes or misses its pages.
LEMMA InvisibleStep ==
  ASSUME IInv, NEW p \in Procs, OnlyOf(p), NEW b, NEW T,
         ServingOK(io[p], pc[p], pages_in_tree, b), ServingOK(io'[p], pc'[p], T, b),
         io'[p].buf = io[p].buf, io'[p].value = io[p].value,
         undone_from(io'[p], pc'[p]) = undone_from(io[p], pc[p]),
         content' = content, UNCHANGED failed
  PROVE  UNCHANGED Disk!vars
<1>1. doing'[p] = doing[p]
  <2>1. /\ doing[p] = as_doing(io[p], pc[p], b)
        /\ doing'[p] = as_doing(io'[p], pc'[p], b)
    BY DoingInBio
  <2> QED BY <2>1 DEF as_doing
<1>2. doing' = [doing EXCEPT ![p] = doing[p]]
  BY <1>1, DoingStep
<1>3. doing' = doing
  <2>1. doing = [q \in Procs |-> doing[q]]
    BY DEF doing
  <2> HIDE DEF doing
  <2> QED BY <1>2, <2>1
<1> QED BY <1>3 DEF Disk!vars

\* What a read changes of a bio in progress.
LEMMA DoneAndRead ==
  ASSUME NEW d, NEW D, NEW B,
         d = [bio |-> d.bio, value |-> d.value, done |-> d.done, buf |-> d.buf]
  PROVE  [d EXCEPT !.done = D, !.buf = B] =
           [bio |-> d.bio, value |-> d.value, done |-> D, buf |-> B]
<1> DEFINE c == [d EXCEPT !.done = D]
<1>1. c = [bio |-> d.bio, value |-> d.value, done |-> D, buf |-> d.buf]
  OBVIOUS
<1>2. [d EXCEPT !.done = D, !.buf = B] = [c EXCEPT !.buf = B]
  OBVIOUS
<1> HIDE DEF c
<1>3. [c EXCEPT !.buf = B] = [bio |-> d.bio, value |-> d.value, done |-> D, buf |-> B]
  BY <1>1
<1> QED BY <1>2, <1>3

\* The sectors u .. w - 1 are read, or changed, at once.
LEMMA TouchStep ==
  ASSUME IInv, NEW p \in Procs, OnlyOf(p), NEW b \in Bios, NEW T,
         ServingOK(io[p], pc[p], pages_in_tree, b), ServingOK(io'[p], pc'[p], T, b),
         io'[p].value = io[p].value, UNCHANGED failed,
         NEW u, u = undone_from(io[p], pc[p]),
         NEW w, w = undone_from(io'[p], pc'[p]), u < w,
         \/ /\ b.rw = "read" /\ content' = content
            /\ io'[p].buf = io[p].buf @@ [s \in u .. (w - 1) |-> content[s]]
         \/ /\ b.rw \in {"write", "discard"} /\ io'[p].buf = io[p].buf
            /\ \A s \in Sector : content'[s] = IF s \notin u .. (w - 1) THEN content[s]
                                               ELSE IF b.rw = "write" THEN io[p].value ELSE 0
  PROVE  Disk!Next
<1> DEFINE S == u .. (w - 1)
           d == doing[p]
<1>1. u \in Nat /\ w \in Nat /\ first_of(b) <= u /\ w <= first_of(b) + bi_size(lens_of(b))
  BY BioOnDisk
<1>2. /\ S # {} /\ S \subseteq sectors_of(b) \ done_upto(b, u)
      /\ done_upto(b, w) = done_upto(b, u) \cup S
  BY <1>1, PartDone
<1>3. /\ d = [bio |-> {b}, value |-> io[p].value, done |-> done_upto(b, u),
              buf |-> io[p].buf]
      /\ doing'[p] = [bio |-> {b}, value |-> io[p].value, done |-> done_upto(b, w),
                      buf |-> io'[p].buf]
  <2>1. /\ doing[p] = as_doing(io[p], pc[p], b)
        /\ doing'[p] = as_doing(io'[p], pc'[p], b)
    BY DoingInBio
  <2> QED BY <2>1 DEF as_doing
<1>4. doing' = [doing EXCEPT ![p] = doing'[p]] /\ DOMAIN doing = Procs
  BY DoingStep DEF doing
<1> HIDE DEF S, d, doing
<1>5. d.bio = {b} /\ d.value = io[p].value /\ d.done = done_upto(b, u) /\ d.buf = io[p].buf
  BY <1>3
<1>6. S \in SUBSET Disk!remaining(p, b)
  BY <1>2, <1>5 DEF Disk!remaining, d
<1>7. CASE b.rw = "read"
  <2>1. content' = content /\ io'[p].buf = d.buf @@ [s \in S |-> content[s]]
    BY <1>5, <1>7 DEF S
  <2>2. doing'[p] = [d EXCEPT !.done = @ \cup S, !.buf = @ @@ [s \in S |-> content[s]]]
    <3> DEFINE B == d.buf @@ [s \in S |-> content[s]]
               D == d.done \cup S
    <3>1. doing'[p] = [bio |-> {b}, value |-> d.value, done |-> D, buf |-> B]
      BY <1>2, <1>3, <1>5, <2>1
    <3>2. d = [bio |-> d.bio, value |-> d.value, done |-> d.done, buf |-> d.buf]
      BY <1>3
    <3> HIDE DEF B, D
    <3>3. doing'[p] = [d EXCEPT !.done = D, !.buf = B]
      <4>1. [d EXCEPT !.done = D, !.buf = B] =
              [bio |-> d.bio, value |-> d.value, done |-> D, buf |-> B]
        BY <3>2, DoneAndRead, Zenon
      <4> QED BY <1>5, <3>1, <4>1
    <3> QED BY <3>3 DEF B, D
  <2>3. doing' = [doing EXCEPT ![p].done = @ \cup S,
                               ![p].buf = @ @@ [s \in S |-> content[s]]]
    BY <1>4, <2>2 DEF d
  <2>4. Disk!Read(p, b, S)
    BY <1>7, <2>1, <2>3 DEF Disk!Read
  <2>5. Disk!Touch(p, b)
    BY <1>2, <1>6, <2>4 DEF Disk!Touch
  <2> QED BY <1>5, <2>5 DEF Disk!Next, d
<1>8. CASE b.rw # "read"
  <2>1. b.rw \in {"write", "discard"} /\ io'[p].buf = d.buf
    BY <1>5, <1>8
  <2>2. doing'[p] = [d EXCEPT !.done = @ \cup S]
    <3> DEFINE D == d.done \cup S
    <3>1. doing'[p] = [bio |-> {b}, value |-> d.value, done |-> D, buf |-> d.buf]
      BY <1>2, <1>3, <1>5, <2>1
    <3>2. d = [bio |-> {b}, value |-> d.value, done |-> d.done, buf |-> d.buf]
      BY <1>3
    <3> HIDE DEF D
    <3>3. doing'[p] = [d EXCEPT !.done = D]
      BY <3>1, <3>2
    <3> QED BY <3>3 DEF D
  <2>3. doing' = [doing EXCEPT ![p].done = @ \cup S]
    BY <1>4, <2>2 DEF d
  <2>4. content' = [s \in Sector |-> IF s \notin S THEN content[s]
                                     ELSE IF b.rw = "write" THEN doing[p].value ELSE 0]
    <3>1. content' = [s \in Sector |-> content'[s]]
      BY DEF content, Sector
    <3>2. \A s \in Sector : content'[s] = IF s \notin S THEN content[s]
                                          ELSE IF b.rw = "write" THEN d.value ELSE 0
      BY <1>5, <1>8 DEF S
    <3> HIDE DEF content, Sector
    <3> QED BY <3>1, <3>2 DEF d
  <2>5. Disk!Change(p, b, S)
    BY <2>1, <2>3, <2>4 DEF Disk!Change
  <2>6. Disk!Touch(p, b)
    BY <1>2, <1>6, <2>5 DEF Disk!Touch
  <2> QED BY <1>5, <2>6 DEF Disk!Next, d
<1> QED BY <1>7, <1>8

\* A bio that has just begun, for SectorStore.
LEMMA BioAndValue ==
  ASSUME NEW bio, NEW value
  PROVE  [Disk!nothing EXCEPT !.bio = bio, !.value = value] =
           [bio |-> bio, value |-> value, done |-> {}, buf |-> <<>>]
<1> DEFINE n == Disk!nothing
           c == [n EXCEPT !.bio = bio]
           z == 0
           none == {}
           empty == <<>>
<1>1. n = [bio |-> none, value |-> z, done |-> none, buf |-> empty]
  BY DEF Disk!nothing
<1> HIDE DEF n, z, none, empty
<1>2. c = [bio |-> bio, value |-> z, done |-> none, buf |-> empty]
  BY <1>1
<1>3. [n EXCEPT !.bio = bio, !.value = value] = [c EXCEPT !.value = value]
  OBVIOUS
<1> HIDE DEF c
<1>4. [c EXCEPT !.value = value] = [bio |-> bio, value |-> value, done |-> none, buf |-> empty]
  BY <1>2
<1> QED BY <1>3, <1>4 DEF n, none, empty

\* A bio's start, its end, and giving it up for want of memory.
LEMMA BeginsAndEnds ==
  ASSUME IInv, NEW p \in Procs,
         (\E b \in Bios, v \in Values : StartBio(p, b, v)) \/ AllocateFails(p) \/ EndBio(p)
  PROVE  Disk!Next
<1>1. /\ DOMAIN io = Procs /\ DOMAIN pc = Procs /\ io = [q \in Procs |-> io[q]]
      /\ DOMAIN doing = Procs
  BY DEF IInv, doing
<1>2. ASSUME NEW b \in Bios, NEW v \in Values, StartBio(p, b, v) PROVE Disk!Next
  <2> DEFINE w == IF b.rw = "write" THEN v ELSE 0
  <2>1. /\ pc[p] = "open" /\ UNCHANGED brd_pages
        /\ failed' = [failed EXCEPT ![p] = FALSE]
    BY <1>2 DEF StartBio
  <2>2. /\ OnlyOf(p) /\ ServingOK(io'[p], pc'[p], {}, b)
        /\ io'[p].buf = <<>> /\ io'[p].value = w
        /\ undone_from(io'[p], pc'[p]) = first_of(b)
    BY <1>1, <1>2, StartLocal
  <2>3. doing[p] = Disk!nothing
    <3>1. LocalOK(io[p], pc[p], pages_in_tree)
      BY DEF IInv
    <3>2. io[p] = no_io
      BY <2>1, <3>1 DEF LocalOK, ServingOK, Serving, Setup
    <3> QED BY <3>2, DoingNothing
  <2>4. done_upto(b, first_of(b)) = {}
    <3>1. first_of(b) \in Nat /\ bi_size(lens_of(b)) \in Nat
      BY BioLens
    <3>2. ASSUME NEW s \in sectors_of(b) PROVE ~(s < first_of(b))
      BY <3>1 DEF sectors_of
    <3> QED BY <3>2 DEF done_upto
  <2>5. doing'[p] = [bio |-> {b}, value |-> w, done |-> {}, buf |-> <<>>]
    <3>1. doing'[p] = as_doing(io'[p], pc'[p], b)
      BY <2>2, DoingInBio
    <3> QED BY <2>2, <2>4, <3>1 DEF as_doing
  <2>6. doing' = [doing EXCEPT ![p] = doing'[p]]
    BY <2>2, DoingStep
  <2> HIDE DEF doing, w
  <2>7. doing'[p] = [Disk!nothing EXCEPT !.bio = {b}, !.value = w]
    BY <2>5, BioAndValue
  <2>8. content' = content
    BY <2>1 DEF content
  <2>9. w \in Values
    BY SizesAssumption DEF w
  <2>10. Disk!Begin(p, b, w)
    BY <2>1, <2>3, <2>6, <2>7, <2>8 DEF Disk!Begin
  <2> QED BY <2>9, <2>10 DEF Disk!Next
<1>3. CASE AllocateFails(p) \/ EndBio(p)
  <2>1. /\ pc[p] \in {"setup", "done"} /\ UNCHANGED brd_pages
        /\ pc[p] = "setup" => end_bio(p, TRUE)
        /\ pc[p] = "done" => end_bio(p, FALSE)
    BY <1>3 DEF AllocateFails, EndBio, misses
  <2> DEFINE fails == pc[p] = "setup"
  <2>2. fails \in BOOLEAN /\ end_bio(p, fails)
    BY <2>1, Zenon
  <2>3. /\ io'[p] = no_io /\ OnlyOf(p)
        /\ failed' = [failed EXCEPT ![p] = fails]
    BY <1>1, <2>2 DEF end_bio, goto, OnlyOf
  <2>4. PICK b \in Bios : ServingOK(io[p], pc[p], pages_in_tree, b)
    BY <2>1, InBio
  <2>5. doing[p] = as_doing(io[p], pc[p], b)
    BY <2>4, DoingInBio
  <2>6. doing[p].bio = {b} /\ doing[p].done = done_upto(b, undone_from(io[p], pc[p]))
    BY <2>5 DEF as_doing
  <2>7. fails => b.rw = "write"
    BY <2>4 DEF ServingOK, Setup
  <2>8. ASSUME ~fails PROVE Disk!remaining(p, b) = {}
    <3>1. pc[p] = "done"
      BY <2>1, <2>8
    <3> DEFINE l == io[p]
    <3>2. /\ l.i = Head(l.lens) /\ Len(l.lens) = 1
          /\ l.sector + bi_size(l.lens) = first_of(b) + bi_size(lens_of(b))
      BY <2>4, <3>1 DEF ServingOK
    <3>3. bi_size(l.lens) = Head(l.lens)
      BY <2>4, <3>2, SegmentAtHand
    <3>4. undone_from(l, pc[p]) = first_of(b) + bi_size(lens_of(b))
      BY <3>1, <3>2, <3>3 DEF undone_from
    <3>5. first_of(b) \in Nat /\ bi_size(lens_of(b)) \in Nat
      BY BioLens
    <3>6. ASSUME NEW s \in sectors_of(b) PROVE s < first_of(b) + bi_size(lens_of(b))
      BY <3>5 DEF sectors_of
    <3>7. sectors_of(b) \subseteq doing[p].done
      BY <2>6, <3>4, <3>6 DEF done_upto
    <3> QED BY <3>7 DEF Disk!remaining
  <2>9. doing' = [doing EXCEPT ![p] = Disk!nothing]
    <3>1. doing'[p] = Disk!nothing
      BY <2>3, DoingNothing
    <3> QED BY <2>3, <3>1, DoingStep
  <2>10. content' = content
    BY <2>1 DEF content
  <2> HIDE DEF doing, fails
  <2>11. Disk!End(p, b, fails)
    BY <2>3, <2>7, <2>8, <2>9, <2>10 DEF Disk!End
  <2> QED BY <2>2, <2>6, <2>11 DEF Disk!Next
<1> QED BY <1>2, <1>3

\* Copying, reading zeroes and skipping what is not there touch sectors of the bio.
LEMMA Touches ==
  ASSUME ~SharedOpen, IInv, NEW p \in Procs, CopyMisses(p) \/ CopySector(p)
  PROVE  Disk!Next
<1>1. pc[p] \in {"find", "copy"} /\ UNCHANGED failed
  BY DEF CopyMisses, CopySector, misses
<1>2. PICK b \in Bios : ServingOK(io[p], pc[p], pages_in_tree, b)
  BY <1>1, InBio
<1>3. PagesOK
  BY DEF IInv
<1>4. b.rw \in {"read", "write", "discard"}
  BY BiosAssumption
<1> DEFINE u == undone_from(io[p], pc[p])
           w == undone_from(io'[p], pc'[p])
<1>5. u = here(p) /\ here(p) \in Nat
  BY <1>1, PageAtHand DEF undone_from, here
<1>6. CASE CopyMisses(p)
  <2> DEFINE e == end_of_part(p)
  <2>1. /\ b.rw # "write" /\ OnlyOf(p)
        /\ ServingOK(io'[p], pc'[p], pages_in_tree, b)
        /\ io'[p].buf = (IF b.rw = "read"
                         THEN io[p].buf @@ [s \in here(p) .. (io[p].sector + e - 1) |-> 0]
                         ELSE io[p].buf)
        /\ io'[p].value = io[p].value
        /\ w = io[p].sector + e
    <3>1. b.rw # "write"
      BY <1>2, <1>6, WriteFinds DEF CopyMisses
    <3> QED BY <1>2, <1>6, <3>1, CopyMissesLocal
  <2>2. /\ pc[p] = "find" /\ page(p) = NoPage /\ UNCHANGED brd_pages
    BY <1>6 DEF CopyMisses, misses
  <2>3. /\ io[p].sector \in Nat /\ io[p].i \in Nat /\ io[p].i < Head(io[p].lens)
        /\ Head(io[p].lens) \in Nat
    BY <1>2, <2>2, SegmentAtHand DEF ServingOK
  <2>4. /\ e \in Nat /\ io[p].i < e
        /\ \A s \in here(p) .. (io[p].sector + e - 1) : idx(s) = idx(here(p))
    BY <2>3, PartInPage
  <2>5. u < w /\ w \in Nat
    BY <1>5, <2>1, <2>3, <2>4 DEF here
  <2>6. u .. (w - 1) = here(p) .. (io[p].sector + e - 1)
    <3>1. (io[p].sector + e) - 1 = io[p].sector + e - 1
      BY <2>3, <2>4
    <3> QED BY <1>5, <2>1, <3>1
  <2>7. content' = content
    BY <2>2 DEF content
  <2>8. idx(here(p)) \notin pages_in_tree
    BY <2>2, PageAtHand
  <2>9. ASSUME NEW s \in u .. (w - 1) PROVE s \in Sector /\ content[s] = 0
    <3>1. s \in Sector
      <4>1. s \in sectors_of(b) /\ sectors_of(b) \subseteq Sector
        <5> HIDE DEF u, w
        <5>1. w <= first_of(b) + bi_size(lens_of(b)) /\ first_of(b) <= u /\ u \in Nat
          BY <1>2, <2>1, BioOnDisk DEF u, w
        <5>2. u .. (w - 1) \subseteq sectors_of(b)
          BY <2>5, <5>1, PartDone
        <5> QED BY <1>2, <2>9, <5>2, BioOnDisk
      <4> QED BY <4>1
    <3>2. idx(s) = idx(here(p))
      BY <2>4, <2>6, <2>9
    <3> QED BY <1>3, <2>8, <3>1, <3>2, ContentAt
  <2> HIDE DEF u, w, e, content
  <2>10. CASE b.rw = "read"
    <3>1. [s \in u .. (w - 1) |-> content[s]] = [s \in u .. (w - 1) |-> 0]
      BY <2>9
    <3>2. io'[p].buf = io[p].buf @@ [s \in u .. (w - 1) |-> content[s]]
      BY <2>1, <2>6, <2>10, <3>1
    <3> QED BY <1>1, <1>2, <2>1, <2>5, <2>7, <2>10, <3>2, TouchStep DEF u, w
  <2>11. CASE b.rw # "read"
    <3>1. b.rw = "discard" /\ io'[p].buf = io[p].buf
      BY <1>4, <2>1, <2>11
    <3>2. \A s \in Sector : content'[s] = IF s \notin u .. (w - 1) THEN content[s]
                                          ELSE IF b.rw = "write" THEN io[p].value ELSE 0
      BY <2>7, <2>9, <3>1
    <3> QED BY <1>1, <1>2, <2>1, <2>5, <3>1, <3>2, TouchStep DEF u, w
  <2> QED BY <2>10, <2>11
<1>7. CASE CopySector(p)
  <2> DEFINE h == here(p)
             x == idx(h)
             z == [t \in {h} |-> brd_pages[idx(t)].data[offset(t)]]
  <2>1. /\ OnlyOf(p) /\ ServingOK(io'[p], pc'[p], pages_in_tree, b)
        /\ io'[p].buf = (IF b.rw = "read" THEN io[p].buf @@ z ELSE io[p].buf)
        /\ io'[p].value = io[p].value
        /\ w = h + 1
    BY <1>2, <1>7, CopySectorLocal
  <2>2. u .. (w - 1) = {h} /\ u < w /\ w \in Nat
    <3>1. w - 1 = h
      BY <1>5, <2>1
    <3>2. h .. h = {h}
      BY <1>5
    <3> QED BY <1>5, <2>1, <3>1, <3>2
  <2>3. /\ x \in pages_in_tree
        /\ \A y \in PageNumber : brd_pages'[y] = NoPage <=> brd_pages[y] = NoPage
        /\ b.rw = "read" => brd_pages' = brd_pages
        /\ b.rw # "read" =>
             \A y \in pages_in_tree, o \in 0 .. (PAGE_SECTORS - 1) :
               brd_pages'[y].data[o] =
                 IF y = x /\ o = offset(h) THEN IF b.rw = "write" THEN io[p].value ELSE 0
                 ELSE brd_pages[y].data[o]
    BY <1>2, <1>7, CopySectorPages
  <2>4. h \in Sector
    <3>1. w <= first_of(b) + bi_size(lens_of(b)) /\ first_of(b) <= u /\ u \in Nat
      BY <1>2, <2>1, BioOnDisk
    <3>2. u .. (w - 1) \subseteq sectors_of(b)
      <4> HIDE DEF u, w
      <4> QED BY <2>2, <3>1, PartDone
    <3>3. sectors_of(b) \subseteq Sector
      BY <1>2, BioOnDisk
    <3> QED BY <2>2, <3>2, <3>3
  <2>5. z = [s \in {h} |-> content[s]]
    BY <1>3, <2>3, <2>4, ContentAt
  <2> HIDE DEF u, w, h, z, x
  <2>6. CASE b.rw = "read"
    <3>1. content' = content
      BY <2>3, <2>6 DEF content
    <3>2. z = [s \in u .. (w - 1) |-> content[s]]
      BY <2>2, <2>5
    <3>3. io'[p].buf = io[p].buf @@ [s \in u .. (w - 1) |-> content[s]]
      BY <2>1, <2>6, <3>2
    <3> QED BY <1>1, <1>2, <2>1, <2>2, <2>6, <3>1, <3>3, TouchStep DEF u, w
  <2>7. CASE b.rw # "read"
    <3>1. b.rw \in {"write", "discard"} /\ io'[p].buf = io[p].buf
      BY <1>4, <2>1, <2>7
    <3>2. ASSUME NEW s \in Sector
          PROVE  content'[s] = IF s \notin u .. (w - 1) THEN content[s]
                               ELSE IF b.rw = "write" THEN io[p].value ELSE 0
      <4>1. /\ s \in Nat /\ idx(s) \in PageNumber /\ offset(s) \in 0 .. (PAGE_SECTORS - 1)
            /\ content[s] = IF idx(s) \in pages_in_tree THEN brd_pages[idx(s)].data[offset(s)]
                            ELSE 0
        BY <1>3, ContentAt
      <4>2. content'[s] = IF idx(s) \in pages_in_tree THEN brd_pages'[idx(s)].data[offset(s)]
                          ELSE 0
        <5>1. idx(s) \in pages_in_tree <=> brd_pages'[idx(s)] # NoPage
          BY <1>3, <2>3, <4>1 DEF pages_in_tree, PagesOK
        <5>2. content'[s] = IF brd_pages'[idx(s)] = NoPage THEN 0
                            ELSE brd_pages'[idx(s)].data[offset(s)]
          BY DEF content
        <5> QED BY <5>1, <5>2
      <4>3. CASE s = h
        BY <2>2, <2>3, <2>7, <4>1, <4>2, <4>3 DEF x
      <4>4. CASE s # h
        <5>1. ~(idx(s) = x /\ offset(s) = offset(h))
          BY <1>5, <4>1, <4>4, SectorApart DEF x, h
        <5> QED BY <2>2, <2>3, <2>7, <4>1, <4>2, <4>4, <5>1
      <4> QED BY <4>3, <4>4
    <3> HIDE DEF content
    <3> QED BY <1>1, <1>2, <2>1, <2>2, <3>1, <3>2, TouchStep DEF u, w
  <2> QED BY <2>6, <2>7
<1> QED BY <1>6, <1>7

\* Opening and closing, and all a process does to find, make and miss its pages, is
\* not seen on the disk.
LEMMA Invisible ==
  ASSUME IInv, NEW p \in Procs,
         \/ Open(p) \/ Close(p) \/ LookupFails(p) \/ SetupFinds(p) \/ Allocate(p)
         \/ InsertLoses(p) \/ CopyFinds(p) \/ Insert(p) \/ SetIndex(p)
  PROVE  UNCHANGED Disk!vars
<1>1. /\ DOMAIN io = Procs /\ DOMAIN pc = Procs /\ io = [q \in Procs |-> io[q]]
      /\ PagesOK
  BY DEF IInv
<1>2. UNCHANGED failed
  BY DEF Open, Close, LookupFails, SetupFinds, Allocate, InsertLoses, CopyFinds, Insert,
         SetIndex
<1>3. CASE Open(p) \/ Close(p)
  <2>1. /\ pc[p] \in {"closed", "open"} /\ io' = io /\ OnlyOf(p) /\ UNCHANGED brd_pages
    BY <1>1, <1>3 DEF Open, Close, goto, OnlyOf
  <2>2. io[p] = no_io
    <3>1. LocalOK(io[p], pc[p], pages_in_tree)
      BY DEF IInv
    <3> QED BY <2>1, <3>1 DEF LocalOK, ServingOK, Serving, Setup
  <2>3. doing'[p] = doing[p]
    BY <2>1, <2>2, DoingNothing
  <2>4. doing' = [doing EXCEPT ![p] = doing[p]]
    BY <2>1, <2>3, DoingStep
  <2>5. doing' = doing
    <3>1. doing = [q \in Procs |-> doing[q]]
      BY DEF doing
    <3> HIDE DEF doing
    <3> QED BY <2>4, <3>1
  <2>6. content' = content
    BY <2>1 DEF content
  <2> QED BY <1>2, <2>5, <2>6 DEF Disk!vars
<1>4. CASE LookupFails(p) \/ Allocate(p)
  <2>1. /\ OnlyOf(p) /\ io'[p] = io[p] /\ UNCHANGED brd_pages
        /\ \/ pc[p] = "setup" /\ pc'[p] \in {"insert", "bug_setup"}
           \/ pc[p] = "find" /\ pc'[p] = "bug_find"
    BY <1>1, <1>4 DEF LookupFails, Allocate, misses, goto, OnlyOf
  <2>2. PICK b \in Bios : ServingOK(io[p], pc[p], pages_in_tree, b)
    BY <2>1, InBio
  <2>3. /\ ServingOK(io'[p], pc'[p], pages_in_tree, b)
        /\ undone_from(io'[p], pc'[p]) = undone_from(io[p], pc[p])
    BY <2>1, <2>2, MoveLocal
  <2>4. content' = content
    BY <2>1 DEF content
  <2> QED BY <1>2, <2>1, <2>2, <2>3, <2>4, InvisibleStep
<1>5. CASE SetupFinds(p) \/ InsertLoses(p)
  <2>1. /\ set_up(p) /\ pc[p] \in {"setup", "insert"} /\ page(p) # NoPage
        /\ UNCHANGED brd_pages
    BY <1>5 DEF SetupFinds, InsertLoses, finds
  <2>2. PICK b \in Bios : ServingOK(io[p], pc[p], pages_in_tree, b)
    BY <2>1, InBio
  <2>3. idx(here(p)) \in pages_in_tree
    BY <2>1, PageAtHand
  <2>4. /\ OnlyOf(p) /\ ServingOK(io'[p], pc'[p], pages_in_tree, b)
        /\ io'[p].buf = io[p].buf /\ io'[p].value = io[p].value
        /\ undone_from(io'[p], pc'[p]) = undone_from(io[p], pc[p])
    BY <1>1, <2>1, <2>2, <2>3, SetUpLocal DEF Setup
  <2>5. content' = content
    BY <2>1 DEF content
  <2> QED BY <1>2, <2>2, <2>4, <2>5, InvisibleStep
<1>6. CASE CopyFinds(p)
  <2>1. pc[p] = "find" /\ UNCHANGED brd_pages
    BY <1>6 DEF CopyFinds, finds
  <2>2. PICK b \in Bios : ServingOK(io[p], pc[p], pages_in_tree, b)
    BY <2>1, InBio
  <2>3. content' = content
    BY <2>1 DEF content
  <2> QED BY <1>2, <1>6, <2>2, <2>3, CopyFindsLocal, InvisibleStep
<1>7. CASE Insert(p)
  <2> DEFINE x == idx(here(p))
  <2>1. /\ pc[p] = "insert" /\ io' = io /\ page(p) = NoPage
        /\ pc' = [pc EXCEPT ![p] = "index"]
    BY <1>7 DEF Insert, goto
  <2>2. PICK b \in Bios : ServingOK(io[p], pc[p], pages_in_tree, b)
    BY <2>1, InBio
  <2>3. x \in PageNumber /\ x \notin pages_in_tree
    <3> HIDE DEF PageNumber
    <3> QED BY <2>1, PageAtHand
  <2>4. ServingOK(io'[p], pc'[p], pages_in_tree \cup {x}, b)
    BY <1>1, <2>1, <2>2 DEF ServingOK, Serving, Setup, set_up_to, here
  <2>5. OnlyOf(p)
    BY <1>1, <2>1 DEF OnlyOf
  <2>6. undone_from(io'[p], pc'[p]) = undone_from(io[p], pc[p])
    BY <1>1, <2>1 DEF undone_from
  <2>7. PICK indexed \in BOOLEAN : brd_pages' = [brd_pages EXCEPT ![x] = new_page(indexed)]
    BY <1>7 DEF Insert
  <2>8. ASSUME NEW s \in Sector PROVE content'[s] = content[s]
    <3>1. /\ idx(s) \in PageNumber /\ offset(s) \in 0 .. (PAGE_SECTORS - 1)
          /\ content[s] = IF idx(s) \in pages_in_tree THEN brd_pages[idx(s)].data[offset(s)]
                          ELSE 0
      BY <1>1, ContentAt
    <3>2. content'[s] = IF brd_pages'[idx(s)] = NoPage THEN 0
                        ELSE brd_pages'[idx(s)].data[offset(s)]
      BY DEF content
    <3>3. CASE idx(s) = x
      <4>1. brd_pages'[idx(s)] = new_page(indexed)
        BY <1>1, <2>3, <2>7, <3>3 DEF PagesOK
      <4>2. new_page(indexed).data[offset(s)] = 0
        BY <3>1 DEF new_page
      <4> QED BY <2>3, <3>1, <3>2, <3>3, <4>1, <4>2
    <3>4. CASE idx(s) # x
      <4>1. brd_pages'[idx(s)] = brd_pages[idx(s)]
        BY <1>1, <2>7, <3>1, <3>4 DEF PagesOK
      <4>2. content[s] = IF brd_pages[idx(s)] = NoPage THEN 0
                         ELSE brd_pages[idx(s)].data[offset(s)]
        BY DEF content
      <4> QED BY <3>2, <4>1, <4>2
    <3> QED BY <3>3, <3>4
  <2>9. content' = content
    BY <2>8 DEF content, Sector
  <2> QED BY <1>1, <1>2, <2>1, <2>2, <2>4, <2>5, <2>6, <2>9, InvisibleStep
<1>8. CASE SetIndex(p)
  <2> DEFINE x == idx(here(p))
             g == [brd_pages[x] EXCEPT !.indexed = TRUE]
  <2>1. pc[p] = "index" /\ set_up(p) /\ brd_pages' = [brd_pages EXCEPT ![x] = g]
    BY <1>8 DEF SetIndex
  <2>2. PICK b \in Bios : ServingOK(io[p], pc[p], pages_in_tree, b)
    BY <2>1, InBio
  <2>3. x \in pages_in_tree
    BY <2>1, <2>2 DEF ServingOK, here
  <2>4. /\ OnlyOf(p) /\ ServingOK(io'[p], pc'[p], pages_in_tree, b)
        /\ io'[p].buf = io[p].buf /\ io'[p].value = io[p].value
        /\ undone_from(io'[p], pc'[p]) = undone_from(io[p], pc[p])
    BY <1>1, <2>1, <2>2, <2>3, SetUpLocal DEF Setup
  <2>5. brd_pages[x] \in Page /\ x \in PageNumber /\ brd_pages[x] # NoPage
    <3>1. x \in PageNumber
      BY <1>1, <2>3, TreeFinite
    <3> HIDE DEF x, PageNumber
    <3> QED BY <1>1, <2>3, <3>1 DEF PagesOK, pages_in_tree
  <2>6. g # NoPage /\ g.data = brd_pages[x].data
    <3>1. g \in Page /\ g.data = brd_pages[x].data
      <4> HIDE DEF x
      <4> QED BY <2>5 DEF Page
    <3> HIDE DEF g
    <3> QED BY <3>1, PagesArePages
  <2> HIDE DEF g, x
  <2>7. ASSUME NEW s \in Sector PROVE content'[s] = content[s]
    <3>1. idx(s) \in PageNumber
      <4> HIDE DEF PageNumber
      <4> QED BY <1>1, ContentAt
    <3>2. /\ content'[s] = IF brd_pages'[idx(s)] = NoPage THEN 0
                           ELSE brd_pages'[idx(s)].data[offset(s)]
          /\ content[s] = IF brd_pages[idx(s)] = NoPage THEN 0
                          ELSE brd_pages[idx(s)].data[offset(s)]
      BY DEF content
    <3>3. brd_pages'[idx(s)] = IF idx(s) = x THEN g ELSE brd_pages[idx(s)]
      BY <1>1, <2>1, <2>5, <3>1 DEF PagesOK
    <3> QED BY <2>5, <2>6, <3>2, <3>3
  <2>8. content' = content
    BY <2>7 DEF content, Sector
  <2> QED BY <1>2, <2>2, <2>4, <2>8, InvisibleStep
<1> QED BY <1>3, <1>4, <1>5, <1>6, <1>7, <1>8

\* The disk is emptied when nobody is in a bio.
LEMMA Flushes ==
  ASSUME ~SharedOpen, IInv, NEW p \in Procs, BLKFLSBUF(p)
  PROVE  Disk!Next
<1>1. /\ \A q \in Procs : pc[q] \in {"closed", "open"}
      /\ brd_pages' = [x \in PageNumber |-> NoPage] /\ UNCHANGED <<pc, io, failed>>
  BY FlushAlone
<1>2. ASSUME NEW q \in Procs PROVE io[q] = no_io
  <2>1. LocalOK(io[q], pc[q], pages_in_tree) /\ pc[q] \in {"closed", "open"}
    BY <1>1 DEF IInv
  <2> QED BY <2>1 DEF LocalOK, ServingOK, Serving, Setup
<1>3. \A q \in Procs : doing[q] = Disk!nothing /\ doing'[q] = Disk!nothing
  BY <1>1, <1>2, DoingNothing
<1>4. /\ doing = [q \in Procs |-> Disk!nothing]
      /\ doing' = [q \in Procs |-> Disk!nothing]
  <2>1. doing = [q \in Procs |-> doing[q]] /\ doing' = [q \in Procs |-> doing'[q]]
    BY DEF doing
  <2> HIDE DEF doing
  <2> QED BY <1>3, <2>1
<1>5. content' = [s \in Sector |-> 0]
  <2>1. ASSUME NEW s \in Sector PROVE content'[s] = 0
    <3>1. idx(s) \in PageNumber
      <4> HIDE DEF PageNumber
      <4> QED BY ContentAt DEF IInv
    <3>2. brd_pages'[idx(s)] = NoPage
      BY <1>1, <3>1
    <3> QED BY <3>2 DEF content
  <2>2. content' = [s \in Sector |-> content'[s]]
    BY DEF content, Sector
  <2> HIDE DEF content, Sector
  <2> QED BY <2>1, <2>2
<1>6. Disk!Flush
  BY <1>1, <1>4, <1>5 DEF Disk!Flush
<1> QED BY <1>6 DEF Disk!Next

\* With separate opens, and without a lock around the bios, every sector of a bio is
\* read, written or cleared once, at some moment of the bio; the races to insert a
\* page, the pages that are missing and those that a flush frees are not seen on the
\* disk.
THEOREM SectorStoreImplemented == ASSUME ~SharedOpen PROVE Spec => ImplementsSectorStore
<1>1. Init => Disk!Init
  <2> SUFFICES ASSUME Init PROVE Disk!Init
    OBVIOUS
  <2>1. content = [s \in Sector |-> 0]
    <3>1. ASSUME NEW s \in Sector PROVE content[s] = 0
      <4>1. idx(s) \in PageNumber
        <5>1. PagesOK
          BY InitIInv DEF IInv
        <5> HIDE DEF PageNumber
        <5> QED BY <5>1, ContentAt
      <4>2. brd_pages[idx(s)] = NoPage
        BY <4>1 DEF Init, PageNumber
      <4> QED BY <4>2 DEF content
    <3>2. content = [s \in Sector |-> content[s]]
      BY DEF content
    <3> HIDE DEF content, Sector
    <3> QED BY <3>1, <3>2
  <2>2. doing = [p \in Procs |-> Disk!nothing]
    <3>1. \A p \in Procs : doing[p] = Disk!nothing
      BY DoingNothing DEF Init
    <3>2. doing = [p \in Procs |-> doing[p]]
      BY DEF doing
    <3> HIDE DEF doing
    <3> QED BY <3>1, <3>2
  <2> QED BY <2>1, <2>2 DEF Init, Disk!Init
<1>2. IInv /\ [Next]_vars => [Disk!Next]_(Disk!vars)
  <2> SUFFICES ASSUME IInv, [Next]_vars PROVE [Disk!Next]_(Disk!vars)
    OBVIOUS
  <2>1. CASE UNCHANGED vars
    <3>1. content' = content
      BY <2>1 DEF vars, content
    <3>2. doing' = doing
      BY <2>1 DEF vars, doing, done_by, here, sectors_of
    <3> QED BY <2>1, <3>1, <3>2 DEF vars, Disk!vars
  <2>2. ASSUME NEW p \in Procs,
               (\E b \in Bios, v \in Values : StartBio(p, b, v)) \/ AllocateFails(p)
                 \/ EndBio(p)
        PROVE  Disk!Next
    BY <2>2, BeginsAndEnds
  <2>3. ASSUME NEW p \in Procs, CopyMisses(p) \/ CopySector(p) PROVE Disk!Next
    BY <2>3, Touches
  <2>4. ASSUME NEW p \in Procs, BLKFLSBUF(p) PROVE Disk!Next
    BY <2>4, Flushes
  <2>5. ASSUME NEW p \in Procs,
               \/ Open(p) \/ Close(p) \/ LookupFails(p) \/ SetupFinds(p) \/ Allocate(p)
               \/ InsertLoses(p) \/ CopyFinds(p) \/ Insert(p) \/ SetIndex(p)
        PROVE  UNCHANGED Disk!vars
    BY <2>5, Invisible
  <2> QED BY <2>1, <2>2, <2>3, <2>4, <2>5 DEF Next
<1> QED BY <1>1, <1>2, Invariance, PTL DEF Spec, ImplementsSectorStore, Disk!Spec
===============================================================================
