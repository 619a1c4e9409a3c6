------------------------------ MODULE StoreProofs ------------------------------
(***************************************************************************)
(* Proofs about BackingStore, for any processes, disk, values, segments   *)
(* and batches: what a read returns, what a write has done when it lets   *)
(* go of io_mutex, that a setup cannot be seen, that pages stay while a   *)
(* bio is handled, and that a flush frees all of them.                     *)
(*                                                                         *)
(* io_mutex lets one process into a bio, and a flush begins only with no  *)
(* other opener and keeps everybody from opening the device: so what a    *)
(* process in a bio relies on is changed by its own steps alone.  This is *)
(* where the processes must not share an open file.                       *)
(***************************************************************************)
EXTENDS BackingStore, NumberLemmas, FiniteSetTheorems

Busy == {"setup", "copy", "discard"}

\* The pages in the tree, and what the disk holds.
pages    == {x \in PageIdx : tree[x] # NoPage}
contents == [s \in Sector |-> content(s)]

\* The locals are a record of these fields, within the bio and the disk.
LocalsOK(l, c) ==
  /\ l = [rw |-> l.rw, first |-> l.first, size |-> l.size, sector |-> l.sector,
          lens |-> l.lens, value |-> l.value, i |-> l.i, buf |-> l.buf]
  /\ l.first \in Nat /\ l.size \in Nat /\ l.sector \in Nat /\ l.i \in Nat
  /\ l.value \in Values
  /\ l.first + l.size <= Capacity
  /\ c = "setup" => l.rw = "write"
  /\ c = "copy" => l.rw \in {"read", "write"}

\* Setting up and copying go through the segments of the bio in order.
InSegments(l, c) ==
  c \in {"setup", "copy"} =>
    /\ l.lens \in Seq(Nat \ {0}) /\ l.lens # <<>> /\ l.i < Head(l.lens)
    /\ l.first <= l.sector
    /\ l.sector + bi_size(l.lens) = l.first + l.size

\* A discard goes through the pages' worth of sectors of the bio.
InPages(l, c) ==
  c = "discard" => /\ l.rw = "discard"
                   /\ l.sector = l.first + l.i * PAGE_SECTORS
                   /\ l.i * PAGE_SECTORS <= l.size

\* A read's buffer holds what the disk C holds, from the bio's first sector on.
BufferOK(l, C) ==
  IF l.rw = "read"
  THEN /\ l.buf \in Seq(Values) /\ Len(l.buf) = (l.sector + l.i) - l.first
       /\ \A k \in 1 .. Len(l.buf) : l.buf[k] = C[l.first + k - 1]
  ELSE l.buf = <<>>

\* A write has its value in all sectors it is past, and pages under those of its
\* segment that the setup is past: all of them, once it copies.
WrittenOK(l, c, T, C) ==
  l.rw = "write" =>
    /\ \A s \in Sector :
         (l.first <= s /\ s < l.sector + (IF c = "copy" THEN l.i ELSE 0)) => C[s] = l.value
    /\ \A s \in Sector :
         (l.sector <= s /\ s < l.sector + (IF c = "setup" THEN l.i ELSE Head(l.lens))) =>
            page_of(s) \in T

BioOK(l, c, T, C) ==
  /\ LocalsOK(l, c) /\ InSegments(l, c) /\ InPages(l, c) /\ BufferOK(l, C)
  /\ WrittenOK(l, c, T, C)

ProcOK(l, c, T, C) ==
  \/ c \in {"closed", "open", "freeing"} /\ l = no_io
  \/ c \in Busy /\ BioOK(l, c, T, C)

\* What holds even when open files are shared.
ShapeOK ==
  /\ DOMAIN io = Procs /\ io = [p \in Procs |-> io[p]]
  /\ DOMAIN pc = Procs /\ pc = [p \in Procs |-> pc[p]]
  /\ DOMAIN pos = Procs /\ DOMAIN tree = PageIdx

\* io_mutex is held by the one process in a bio.
MutexOK ==
  /\ io_mutex = {p \in Procs : pc[p] \in Busy}
  /\ \A p, q \in io_mutex : p = q

\* A process that frees the pages is alone, and has freed those before its position.
FlushOK ==
  \A p \in Procs : pc[p] = "freeing" =>
    /\ \A q \in Procs \ {p} : pc[q] = "closed"
    /\ pos[p] \in Nat /\ \A x \in PageIdx : x < pos[p] => tree[x] = NoPage

IInv ==
  /\ ShapeOK /\ tree \in [PageIdx -> {NoPage} \cup Page]
  /\ MutexOK /\ FlushOK
  /\ \A p \in Procs : ProcOK(io[p], pc[p], pages, contents)
-------------------------------------------------------------------------------
(* The disk.                                                               *)

\* The sizes are natural numbers, and a cleared sector holds a value.
LEMMA SizesNat ==
  /\ PAGES \in Nat \ {0} /\ PAGE_SECTORS \in Nat \ {0} /\ FREE_BATCH \in Nat \ {0}
  /\ Capacity \in Nat /\ 0 \in Values
  BY StoreAssumption DEF Capacity

\* A sector of the disk lies in a page of the disk.
LEMMA SectorInPage ==
  ASSUME NEW s \in Sector
  PROVE  /\ s \in Nat /\ s < Capacity
         /\ page_of(s) \in PageIdx /\ offset_of(s) \in 0 .. (PAGE_SECTORS - 1)
<1>1. s \in Nat /\ s < Capacity
  <2> HIDE DEF Capacity
  <2> QED BY SizesNat DEF Sector
<1>2. /\ s \div PAGE_SECTORS \in Nat /\ s % PAGE_SECTORS \in 0 .. (PAGE_SECTORS - 1)
      /\ s \div PAGE_SECTORS < PAGES
  BY <1>1, SizesNat, Division, QuotientBelow DEF Capacity
<1> QED BY <1>1, <1>2, SizesNat DEF page_of, offset_of, PageIdx

\* A sector is told from the others by its page and its place there.
LEMMA SectorApart ==
  ASSUME NEW s \in Nat, NEW r \in Nat, page_of(s) = page_of(r), offset_of(s) = offset_of(r)
  PROVE  s = r
<1> DEFINE n == PAGE_SECTORS
<1>1. /\ s = n * (s \div n) + (s % n) /\ r = n * (r \div n) + (r % n)
  <2>1. n \in Nat \ {0}
    BY SizesNat
  <2> HIDE DEF n
  <2> QED BY <2>1, Division
<1> HIDE DEF n
<1>2. s \div n = r \div n /\ s % n = r % n
  BY DEF page_of, offset_of, n
<1> QED BY <1>1, <1>2

\* A page is not NoPage, whatever it holds, and a cleared one is a page.
LEMMA PagesArePages ==
  zero_page \in Page /\ zero_page # NoPage /\ \A g \in Page : g # NoPage
<1>1. ASSUME NEW g \in Page PROVE g # NoPage
  <2>1. DOMAIN g = 0 .. (PAGE_SECTORS - 1) /\ 0 \in 0 .. (PAGE_SECTORS - 1)
    BY SizesNat DEF Page
  <2>2. DOMAIN NoPage = {}
    BY DEF NoPage
  <2> QED BY <2>1, <2>2
<1>2. zero_page \in Page
  BY SizesNat DEF zero_page, Page
<1> QED BY <1>1, <1>2
-------------------------------------------------------------------------------
(* The setup, with shared open files or without.                           *)

\* The shape of the state, at first,
LEMMA ShapeInit == Init => ShapeOK
  BY DEF Init, ShapeOK

\* and after every step.
LEMMA ShapeNext == ShapeOK /\ [Next]_vars => ShapeOK'
<1> SUFFICES ASSUME ShapeOK, [Next]_vars PROVE ShapeOK'
  OBVIOUS
<1> USE DEF ShapeOK
<1>1. CASE UNCHANGED vars
  BY <1>1 DEF vars
<1>2. ASSUME NEW p \in Procs, NEW l, NEW c, io' = [io EXCEPT ![p] = l],
             pc' = [pc EXCEPT ![p] = c]
      PROVE  /\ DOMAIN io' = Procs /\ io' = [q \in Procs |-> io'[q]]
             /\ DOMAIN pc' = Procs /\ pc' = [q \in Procs |-> pc'[q]]
  BY <1>2
<1>3. ASSUME NEW p \in Procs, NEW l, advance(p, l)
      PROVE  /\ DOMAIN io' = Procs /\ io' = [q \in Procs |-> io'[q]]
             /\ DOMAIN pc' = Procs /\ pc' = [q \in Procs |-> pc'[q]]
  BY <1>3 DEF advance, end_bio, goto
<1>4. ASSUME NEW p \in Procs, Open(p) \/ Close(p) \/ Flush(p) PROVE ShapeOK'
  BY <1>4 DEF Open, Close, Flush, goto
<1>5. ASSUME NEW p \in Procs, NEW rw, NEW s, NEW lens, NEW v, NEW cloned,
             StartBio(p, rw, s, lens, v, cloned)
      PROVE  ShapeOK'
  BY <1>5 DEF StartBio, start, goto
<1>6. ASSUME NEW p \in Procs, SetupSector(p) PROVE ShapeOK'
  BY <1>6 DEF SetupSector, insert_page, goto
<1>7. ASSUME NEW p \in Procs, SetupFails(p) \/ EndDiscard(p) PROVE ShapeOK'
  BY <1>7 DEF SetupFails, EndDiscard, end_bio, goto
<1>8. ASSUME NEW p \in Procs, ReadSector(p) \/ WriteSector(p) PROVE ShapeOK'
  <2>1. PICK l : advance(p, l)
    BY <1>8 DEF ReadSector, WriteSector
  <2>2. pos' = pos /\ DOMAIN tree' = PageIdx
    BY <1>8 DEF ReadSector, WriteSector
  <2> QED BY <1>3, <2>1, <2>2
<1>9. ASSUME NEW p \in Procs, DiscardPage(p) PROVE ShapeOK'
  BY <1>9 DEF DiscardPage
<1>10. ASSUME NEW p \in Procs, FreeBatch(p) PROVE ShapeOK'
  BY <1>10 DEF FreeBatch, goto
<1> QED BY <1>1, <1>4, <1>5, <1>6, <1>7, <1>8, <1>9, <1>10 DEF Next

\* What a write's setup does to the tree cannot be read.
LEMMA InsertUnseen ==
  ASSUME DOMAIN tree = PageIdx, NEW x, insert_page(x), NEW s \in Sector
  PROVE  content(s)' = content(s)
<1>1. page_of(s) \in PageIdx /\ offset_of(s) \in 0 .. (PAGE_SECTORS - 1)
  BY SectorInPage
<1>2. content(s)' = IF tree'[page_of(s)] = NoPage THEN 0 ELSE tree'[page_of(s)][offset_of(s)]
  BY DEF content
<1>3. zero_page[offset_of(s)] = 0
  BY <1>1 DEF zero_page
<1>4. tree'[page_of(s)] =
        IF page_of(s) = x /\ tree[page_of(s)] = NoPage THEN zero_page ELSE tree[page_of(s)]
  BY <1>1 DEF insert_page
<1> QED BY <1>2, <1>3, <1>4 DEF content

\* Making pages exist for a write, or failing to, changes nothing that can be read.
THEOREM SetupUnseen == Spec => SetupIsInvisible
<1> DEFINE Unseen == \A p \in Procs :
             (pc[p] = "setup" /\ <<pc[p], io[p]>>' # <<pc[p], io[p]>>) =>
               \A s \in Sector : content(s)' = content(s)
<1>1. ASSUME ShapeOK, [Next]_vars PROVE [Unseen]_vars
  <2> SUFFICES ASSUME Next, NEW p \in Procs, pc[p] = "setup",
                      pc'[p] # pc[p] \/ io'[p] # io[p], NEW s \in Sector
               PROVE  content(s)' = content(s)
    BY <1>1
  <2>1. DOMAIN io = Procs /\ DOMAIN pc = Procs /\ DOMAIN tree = PageIdx
    BY <1>1 DEF ShapeOK
  <2>2. ASSUME NEW q \in Procs, NEW rw, NEW f, NEW lens, NEW v, NEW cloned,
               StartBio(q, rw, f, lens, v, cloned)
        PROVE  FALSE
    BY <2>1, <2>2 DEF StartBio, start, goto
  <2>3. ASSUME NEW q \in Procs, Open(q) \/ Close(q) \/ Flush(q) PROVE FALSE
    BY <2>1, <2>3 DEF Open, Close, Flush, goto
  <2>4. ASSUME NEW q \in Procs, ReadSector(q) \/ WriteSector(q) PROVE FALSE
    <3>1. PICK l : advance(q, l)
      BY <2>4 DEF ReadSector, WriteSector
    <3>2. pc[q] = "copy"
      BY <2>4 DEF ReadSector, WriteSector
    <3> QED BY <2>1, <3>1, <3>2 DEF advance, end_bio, goto
  <2>5. ASSUME NEW q \in Procs, DiscardPage(q) \/ EndDiscard(q) \/ FreeBatch(q) PROVE FALSE
    BY <2>1, <2>5 DEF DiscardPage, EndDiscard, FreeBatch, end_bio, goto
  <2>6. ASSUME NEW q \in Procs, SetupSector(q) PROVE content(s)' = content(s)
    BY <2>1, <2>6, InsertUnseen DEF SetupSector
  <2>7. ASSUME NEW q \in Procs, SetupFails(q) PROVE content(s)' = content(s)
    BY <2>7 DEF SetupFails, content
  <2> QED BY <2>2, <2>3, <2>4, <2>5, <2>6, <2>7 DEF Next
<1> QED BY <1>1, ShapeInit, ShapeNext, PTL DEF Spec, SetupIsInvisible
-------------------------------------------------------------------------------
(* The inductive invariant.                                                *)

\* Nobody has a bio or is freeing pages before the device is opened.
LEMMA InitIInv == Init => IInv
<1> SUFFICES ASSUME Init PROVE IInv
  OBVIOUS
<1>1. \A p \in Procs : pc[p] = "closed" /\ io[p] = no_io
  BY DEF Init
<1>2. tree \in [PageIdx -> {NoPage} \cup Page]
  BY DEF Init
<1>3. MutexOK
  BY <1>1 DEF Init, MutexOK, Busy
<1>4. FlushOK
  BY <1>1 DEF FlushOK
<1>5. \A p \in Procs : ProcOK(io[p], pc[p], pages, contents)
  BY <1>1 DEF ProcOK
<1> QED BY <1>2, <1>3, <1>4, <1>5, ShapeInit DEF IInv

\* Nobody else is in a bio, and nobody frees pages, while p is in a bio or begins one.
LEMMA AloneInBio ==
  ASSUME IInv, NEW p \in Procs, pc[p] \in Busy \/ (pc[p] = "open" /\ io_mutex = {})
  PROVE  /\ pc[p] \in Busy => io_mutex = {p} /\ BioOK(io[p], pc[p], pages, contents)
         /\ \A q \in Procs \ {p} : pc[q] \in {"closed", "open"} /\ io[q] = no_io
<1>1. pc[p] \in Busy => io_mutex = {p}
  BY DEF IInv, MutexOK
<1>2. \A q \in Procs : pc[q] # "freeing"
  BY DEF IInv, FlushOK, Busy
<1>3. ASSUME NEW q \in Procs \ {p} PROVE pc[q] \in {"closed", "open"} /\ io[q] = no_io
  <2>1. ~ (pc[q] \in Busy)
    BY <1>1 DEF IInv, MutexOK
  <2>2. ProcOK(io[q], pc[q], pages, contents)
    BY DEF IInv
  <2> QED BY <1>2, <2>1, <2>2 DEF ProcOK
<1>4. pc[p] \in Busy => BioOK(io[p], pc[p], pages, contents)
  <2>1. ProcOK(io[p], pc[p], pages, contents)
    BY DEF IInv
  <2> QED BY <2>1 DEF ProcOK, Busy
<1> QED BY <1>1, <1>3, <1>4

\* A step of the process in a bio, which begins it, goes on with it or ends it,
\* concerns nobody else.
LEMMA StepInBio ==
  ASSUME IInv, [Next]_vars,
         NEW p \in Procs, pc[p] \in Busy \/ (pc[p] = "open" /\ io_mutex = {}),
         NEW l, NEW c, io' = [io EXCEPT ![p] = l], pc' = [pc EXCEPT ![p] = c],
         tree' \in [PageIdx -> {NoPage} \cup Page],
         \/ c = "open" /\ io_mutex' = {} /\ l = no_io
         \/ c \in Busy /\ io_mutex' = {p} /\ BioOK(l, c, pages', contents')
  PROVE  IInv'
<1>1. \A q \in Procs \ {p} : pc[q] \in {"closed", "open"} /\ io[q] = no_io
  BY AloneInBio
<1>2. ShapeOK /\ ShapeOK'
  BY ShapeNext DEF IInv
<1>3. /\ io'[p] = l /\ pc'[p] = c
      /\ \A q \in Procs \ {p} : io'[q] = io[q] /\ pc'[q] = pc[q]
  BY <1>2 DEF ShapeOK
<1>4. MutexOK'
  BY <1>1, <1>3 DEF MutexOK, Busy
<1>5. FlushOK'
  BY <1>1, <1>3 DEF FlushOK, Busy
<1>6. ASSUME NEW q \in Procs PROVE ProcOK(io[q], pc[q], pages, contents)'
  <2>1. CASE q = p
    BY <1>3, <2>1 DEF ProcOK
  <2>2. CASE q # p
    BY <1>1, <1>3, <2>2 DEF ProcOK
  <2> QED BY <2>1, <2>2
<1> QED BY <1>2, <1>4, <1>5, <1>6 DEF IInv

\* The contents and the pages are those of the tree.
LEMMA TreeDecides ==
  ASSUME UNCHANGED tree
  PROVE  pages' = pages /\ contents' = contents /\ \A s : content(s)' = content(s)
  BY DEF pages, contents, content

\* Opening and closing.
LEMMA OpenStep ==
  ASSUME IInv, [Next]_vars, NEW p \in Procs, Open(p) \/ Close(p) PROVE IInv'
<1>1. ShapeOK /\ ShapeOK'
  BY ShapeNext DEF IInv
<1>2. /\ pc[p] \in {"open", "closed"} /\ \A q \in Procs : pc[q] # "freeing"
      /\ UNCHANGED <<tree, io_mutex, io, pos>>
  BY DEF Open, Close, bd_mutex_free
<1>3. /\ pc'[p] \in {"open", "closed"}
      /\ \A q \in Procs \ {p} : pc'[q] = pc[q]
  BY <1>1 DEF Open, Close, goto, ShapeOK
<1>4. MutexOK'
  BY <1>2, <1>3 DEF MutexOK, Busy, IInv
<1>5. FlushOK'
  BY <1>2, <1>3 DEF FlushOK
<1>6. ASSUME NEW q \in Procs PROVE ProcOK(io[q], pc[q], pages, contents)'
  <2>1. ProcOK(io[q], pc[q], pages, contents)
    BY DEF IInv
  <2>2. io'[q] = io[q] /\ pages' = pages /\ contents' = contents
    BY <1>2, TreeDecides
  <2>3. CASE q = p
    BY <1>2, <1>3, <2>1, <2>2, <2>3 DEF ProcOK, Busy
  <2>4. CASE q # p
    BY <1>3, <2>1, <2>2, <2>4
  <2> QED BY <2>3, <2>4
<1> QED BY <1>1, <1>2, <1>4, <1>5, <1>6 DEF IInv

\* A bio begins at its first segment, or its first page.
LEMMA StartStep ==
  ASSUME IInv, [Next]_vars, NEW p \in Procs, NEW rw \in {"read", "write", "discard"},
         NEW s \in Sector, NEW lens \in Segments, NEW v \in Values, NEW cloned,
         StartBio(p, rw, s, lens, v, cloned)
  PROVE  IInv'
<1> DEFINE l == [rw |-> rw, first |-> s, size |-> bi_size(lens), sector |-> s,
                 lens |-> lens, value |-> IF rw = "write" THEN v ELSE 0, i |-> 0, buf |-> <<>>]
           c == CASE rw = "write" -> "setup" [] rw = "read" -> "copy" [] OTHER -> "discard"
<1>1. /\ pc[p] = "open" /\ io_mutex = {} /\ io_mutex' = {p} /\ UNCHANGED tree
      /\ s + bi_size(lens) <= Capacity
      /\ start(p, rw, s, lens, v)
  BY DEF StartBio, accepted
<1>2. io' = [io EXCEPT ![p] = l] /\ pc' = [pc EXCEPT ![p] = c]
  BY <1>1 DEF start, goto
<1>3. /\ lens \in Seq(Nat \ {0}) /\ lens # <<>> /\ Head(lens) \in Nat \ {0}
      /\ bi_size(lens) \in Nat /\ 0 < Head(lens)
  <2>1. lens \in Seq(Nat \ {0}) /\ lens # <<>>
    BY StoreAssumption
  <2> QED BY <2>1, FirstSegment, Positive
<1>4. s \in Nat /\ PAGE_SECTORS \in Nat /\ 0 \in Values /\ 0 * PAGE_SECTORS = 0 /\ s + 0 = s
  BY SectorInPage, SizesNat
<1>6. c \in Busy /\ (c = "setup" <=> rw = "write") /\ (c = "copy" <=> rw = "read")
      /\ (c = "discard" <=> rw = "discard")
  BY DEF Busy
<1> HIDE DEF c
<1>7. LocalsOK(l, c)
  BY <1>1, <1>3, <1>4, <1>6 DEF LocalsOK
<1>8. InSegments(l, c) /\ InPages(l, c)
  BY <1>3, <1>4, <1>6 DEF InSegments, InPages
<1>9. BufferOK(l, contents')
  <2>1. <<>> \in Seq(Values) /\ Len(<<>>) = 0 /\ s + 0 - s = 0
    BY <1>4
  <2> QED BY <1>4, <2>1 DEF BufferOK
<1>10. WrittenOK(l, c, pages', contents')
  <2>1. \A r \in Sector : r \in Nat
    BY SectorInPage
  <2> QED BY <1>4, <1>6, <2>1 DEF WrittenOK
<1> HIDE DEF l
<1>11. tree' \in [PageIdx -> {NoPage} \cup Page]
  BY <1>1 DEF IInv
<1>12. BioOK(l, c, pages', contents')
  BY <1>7, <1>8, <1>9, <1>10 DEF BioOK
<1> QED BY <1>1, <1>2, <1>6, <1>11, <1>12, StepInBio

\* The sectors of the bio that are still to do are sectors of the disk.
LEMMA SegmentOnDisk ==
  ASSUME NEW l, NEW c \in {"setup", "copy"}, LocalsOK(l, c), InSegments(l, c)
  PROVE  /\ l.lens \in Seq(Nat \ {0}) /\ l.lens # <<>> /\ Head(l.lens) \in Nat \ {0}
         /\ l.first \in Nat /\ l.sector \in Nat /\ l.i \in Nat /\ l.size \in Nat
         /\ l.first <= l.sector /\ l.i < Head(l.lens) /\ l.i + 1 <= Head(l.lens)
         /\ bi_size(l.lens) \in Nat /\ Head(l.lens) <= bi_size(l.lens)
         /\ l.sector + bi_size(l.lens) = l.first + l.size
         /\ l.sector + l.i \in Sector
<1>1. /\ l.lens \in Seq(Nat \ {0}) /\ l.lens # <<>> /\ l.i < Head(l.lens)
      /\ l.first <= l.sector /\ l.sector + bi_size(l.lens) = l.first + l.size
  BY DEF InSegments
<1>2. /\ l.first \in Nat /\ l.sector \in Nat /\ l.i \in Nat /\ l.size \in Nat
      /\ l.first + l.size <= Capacity /\ Capacity \in Nat
  BY SizesNat DEF LocalsOK
<1> DEFINE h == Head(l.lens)
           z == bi_size(l.lens)
           s == l.sector
           i == l.i
<1>3. h \in Nat \ {0} /\ z \in Nat /\ h <= z
  BY <1>1, FirstSegment
<1>4. s + z <= Capacity /\ i < h
  BY <1>1, <1>2
<1>5. s \in Nat /\ i \in Nat
  BY <1>2
<1> HIDE DEF h, z, s, i
<1>6. s + i \in 0 .. (Capacity - 1) /\ i + 1 <= h
  <2> HIDE DEF Capacity
  <2> QED BY <1>2, <1>3, <1>4, <1>5
<1> QED BY <1>1, <1>2, <1>3, <1>6 DEF h, z, s, i, Sector

\* A bio is given up, or a discard ends: nothing on the disk changes.
LEMMA EndStep ==
  ASSUME IInv, [Next]_vars, NEW p \in Procs, SetupFails(p) \/ EndDiscard(p)
  PROVE  IInv'
<1>1. /\ pc[p] \in Busy /\ io_mutex' = {} /\ UNCHANGED tree
      /\ io' = [io EXCEPT ![p] = no_io] /\ pc' = [pc EXCEPT ![p] = "open"]
  BY DEF SetupFails, EndDiscard, end_bio, goto, Busy
<1>2. tree' \in [PageIdx -> {NoPage} \cup Page]
  BY <1>1 DEF IInv
<1> QED BY <1>1, <1>2, StepInBio

\* The setup makes the page of one sector exist.
LEMMA SetupStep ==
  ASSUME IInv, [Next]_vars, NEW p \in Procs, SetupSector(p) PROVE IInv'
<1> DEFINE b == io[p]
           s == b.sector + b.i
           x == page_of(s)
           last == b.i + 1 = Head(b.lens)
           k == IF last THEN 0 ELSE b.i + 1
           l == [b EXCEPT !.i = k]
           c == IF last THEN "copy" ELSE "setup"
<1>1. /\ pc[p] = "setup" /\ insert_page(x) /\ UNCHANGED io_mutex
      /\ io' = [io EXCEPT ![p] = l] /\ pc' = [pc EXCEPT ![p] = c]
  BY DEF SetupSector, goto, IInv, ShapeOK
<1>2. /\ io_mutex = {p} /\ BioOK(b, "setup", pages, contents)
  BY <1>1, AloneInBio DEF Busy
<1>3. /\ b.lens \in Seq(Nat \ {0}) /\ Head(b.lens) \in Nat \ {0}
      /\ b.first \in Nat /\ b.sector \in Nat /\ b.i \in Nat /\ b.first <= b.sector
      /\ b.i < Head(b.lens) /\ b.i + 1 <= Head(b.lens) /\ s \in Sector
  BY <1>2, SegmentOnDisk DEF BioOK
<1>4. /\ l.rw = b.rw /\ l.first = b.first /\ l.size = b.size /\ l.sector = b.sector
      /\ l.lens = b.lens /\ l.value = b.value /\ l.i = k /\ l.buf = b.buf
      /\ l = [rw |-> l.rw, first |-> l.first, size |-> l.size, sector |-> l.sector,
              lens |-> l.lens, value |-> l.value, i |-> l.i, buf |-> l.buf]
      /\ b.rw = "write"
  BY <1>2 DEF BioOK, LocalsOK
<1>5. x \in PageIdx
  BY <1>3, SectorInPage
<1>6. tree' \in [PageIdx -> {NoPage} \cup Page] /\ pages' = pages \cup {x}
  BY <1>1, <1>5, PagesArePages DEF insert_page, pages, IInv
<1>7. contents' = contents
  <2>1. \A r \in Sector : content(r)' = content(r)
    BY <1>1, InsertUnseen DEF IInv, ShapeOK
  <2> QED BY <2>1 DEF contents
<1>8. /\ k \in Nat /\ k < Head(b.lens)
      /\ c = "setup" => k = b.i + 1
      /\ c = "copy" => k = 0 /\ b.i + 1 = Head(b.lens)
      /\ c \in {"setup", "copy"}
  <2> DEFINE h == Head(b.lens)
             i == b.i
  <2>1. h \in Nat \ {0} /\ i \in Nat /\ i + 1 <= h
    BY <1>3
  <2> HIDE DEF h, i
  <2>2. 0 < h /\ i + 1 \in Nat /\ (i + 1 # h => i + 1 < h)
    BY <2>1, Positive
  <2> QED BY <2>2 DEF h, i
<1> HIDE DEF k, c, last, l
<1>9. LocalsOK(l, c)
  BY <1>2, <1>4, <1>8 DEF BioOK, LocalsOK
<1>10. InSegments(l, c) /\ InPages(l, c)
  BY <1>2, <1>4, <1>8 DEF BioOK, InSegments, InPages
<1>11. BufferOK(l, contents')
  BY <1>2, <1>4 DEF BioOK, BufferOK
<1>12. WrittenOK(l, c, pages', contents')
  <2>1. /\ \A r \in Sector : (b.first <= r /\ r < b.sector + 0) => contents[r] = b.value
        /\ \A r \in Sector : (b.sector <= r /\ r < b.sector + b.i) => page_of(r) \in pages
    BY <1>2, <1>4 DEF BioOK, WrittenOK
  <2>2. (IF c = "copy" THEN l.i ELSE 0) = 0
    BY <1>4, <1>8
  <2>3. (IF c = "setup" THEN l.i ELSE Head(l.lens)) = b.i + 1
    BY <1>4, <1>8
  <2>4. ASSUME NEW r \in Sector, b.sector <= r, r < b.sector + (b.i + 1)
        PROVE  page_of(r) \in pages'
    <3>1. r < b.sector + b.i \/ r = s
      <4>1. r \in Nat
        BY SectorInPage
      <4> DEFINE f == b.sector
                 i == b.i
      <4>2. f \in Nat /\ i \in Nat /\ r < f + (i + 1)
        BY <1>3, <2>4
      <4> HIDE DEF f, i
      <4>3. r < f + i \/ r = f + i
        BY <4>1, <4>2
      <4> QED BY <4>3 DEF f, i
    <3> QED BY <1>6, <2>1, <2>4, <3>1
  <2> QED BY <1>4, <1>7, <2>1, <2>2, <2>3, <2>4 DEF WrittenOK
<1>13. BioOK(l, c, pages', contents') /\ c \in Busy
  BY <1>8, <1>9, <1>10, <1>11, <1>12 DEF BioOK, Busy
<1> QED BY <1>1, <1>2, <1>6, <1>13, StepInBio DEF Busy

\* A discard clears a page's worth, which nothing the bio relies on mentions.
LEMMA DiscardStep ==
  ASSUME IInv, [Next]_vars, NEW p \in Procs, DiscardPage(p) PROVE IInv'
<1> DEFINE b == io[p]
           n == PAGE_SECTORS
           i == b.i
           s == b.sector
           l == [b EXCEPT !.i = i + 1, !.sector = s + n]
<1>1. /\ pc[p] = "discard" /\ UNCHANGED <<io_mutex, pc>> /\ b.size >= (i + 1) * n
      /\ tree' = [tree EXCEPT ![page_of(s)] = clear_page(@)]
      /\ io' = [io EXCEPT ![p].i = @ + 1, ![p].sector = @ + n]
  BY DEF DiscardPage
<1>2. io_mutex = {p} /\ BioOK(b, "discard", pages, contents)
  BY <1>1, AloneInBio DEF Busy
<1>3. /\ b = [rw |-> b.rw, first |-> b.first, size |-> b.size, sector |-> b.sector,
              lens |-> b.lens, value |-> b.value, i |-> b.i, buf |-> b.buf]
      /\ b.first \in Nat /\ b.size \in Nat /\ s \in Nat /\ i \in Nat /\ n \in Nat
      /\ b.rw = "discard" /\ s = b.first + i * n
  BY <1>2, SizesNat DEF BioOK, LocalsOK, InPages
<1>4. io' = [io EXCEPT ![p] = l] /\ pc' = [pc EXCEPT ![p] = "discard"]
  BY <1>1 DEF IInv, ShapeOK
<1>5. /\ l.rw = b.rw /\ l.first = b.first /\ l.size = b.size /\ l.sector = s + n
      /\ l.lens = b.lens /\ l.value = b.value /\ l.i = i + 1 /\ l.buf = b.buf
      /\ l = [rw |-> l.rw, first |-> l.first, size |-> l.size, sector |-> l.sector,
              lens |-> l.lens, value |-> l.value, i |-> l.i, buf |-> l.buf]
  <2> DEFINE k == i + 1
             r == s + n
             m == [b EXCEPT !.i = k]
  <2> HIDE DEF k, r
  <2>1. m = [rw |-> b.rw, first |-> b.first, size |-> b.size, sector |-> b.sector,
             lens |-> b.lens, value |-> b.value, i |-> k, buf |-> b.buf]
    BY <1>3
  <2> HIDE DEF m
  <2>2. [m EXCEPT !.sector = r] =
          [rw |-> b.rw, first |-> b.first, size |-> b.size, sector |-> r,
           lens |-> b.lens, value |-> b.value, i |-> k, buf |-> b.buf]
    BY <2>1
  <2>3. l = [m EXCEPT !.sector = r]
    BY DEF m, k, r
  <2> HIDE DEF l
  <2> QED BY <2>2, <2>3 DEF k, r
<1>6. tree' \in [PageIdx -> {NoPage} \cup Page]
  BY <1>1, PagesArePages DEF clear_page, IInv
<1> HIDE DEF l
<1>7. s + n \in Nat /\ i + 1 \in Nat /\ s + n = b.first + (i + 1) * n /\ (i + 1) * n <= b.size
  <2> DEFINE f == b.first
             z == b.size
  <2>1. f \in Nat /\ z \in Nat /\ s = f + i * n /\ z >= (i + 1) * n
    BY <1>1, <1>3
  <2>2. s \in Nat /\ i \in Nat /\ n \in Nat
    BY <1>3
  <2> HIDE DEF f, z, s, i, n
  <2>3. i * n \in Nat /\ (i + 1) * n = i * n + n
    BY <2>2
  <2>4. s + n \in Nat /\ i + 1 \in Nat /\ s + n = f + (i + 1) * n /\ (i + 1) * n <= z
    BY <2>1, <2>2, <2>3
  <2> QED BY <2>4 DEF f, z
<1> HIDE DEF n, i, s
<1>8. LocalsOK(l, "discard")
  BY <1>2, <1>5, <1>7 DEF BioOK, LocalsOK
<1>9. InSegments(l, "discard") /\ InPages(l, "discard")
  BY <1>3, <1>5, <1>7 DEF InSegments, InPages, n
<1>10. BufferOK(l, contents') /\ WrittenOK(l, "discard", pages', contents')
  BY <1>2, <1>3, <1>5 DEF BioOK, BufferOK, WrittenOK
<1>11. BioOK(l, "discard", pages', contents') /\ "discard" \in Busy
  BY <1>8, <1>9, <1>10 DEF BioOK, Busy
<1> QED BY <1>1, <1>2, <1>4, <1>6, <1>11, StepInBio

\* What holds of a bio once sector i has been copied: what holds of the bio with the
\* next i, but that the segment may be at its end.
Copied(m, T, C) ==
  LET n == [m EXCEPT !.i = @ + 1]
  IN  LocalsOK(n, "copy") /\ BufferOK(n, C) /\ WrittenOK(n, "copy", T, C)

\* A record with another i has its other fields.
LEMMA NextI ==
  ASSUME NEW m, NEW k,
         m = [rw |-> m.rw, first |-> m.first, size |-> m.size, sector |-> m.sector,
              lens |-> m.lens, value |-> m.value, i |-> m.i, buf |-> m.buf]
  PROVE  [m EXCEPT !.i = k] =
           [rw |-> m.rw, first |-> m.first, size |-> m.size, sector |-> m.sector,
            lens |-> m.lens, value |-> m.value, i |-> k, buf |-> m.buf]
  OBVIOUS

\* On to the next sector, the next segment, or the end of the bio.
LEMMA AdvanceStep ==
  ASSUME IInv, [Next]_vars, NEW p \in Procs, pc[p] = "copy", NEW m, advance(p, m),
         tree' \in [PageIdx -> {NoPage} \cup Page],
         LocalsOK(m, "copy"), InSegments(m, "copy"), Copied(m, pages', contents')
  PROVE  IInv'
<1> DEFINE f == m.first
           s == m.sector
           i == m.i
           j == i + 1
           h == Head(m.lens)
           z == bi_size(m.lens)
           rest == Tail(m.lens)
           y == bi_size(rest)
           n == [m EXCEPT !.i = j]
           r == s + h
<1>1. /\ m.lens \in Seq(Nat \ {0}) /\ m.lens # <<>> /\ h \in Nat \ {0}
      /\ f \in Nat /\ s \in Nat /\ i \in Nat /\ m.size \in Nat
      /\ f <= s /\ j <= h /\ z \in Nat /\ s + z = f + m.size
  BY SegmentOnDisk
<1>2. /\ m = [rw |-> m.rw, first |-> f, size |-> m.size, sector |-> s,
              lens |-> m.lens, value |-> m.value, i |-> i, buf |-> m.buf]
      /\ m.rw \in {"read", "write"} /\ m.value \in Values /\ f + m.size <= Capacity
  BY DEF LocalsOK
<1>3. n = [rw |-> m.rw, first |-> f, size |-> m.size, sector |-> s,
           lens |-> m.lens, value |-> m.value, i |-> j, buf |-> m.buf]
  BY <1>2, NextI
<1>4. LocalsOK(n, "copy") /\ BufferOK(n, contents') /\ WrittenOK(n, "copy", pages', contents')
  BY DEF Copied
<1>5. io_mutex = {p} /\ "copy" \in Busy /\ "setup" \in Busy
  BY AloneInBio DEF Busy
<1>6. /\ n.rw = m.rw /\ n.first = f /\ n.size = m.size /\ n.sector = s
      /\ n.lens = m.lens /\ n.value = m.value /\ n.i = j /\ n.buf = m.buf
  BY <1>3
<1>7. CASE j < h
  <2>1. io' = [io EXCEPT ![p] = n] /\ pc' = [pc EXCEPT ![p] = "copy"] /\ io_mutex' = {p}
    BY <1>5, <1>7 DEF advance, IInv, ShapeOK
  <2> HIDE DEF n
  <2>2. InSegments(n, "copy") /\ InPages(n, "copy")
    BY <1>1, <1>6, <1>7 DEF InSegments, InPages
  <2>3. BioOK(n, "copy", pages', contents')
    BY <1>4, <2>2 DEF BioOK
  <2> QED BY <1>5, <2>1, <2>3, StepInBio
<1>8. CASE j >= h /\ Len(m.lens) > 1
  <2> DEFINE l == [m EXCEPT !.i = 0, !.lens = rest, !.sector = r]
             c == IF m.rw = "write" THEN "setup" ELSE "copy"
  <2>1. io' = [io EXCEPT ![p] = l] /\ pc' = [pc EXCEPT ![p] = c] /\ io_mutex' = {p}
    <3>1. ~ (j < h)
      BY <1>1, <1>8
    <3> QED BY <1>5, <1>8, <3>1 DEF advance, next_sector, goto
  <2>2. /\ l.rw = m.rw /\ l.first = f /\ l.size = m.size /\ l.sector = r
        /\ l.lens = rest /\ l.value = m.value /\ l.i = 0 /\ l.buf = m.buf
        /\ l = [rw |-> l.rw, first |-> l.first, size |-> l.size, sector |-> l.sector,
                lens |-> l.lens, value |-> l.value, i |-> l.i, buf |-> l.buf]
    <3> HIDE DEF rest, r, f, s, i
    <3> DEFINE m1 == [m EXCEPT !.i = 0]
               m2 == [m1 EXCEPT !.lens = rest]
    <3>1. m1 = [rw |-> m.rw, first |-> f, size |-> m.size, sector |-> s,
                lens |-> m.lens, value |-> m.value, i |-> 0, buf |-> m.buf]
      BY <1>2
    <3> HIDE DEF m1
    <3>2. m2 = [rw |-> m.rw, first |-> f, size |-> m.size, sector |-> s,
                lens |-> rest, value |-> m.value, i |-> 0, buf |-> m.buf]
      BY <3>1
    <3> HIDE DEF m2
    <3>3. [m2 EXCEPT !.sector = r] =
            [rw |-> m.rw, first |-> f, size |-> m.size, sector |-> r,
             lens |-> rest, value |-> m.value, i |-> 0, buf |-> m.buf]
      BY <3>2
    <3>4. l = [m2 EXCEPT !.sector = r]
      BY DEF m1, m2
    <3> HIDE DEF l
    <3> QED BY <3>3, <3>4
  <2> HIDE DEF l
  <2>3. /\ rest \in Seq(Nat \ {0}) /\ rest # <<>> /\ y \in Nat /\ z = h + y
        /\ Head(rest) \in Nat \ {0}
    BY <1>1, <1>8, FirstSegment
  <2>4. /\ r \in Nat /\ r = s + j /\ r + 0 = s + j /\ f <= r /\ r + y = f + m.size
        /\ 0 < Head(rest)
    <3> DEFINE g == m.size
               k == Head(rest)
    <3>1. /\ h \in Nat \ {0} /\ f \in Nat /\ s \in Nat /\ i \in Nat /\ g \in Nat
          /\ f <= s /\ i + 1 <= h /\ i + 1 >= h /\ z \in Nat /\ s + z = f + g
          /\ y \in Nat /\ z = h + y
      BY <1>1, <1>8, <2>3
    <3>2. 0 < k
      BY <2>3, Positive
    <3> HIDE DEF f, s, i, h, z, y, g, k
    <3>3. /\ s + h \in Nat /\ s + h = s + (i + 1) /\ s + h + 0 = s + (i + 1) /\ f <= s + h
          /\ (s + h) + y = f + g /\ 0 < k
      BY <3>1, <3>2
    <3> QED BY <3>3 DEF g, k
  <2>5. c \in {"setup", "copy"} /\ (c = "setup" <=> m.rw = "write") /\ c \in Busy
    BY <1>5
  <2> HIDE DEF c, n, rest, r, j
  <2>6. LocalsOK(l, c)
    BY <1>1, <1>2, <2>2, <2>4, <2>5 DEF LocalsOK
  <2>7. InSegments(l, c) /\ InPages(l, c)
    BY <1>1, <2>2, <2>3, <2>4, <2>5 DEF InSegments, InPages
  <2>8. BufferOK(l, contents')
    BY <1>4, <1>6, <2>2, <2>4 DEF BufferOK
  <2>9. WrittenOK(l, c, pages', contents')
    <3> SUFFICES ASSUME m.rw = "write" PROVE WrittenOK(l, c, pages', contents')
      BY <2>2 DEF WrittenOK
    <3>1. /\ (IF c = "copy" THEN l.i ELSE 0) = 0 /\ (IF c = "setup" THEN l.i ELSE Head(l.lens)) = 0
          /\ (IF "copy" = "copy" THEN n.i ELSE 0) = j
      BY <1>6, <2>2, <2>5
    <3>2. \A q \in Sector : q \in Nat
      BY SectorInPage
    <3>3. \A q \in Sector : (f <= q /\ q < s + j) => contents'[q] = m.value
      BY <1>4, <1>6, <3>1 DEF WrittenOK
    <3>4. \A q \in Sector : ~ (r <= q /\ q < r + 0)
      BY <2>4, <3>2
    <3> QED BY <2>2, <2>4, <3>1, <3>3, <3>4 DEF WrittenOK
  <2>10. BioOK(l, c, pages', contents')
    BY <2>6, <2>7, <2>8, <2>9 DEF BioOK
  <2> QED BY <2>1, <2>5, <2>10, <1>5, StepInBio
<1>9. CASE j >= h /\ ~ (Len(m.lens) > 1)
  <2>1. ~ (j < h)
    BY <1>1, <1>9
  <2>2. io' = [io EXCEPT ![p] = no_io] /\ pc' = [pc EXCEPT ![p] = "open"] /\ io_mutex' = {}
    BY <1>9, <2>1 DEF advance, end_bio, goto
  <2> QED BY <1>5, <2>2, StepInBio
<1> QED BY <1>1, <1>7, <1>8, <1>9

\* What a read copies is what the disk holds there.
LEMMA ContentIsValue ==
  ASSUME tree \in [PageIdx -> {NoPage} \cup Page], NEW s \in Sector
  PROVE  content(s) \in Values /\ contents[s] = content(s)
<1>1. page_of(s) \in PageIdx /\ offset_of(s) \in 0 .. (PAGE_SECTORS - 1)
  BY SectorInPage
<1>2. tree[page_of(s)] = NoPage \/ tree[page_of(s)] \in Page
  BY <1>1
<1> QED BY <1>1, <1>2, SizesNat DEF content, contents, Page

\* A sector is read: the buffer holds one sector more of what the disk holds.
LEMMA ReadStep ==
  ASSUME IInv, [Next]_vars, NEW p \in Procs, ReadSector(p) PROVE IInv'
<1> DEFINE b == io[p]
           f == b.first
           s == b.sector
           i == b.i
           e == content(s + i)
           m == [b EXCEPT !.buf = Append(@, e)]
           n == [m EXCEPT !.i = @ + 1]
<1>1. pc[p] = "copy" /\ b.rw = "read" /\ advance(p, m) /\ UNCHANGED tree
  BY DEF ReadSector
<1>2. BioOK(b, "copy", pages, contents)
  BY <1>1, AloneInBio DEF Busy
<1>3. /\ f \in Nat /\ s \in Nat /\ i \in Nat /\ f <= s /\ s + i \in Sector
  BY <1>2, SegmentOnDisk DEF BioOK
<1>4. /\ tree \in [PageIdx -> {NoPage} \cup Page] /\ tree' \in [PageIdx -> {NoPage} \cup Page]
      /\ pages' = pages /\ contents' = contents
  BY <1>1, TreeDecides DEF IInv
<1>5. e \in Values /\ contents[s + i] = e
  BY <1>3, <1>4, ContentIsValue
<1>6. /\ b.buf \in Seq(Values) /\ Len(b.buf) = (s + i) - f
      /\ \A k \in 1 .. Len(b.buf) : b.buf[k] = contents[f + k - 1]
  BY <1>1, <1>2 DEF BioOK, BufferOK
<1> DEFINE buf == Append(b.buf, e)
<1>7. m = [rw |-> b.rw, first |-> f, size |-> b.size, sector |-> s,
           lens |-> b.lens, value |-> b.value, i |-> i, buf |-> buf]
  <2>1. b = [rw |-> b.rw, first |-> b.first, size |-> b.size, sector |-> b.sector,
             lens |-> b.lens, value |-> b.value, i |-> b.i, buf |-> b.buf]
    BY <1>2 DEF BioOK, LocalsOK
  <2> HIDE DEF e
  <2> QED BY <2>1
<1>8. /\ buf \in Seq(Values) /\ Len(buf) = (s + (i + 1)) - f
      /\ \A k \in 1 .. Len(buf) : buf[k] = contents[f + k - 1]
  <2> DEFINE d == b.buf
             L == Len(d)
  <2>1. /\ d \in Seq(Values) /\ L \in Nat /\ L = (s + i) - f
        /\ buf = Append(d, e) /\ buf \in Seq(Values) /\ Len(buf) = L + 1
        /\ buf[L + 1] = e /\ \A k \in 1 .. L : buf[k] = d[k]
    <3> HIDE DEF e
    <3> QED BY <1>5, <1>6
  <2>2. \A k \in 1 .. L : d[k] = contents[f + k - 1]
    BY <1>6
  <2> HIDE DEF buf, e, L, d, b, f, s, i
  <2>3. L + 1 = (s + (i + 1)) - f
    BY <1>3, <2>1
  <2>4. f + (L + 1) - 1 = s + i
    BY <1>3, <2>1
  <2>5. ASSUME NEW k \in 1 .. (L + 1) PROVE buf[k] = contents[f + k - 1]
    <3>1. k \in 1 .. L \/ k = L + 1
      BY <2>1
    <3>2. CASE k \in 1 .. L
      BY <2>1, <2>2, <3>2
    <3>3. CASE k = L + 1
      BY <1>5, <2>1, <2>4, <3>3
    <3> QED BY <3>1, <3>2, <3>3
  <2> QED BY <2>1, <2>3, <2>5
<1> HIDE DEF e, buf
<1>9. /\ m.rw = "read" /\ m.first = f /\ m.size = b.size /\ m.sector = s
      /\ m.lens = b.lens /\ m.value = b.value /\ m.i = i /\ m.buf = buf
      /\ m = [rw |-> m.rw, first |-> m.first, size |-> m.size, sector |-> m.sector,
              lens |-> m.lens, value |-> m.value, i |-> m.i, buf |-> m.buf]
  BY <1>1, <1>7
<1> HIDE DEF m
<1>10. n = [rw |-> m.rw, first |-> m.first, size |-> m.size, sector |-> m.sector,
            lens |-> m.lens, value |-> m.value, i |-> m.i + 1, buf |-> m.buf]
  BY <1>9
<1>11. /\ n.rw = "read" /\ n.first = f /\ n.size = b.size /\ n.sector = s
       /\ n.lens = b.lens /\ n.value = b.value /\ n.i = i + 1 /\ n.buf = buf
       /\ n = [rw |-> n.rw, first |-> n.first, size |-> n.size, sector |-> n.sector,
               lens |-> n.lens, value |-> n.value, i |-> n.i, buf |-> n.buf]
  BY <1>9, <1>10
<1> HIDE DEF n
<1>12. LocalsOK(m, "copy") /\ InSegments(m, "copy") /\ LocalsOK(n, "copy")
  <2>1. i + 1 \in Nat
    BY <1>3
  <2> QED BY <1>2, <1>9, <1>11, <2>1 DEF BioOK, LocalsOK, InSegments
<1>13. BufferOK(n, contents') /\ WrittenOK(n, "copy", pages', contents')
  BY <1>4, <1>8, <1>11 DEF BufferOK, WrittenOK
<1>14. Copied(m, pages', contents')
  BY <1>12, <1>13 DEF Copied, n
<1> QED BY <1>1, <1>4, <1>12, <1>14, AdvanceStep DEF m

\* A sector is written to its page, and nothing else changes.
LEMMA Writing ==
  ASSUME IInv, NEW p \in Procs, WriteSector(p)
  PROVE  /\ tree' \in [PageIdx -> {NoPage} \cup Page] /\ pages' = pages
         /\ contents' = [contents EXCEPT ![io[p].sector + io[p].i] = io[p].value]
         /\ LocalsOK(io[p], "copy") /\ InSegments(io[p], "copy")
         /\ Copied(io[p], pages', contents')
<1> DEFINE b == io[p]
           f == b.first
           g == b.sector
           i == b.i
           s == g + i
           x == page_of(s)
           o == offset_of(s)
           v == b.value
           n == [b EXCEPT !.i = @ + 1]
<1>1. /\ pc[p] = "copy" /\ b.rw = "write" /\ tree[x] # NoPage
      /\ tree' = [tree EXCEPT ![x][o] = v]
  BY DEF WriteSector
<1>2. BioOK(b, "copy", pages, contents)
  BY <1>1, AloneInBio DEF Busy
<1>3. f \in Nat /\ g \in Nat /\ i \in Nat /\ f <= g /\ s \in Sector
  BY <1>2, SegmentOnDisk DEF BioOK
<1>4. x \in PageIdx /\ o \in 0 .. (PAGE_SECTORS - 1) /\ s \in Nat
  BY <1>3, SectorInPage
<1>5. /\ v \in Values
      /\ b = [rw |-> b.rw, first |-> b.first, size |-> b.size, sector |-> b.sector,
              lens |-> b.lens, value |-> b.value, i |-> b.i, buf |-> b.buf]
  BY <1>2 DEF BioOK, LocalsOK
<1>6. n = [rw |-> b.rw, first |-> f, size |-> b.size, sector |-> g,
           lens |-> b.lens, value |-> v, i |-> i + 1, buf |-> b.buf]
  BY <1>5
<1> HIDE DEF x, o, s
<1>7. tree[x] \in Page /\ [tree[x] EXCEPT ![o] = v] \in Page
  BY <1>1, <1>4, <1>5 DEF IInv, Page
<1>8. /\ tree' = [tree EXCEPT ![x] = [tree[x] EXCEPT ![o] = v]]
      /\ tree' \in [PageIdx -> {NoPage} \cup Page]
  <2>1. tree' = [tree EXCEPT ![x] = [tree[x] EXCEPT ![o] = v]]
    BY <1>1
  <2> QED BY <1>4, <1>7, <2>1 DEF IInv
<1>9. pages' = pages
  BY <1>1, <1>7, <1>8, PagesArePages DEF pages, IInv
<1>10. ASSUME NEW r \in Sector
       PROVE  content(r)' = IF r = s THEN v ELSE content(r)
  <2>1. page_of(r) \in PageIdx /\ offset_of(r) \in 0 .. (PAGE_SECTORS - 1) /\ r \in Nat
    BY SectorInPage
  <2>2. content(r)' = IF tree'[page_of(r)] = NoPage THEN 0 ELSE tree'[page_of(r)][offset_of(r)]
    BY DEF content
  <2>3. CASE page_of(r) # x
    BY <1>8, <2>1, <2>2, <2>3 DEF content, IInv, x
  <2>4. CASE page_of(r) = x
    <3>1. tree'[x] = [tree[x] EXCEPT ![o] = v] /\ tree'[x] # NoPage
      BY <1>4, <1>7, <1>8, PagesArePages DEF IInv
    <3>2. tree'[x][offset_of(r)] = IF offset_of(r) = o THEN v ELSE tree[x][offset_of(r)]
      BY <1>7, <2>1, <3>1 DEF Page
    <3>3. offset_of(r) = o <=> r = s
      BY <1>4, <2>1, <2>4, SectorApart DEF x, o
    <3> QED BY <1>1, <2>2, <2>4, <3>1, <3>2, <3>3 DEF content
  <2> QED BY <2>3, <2>4
<1>11. contents' = [contents EXCEPT ![s] = v]
  <2>1. contents' = [r \in Sector |-> IF r = s THEN v ELSE content(r)]
    BY <1>10 DEF contents
  <2> QED BY <1>3, <2>1 DEF contents, s
<1>12. /\ n.rw = "write" /\ n.first = f /\ n.size = b.size /\ n.sector = g
       /\ n.lens = b.lens /\ n.value = v /\ n.i = i + 1 /\ n.buf = b.buf
       /\ n = [rw |-> n.rw, first |-> n.first, size |-> n.size, sector |-> n.sector,
               lens |-> n.lens, value |-> n.value, i |-> n.i, buf |-> n.buf]
  BY <1>1, <1>6
<1> HIDE DEF n
<1>13. LocalsOK(n, "copy")
  <2>1. i + 1 \in Nat
    BY <1>3
  <2> QED BY <1>2, <1>12, <2>1 DEF BioOK, LocalsOK
<1>14. BufferOK(n, contents')
  BY <1>1, <1>2, <1>12 DEF BioOK, BufferOK
<1>15. WrittenOK(n, "copy", pages', contents')
  <2>1. /\ \A r \in Sector : (f <= r /\ r < g + i) => contents[r] = v
        /\ \A r \in Sector : (g <= r /\ r < g + Head(b.lens)) => page_of(r) \in pages
    BY <1>1, <1>2 DEF BioOK, WrittenOK
  <2>2. ASSUME NEW r \in Sector, f <= r, r < g + (i + 1) PROVE contents'[r] = v
    <3>1. r < g + i \/ r = s
      <4>1. r \in Nat /\ g \in Nat /\ i \in Nat
        BY <1>3, SectorInPage
      <4> HIDE DEF g, i
      <4>2. r < g + i \/ r = g + i
        BY <2>2, <4>1
      <4> QED BY <4>2 DEF s
    <3> QED BY <1>3, <1>11, <2>1, <2>2, <3>1 DEF contents, s
  <2> QED BY <1>9, <1>12, <2>1, <2>2 DEF WrittenOK
<1>16. Copied(b, pages', contents')
  BY <1>13, <1>14, <1>15 DEF Copied, n
<1> QED BY <1>2, <1>8, <1>9, <1>11, <1>16 DEF BioOK, s

\* A sector is written, and the bio goes on.
LEMMA WriteStep ==
  ASSUME IInv, [Next]_vars, NEW p \in Procs, WriteSector(p) PROVE IInv'
<1>1. pc[p] = "copy" /\ advance(p, io[p])
  BY DEF WriteSector
<1> QED BY <1>1, Writing, AdvanceStep

-------------------------------------------------------------------------------
(* Freeing the pages.                                                      *)

\* Of a finite set of numbers, those that have fewer than n smaller ones: all of
\* the set, or n of them, and then with each number all that are smaller.
LEMMA FirstOnes ==
  ASSUME NEW S \in SUBSET PageIdx, NEW n \in Nat \ {0},
         NEW B, B = {x \in S : Cardinality({y \in S : y < x}) < n}
  PROVE  /\ Cardinality(B) = n => /\ Max(B) \in B
                                  /\ \A x \in S : x <= Max(B) => x \in B
         /\ Cardinality(B) # n => B = S
<1> DEFINE Less(x) == {y \in S : y < x}
<1>1. IsFiniteSet(S) /\ S \subseteq Nat /\ \A x \in S : x <= PAGES
  <2>1. IsFiniteSet(PageIdx) /\ PageIdx \subseteq Nat /\ \A x \in PageIdx : x <= PAGES
    BY FS_Interval, SizesNat DEF PageIdx
  <2> QED BY <2>1, FS_Subset
<1>2. ASSUME NEW x PROVE IsFiniteSet(Less(x)) /\ Cardinality(Less(x)) \in Nat
  BY <1>1, FS_Subset, FS_CardinalityType
<1>3. IsFiniteSet(B) /\ Cardinality(B) \in Nat /\ B \subseteq S
  BY <1>1, FS_Subset, FS_CardinalityType
<1>4. \A x \in S : x \in B <=> Cardinality(Less(x)) < n
  OBVIOUS
<1>5. ASSUME B # {} PROVE Max(B) \in B /\ \A y \in B : y <= Max(B)
  <2>1. \E x \in B : \A y \in B : y <= x
    BY <1>1, <1>3, <1>5, SizesNat, GreatestNat
  <2>2. \E x \in B : \A y \in B : x >= y
    BY <1>1, <1>3, <2>1
  <2>3. Max(B) \in B /\ \A y \in B : Max(B) >= y
    BY <2>2 DEF Max
  <2> QED BY <1>1, <1>3, <2>3
<1>6. ASSUME B # {}, NEW x \in S, x <= Max(B) PROVE x \in B
  <2>1. Less(x) \subseteq Less(Max(B))
    <3> DEFINE M == Max(B)
    <3>1. M \in Nat /\ x \in Nat /\ x <= M
      BY <1>1, <1>3, <1>5, <1>6
    <3> HIDE DEF M
    <3>2. \A y \in S : y < x => y < M
      BY <1>1, <3>1
    <3> QED BY <3>2 DEF M
  <2>2. Cardinality(Less(x)) <= Cardinality(Less(Max(B)))
    BY <1>2, <2>1, FS_Subset
  <2>3. Cardinality(Less(Max(B))) < n
    BY <1>3, <1>4, <1>5, <1>6
  <2> HIDE DEF Less
  <2>4. Cardinality(Less(x)) < n
    BY <1>2, <2>2, <2>3
  <2> QED BY <1>4, <2>4
<1>7. Cardinality(B) = n => B # {}
  BY FS_EmptySet
<1>8. Cardinality(B) <= n
  <2>1. CASE B = {}
    <3> HIDE DEF Less
    <3>1. Cardinality(B) = 0
      BY <2>1, FS_EmptySet
    <3>2. 0 <= n
      OBVIOUS
    <3> QED BY <3>1, <3>2
  <2>2. CASE B # {}
    <3>1. B \ {Max(B)} \subseteq Less(Max(B))
      <4> DEFINE M == Max(B)
      <4>1. M \in B /\ \A y \in B : y <= M /\ y \in Nat /\ y \in S
        BY <1>1, <1>3, <1>5, <2>2
      <4> HIDE DEF M
      <4>2. \A y \in B : y # M => y < M
        BY <4>1
      <4> QED BY <4>1, <4>2 DEF M
    <3>2. Cardinality(B \ {Max(B)}) <= Cardinality(Less(Max(B)))
      BY <1>2, <3>1, FS_Subset
    <3>3. Cardinality(B \ {Max(B)}) = Cardinality(B) - 1
      BY <1>3, <1>5, <2>2, FS_RemoveElement
    <3>4. Cardinality(Less(Max(B))) < n
      BY <1>3, <1>4, <1>5, <2>2
    <3> HIDE DEF Less
    <3> QED BY <1>2, <1>3, <3>2, <3>3, <3>4
  <2> QED BY <2>1, <2>2
<1>9. ASSUME Cardinality(B) # n PROVE B = S
  <2> SUFFICES ASSUME S \ B # {} PROVE FALSE
    BY <1>3
  <2>1. PICK x \in S \ B : \A y \in S \ B : x <= y
    BY <1>1, LeastNat
  <2>2. Less(x) \subseteq B
    <3>1. \A y \in S : y \in Nat /\ (y < x => ~ (x <= y))
      BY <1>1, <2>1
    <3> QED BY <2>1, <3>1
  <2>3. Cardinality(Less(x)) <= Cardinality(B)
    BY <1>3, <2>2, FS_Subset
  <2>4. ~ (Cardinality(Less(x)) < n)
    BY <1>4, <2>1
  <2> HIDE DEF Less
  <2> QED BY <1>2, <1>3, <1>8, <1>9, <2>3, <2>4
<1> QED BY <1>5, <1>6, <1>7, <1>9

\* A round frees the pages at its position and beyond up to its last one, or all.
LEMMA Lookup ==
  ASSUME tree \in [PageIdx -> {NoPage} \cup Page], NEW k \in Nat,
         NEW B, B = gang_lookup(k)
  PROVE  /\ Cardinality(B) = FREE_BATCH =>
              /\ Max(B) \in Nat
              /\ \A x \in PageIdx : (k <= x /\ x < Max(B) + 1) => (tree[x] = NoPage \/ x \in B)
         /\ Cardinality(B) # FREE_BATCH =>
              \A x \in PageIdx : k <= x => (tree[x] = NoPage \/ x \in B)
<1> DEFINE S == {x \in PageIdx : tree[x] # NoPage /\ x >= k}
<1>1. \A x \in PageIdx : x \in Nat
  BY SizesNat DEF PageIdx
<1>2. \A x : {y \in PageIdx : tree[y] # NoPage /\ y >= k /\ y < x} = {y \in S : y < x}
  OBVIOUS
<1>3. B = {x \in S : Cardinality({y \in S : y < x}) < FREE_BATCH}
  BY <1>2 DEF gang_lookup
<1>4. \A x \in PageIdx : x \in S <=> (tree[x] # NoPage /\ k <= x)
  BY <1>1
<1>5. S \in SUBSET PageIdx
  OBVIOUS
<1> HIDE DEF S
<1>6. /\ Cardinality(B) = FREE_BATCH => /\ Max(B) \in B
                                        /\ \A x \in S : x <= Max(B) => x \in B
      /\ Cardinality(B) # FREE_BATCH => B = S
  BY <1>3, <1>5, SizesNat, FirstOnes
<1>7. Cardinality(B) = FREE_BATCH => Max(B) \in Nat
  BY <1>1, <1>3, <1>5, <1>6
<1>8. ASSUME Cardinality(B) = FREE_BATCH, NEW x \in PageIdx, k <= x, x < Max(B) + 1
      PROVE  tree[x] = NoPage \/ x \in B
  <2>1. x <= Max(B)
    BY <1>1, <1>7, <1>8
  <2> QED BY <1>4, <1>6, <1>8, <2>1
<1> QED BY <1>4, <1>6, <1>7, <1>8

\* A round: everything below the next position is gone, or everything at all.
LEMMA Freeing ==
  ASSUME IInv, NEW p \in Procs, FreeBatch(p)
  PROVE  /\ \A q \in Procs \ {p} : pc[q] = "closed" /\ pc'[q] = "closed"
         /\ pc[p] = "freeing" /\ UNCHANGED <<io_mutex, io>>
         /\ tree' \in [PageIdx -> {NoPage} \cup Page]
         /\ \/ /\ pc'[p] = "freeing" /\ pos'[p] \in Nat
               /\ \A x \in PageIdx : x < pos'[p] => tree'[x] = NoPage
            \/ /\ pc'[p] = "open"
               /\ \A x \in PageIdx : tree'[x] = NoPage
<1> DEFINE B == gang_lookup(pos[p])
           k == pos[p]
<1>1. /\ pc[p] = "freeing" /\ UNCHANGED <<io_mutex, io>>
      /\ tree' = [x \in PageIdx |-> IF x \in B THEN NoPage ELSE tree[x]]
      /\ IF Cardinality(B) = FREE_BATCH
         THEN pos' = [pos EXCEPT ![p] = Max(B) + 1] /\ UNCHANGED pc
         ELSE pos' = [pos EXCEPT ![p] = 0] /\ goto(p, "open")
  BY DEF FreeBatch
<1>2. /\ DOMAIN pc = Procs /\ DOMAIN pos = Procs
      /\ tree \in [PageIdx -> {NoPage} \cup Page]
  BY DEF IInv, ShapeOK
<1>3. /\ \A q \in Procs \ {p} : pc[q] = "closed"
      /\ k \in Nat /\ \A x \in PageIdx : x < k => tree[x] = NoPage
  BY <1>1 DEF IInv, FlushOK
<1>4. \A x \in PageIdx : x \in Nat
  BY SizesNat DEF PageIdx
<1>5. /\ Cardinality(B) = FREE_BATCH =>
           /\ Max(B) \in Nat
           /\ \A x \in PageIdx : (k <= x /\ x < Max(B) + 1) => (tree[x] = NoPage \/ x \in B)
      /\ Cardinality(B) # FREE_BATCH =>
           \A x \in PageIdx : k <= x => (tree[x] = NoPage \/ x \in B)
  BY <1>2, <1>3, Lookup
<1> HIDE DEF B, k
<1>6. tree' \in [PageIdx -> {NoPage} \cup Page]
  BY <1>1, <1>2
<1>7. CASE Cardinality(B) = FREE_BATCH
  <2>1. pos'[p] = Max(B) + 1 /\ pc' = pc /\ Max(B) + 1 \in Nat
    BY <1>1, <1>2, <1>5, <1>7
  <2>2. ASSUME NEW x \in PageIdx, x < Max(B) + 1 PROVE tree'[x] = NoPage
    BY <1>1, <1>3, <1>4, <1>5, <1>7, <2>2
  <2> QED BY <1>1, <1>3, <1>6, <2>1, <2>2
<1>8. CASE Cardinality(B) # FREE_BATCH
  <2>1. pc'[p] = "open" /\ \A q \in Procs \ {p} : pc'[q] = pc[q]
    BY <1>1, <1>2, <1>8 DEF goto
  <2>2. ASSUME NEW x \in PageIdx PROVE tree'[x] = NoPage
    BY <1>1, <1>3, <1>4, <1>5, <1>8, <2>2
  <2> QED BY <1>1, <1>3, <1>6, <2>1, <2>2
<1> QED BY <1>7, <1>8

\* A round of brd_free_pages leaves whoever calls it alone.
LEMMA FreeStep ==
  ASSUME IInv, [Next]_vars, NEW p \in Procs, FreeBatch(p) PROVE IInv'
<1>1. /\ \A q \in Procs \ {p} : pc[q] = "closed" /\ pc'[q] = "closed"
      /\ pc[p] = "freeing" /\ UNCHANGED <<io_mutex, io>>
      /\ tree' \in [PageIdx -> {NoPage} \cup Page]
      /\ pc'[p] \in {"freeing", "open"}
      /\ pc'[p] = "freeing" => /\ pos'[p] \in Nat
                               /\ \A x \in PageIdx : x < pos'[p] => tree'[x] = NoPage
  BY Freeing
<1>2. ShapeOK /\ ShapeOK'
  BY ShapeNext DEF IInv
<1>3. MutexOK'
  BY <1>1 DEF MutexOK, Busy, IInv
<1>4. FlushOK'
  BY <1>1 DEF FlushOK
<1>5. ASSUME NEW q \in Procs PROVE ProcOK(io[q], pc[q], pages, contents)'
  <2>1. ProcOK(io[q], pc[q], pages, contents) /\ io'[q] = io[q]
    BY <1>1 DEF IInv
  <2>2. pc[q] \in {"closed", "freeing"} /\ pc'[q] \in {"closed", "freeing", "open"}
    BY <1>1
  <2> QED BY <2>1, <2>2 DEF ProcOK, Busy
<1> QED BY <1>1, <1>2, <1>3, <1>4, <1>5 DEF IInv

\* Without shared open files, one opener is one process.
LEMMA FlushStep ==
  ASSUME ~ SharedOpen, IInv, [Next]_vars, NEW p \in Procs, Flush(p) PROVE IInv'
<1> DEFINE users == {q \in Procs : pc[q] # "closed"}
<1>1. /\ pc[p] = "open" /\ Cardinality(users) <= 1
      /\ pos' = [pos EXCEPT ![p] = 0] /\ goto(p, "freeing")
      /\ UNCHANGED <<tree, io_mutex, io>>
  BY DEF Flush, openers
<1>2. users = {p}
  <2>1. IsFiniteSet(users) /\ {p} \in SUBSET users
    BY <1>1, StoreAssumption, FS_Subset
  <2>2. Cardinality(users) \in Nat /\ Cardinality({p}) = 1 /\ Cardinality({p}) <= Cardinality(users)
    BY <2>1, FS_CardinalityType, FS_Singleton, FS_Subset
  <2>3. Cardinality(users) = Cardinality({p})
    BY <1>1, <2>2
  <2> QED BY <2>1, <2>3, FS_Subset
<1>3. ShapeOK /\ ShapeOK'
  BY ShapeNext DEF IInv
<1>4. /\ pc'[p] = "freeing" /\ pos'[p] = 0
      /\ \A q \in Procs \ {p} : pc[q] = "closed" /\ pc'[q] = "closed"
  BY <1>1, <1>2, <1>3 DEF ShapeOK, goto
<1>5. MutexOK'
  BY <1>1, <1>4 DEF MutexOK, Busy, IInv
<1>6. FlushOK'
  <2>1. \A x \in PageIdx : ~ (x < 0)
    BY SizesNat DEF PageIdx
  <2> QED BY <1>4, <2>1 DEF FlushOK
<1>7. ASSUME NEW q \in Procs PROVE ProcOK(io[q], pc[q], pages, contents)'
  <2>1. ProcOK(io[q], pc[q], pages, contents) /\ io'[q] = io[q]
    BY <1>1 DEF IInv
  <2> QED BY <1>1, <1>4, <2>1 DEF ProcOK, Busy
<1> QED BY <1>1, <1>3, <1>5, <1>6, <1>7 DEF IInv
-------------------------------------------------------------------------------
(* What holds of every behaviour in which the processes have their own     *)
(* open files.                                                             *)

\* Every step preserves the inductive invariant.
LEMMA NextIInv == ASSUME ~ SharedOpen, IInv, [Next]_vars PROVE IInv'
<1>1. CASE UNCHANGED vars
  <2>1. UNCHANGED tree /\ pages' = pages /\ contents' = contents
    BY <1>1, TreeDecides DEF vars
  <2>2. MutexOK' /\ FlushOK' /\ ShapeOK'
    BY <1>1, <2>1 DEF vars, IInv, MutexOK, FlushOK, ShapeOK
  <2>3. ASSUME NEW q \in Procs PROVE ProcOK(io[q], pc[q], pages, contents)'
    BY <1>1, <2>1 DEF vars, IInv
  <2> QED BY <2>1, <2>2, <2>3 DEF IInv
<1>2. ASSUME NEW p \in Procs, NEW rw \in {"read", "write", "discard"}, NEW s \in Sector,
             NEW lens \in Segments, NEW v \in Values, NEW cloned \in BOOLEAN,
             StartBio(p, rw, s, lens, v, cloned)
      PROVE  IInv'
  BY <1>2, StartStep
<1>3. ASSUME NEW p \in Procs, Open(p) \/ Close(p) PROVE IInv'
  BY <1>3, OpenStep
<1>4. ASSUME NEW p \in Procs, SetupSector(p) PROVE IInv'
  BY <1>4, SetupStep
<1>5. ASSUME NEW p \in Procs, SetupFails(p) \/ EndDiscard(p) PROVE IInv'
  BY <1>5, EndStep
<1>6. ASSUME NEW p \in Procs, ReadSector(p) PROVE IInv'
  BY <1>6, ReadStep
<1>7. ASSUME NEW p \in Procs, WriteSector(p) PROVE IInv'
  BY <1>7, WriteStep
<1>8. ASSUME NEW p \in Procs, DiscardPage(p) PROVE IInv'
  BY <1>8, DiscardStep
<1>9. ASSUME NEW p \in Procs, Flush(p) PROVE IInv'
  BY <1>9, FlushStep
<1>10. ASSUME NEW p \in Procs, FreeBatch(p) PROVE IInv'
  BY <1>10, FreeStep
<1> QED BY <1>1, <1>2, <1>3, <1>4, <1>5, <1>6, <1>7, <1>8, <1>9, <1>10 DEF Next

\* The inductive invariant holds throughout.
THEOREM Invariance == ASSUME ~ SharedOpen PROVE Spec => []IInv
<1>1. IInv /\ [Next]_vars => IInv'
  BY NextIInv
<1> QED BY <1>1, InitIInv, PTL DEF Spec

\* Reads return one moment's contents: nothing that a read has already copied
\* changes while it goes on from sector to sector and from segment to segment.
THEOREM ReadsAreSnapshots == ASSUME ~ SharedOpen PROVE Spec => []ReadIsSnapshot
<1>1. ASSUME IInv PROVE ReadIsSnapshot
  <2> SUFFICES ASSUME NEW p \in Procs, NEW k \in 1 .. Len(io[p].buf)
               PROVE  io[p].buf[k] = content(io[p].first + k - 1)
    BY DEF ReadIsSnapshot
  <2> DEFINE b == io[p]
             f == b.first
             s == b.sector
             i == b.i
             L == Len(b.buf)
  <2>1. ProcOK(b, pc[p], pages, contents)
    BY <1>1 DEF IInv
  <2>2. b.buf # <<>>
    OBVIOUS
  <2>3. BioOK(b, pc[p], pages, contents) /\ pc[p] \in Busy
    BY <2>1, <2>2 DEF ProcOK, no_io
  <2>4. b.rw = "read" /\ L = (s + i) - f /\ b.buf[k] = contents[f + k - 1]
    BY <2>2, <2>3 DEF BioOK, BufferOK
  <2>5. pc[p] = "copy"
    BY <2>3, <2>4 DEF BioOK, LocalsOK, InPages, Busy
  <2>6. f \in Nat /\ s \in Nat /\ i \in Nat /\ s + i \in Sector
    BY <2>3, <2>5, SegmentOnDisk DEF BioOK
  <2>7. f + k - 1 \in Sector
    <3>1. k \in Nat /\ 1 <= k /\ k <= L /\ L = (s + i) - f
      <4>1. L \in Nat
        BY <2>3, <2>4 DEF BioOK, BufferOK
      <4> QED BY <2>4, <4>1
    <3> HIDE DEF L, f, s, i, Capacity
    <3>2. s + i \in Nat /\ s + i < Capacity /\ Capacity \in Nat
      BY <2>6, SectorInPage, SizesNat
    <3>3. f + k - 1 \in 0 .. (Capacity - 1)
      BY <2>6, <3>1, <3>2
    <3> QED BY <3>3 DEF Sector
  <2> QED BY <1>1, <2>4, <2>7, ContentIsValue DEF IInv
<1> QED BY <1>1, Invariance, PTL

\* Whatever the segments and the pages in between, a write that copies a sector has
\* the page that its setup has made or found.
WriteFindsPage ==
  \A p \in Procs : (pc[p] = "copy" /\ io[p].rw = "write") =>
    tree[page_of(io[p].sector + io[p].i)] # NoPage

\* BUG_ON(!page) is never reached: a write that copies finds the page it wants.
THEOREM WritesFindPages == ASSUME ~ SharedOpen PROVE Spec => []WriteFindsPage
<1>1. ASSUME IInv PROVE WriteFindsPage
  <2> SUFFICES ASSUME NEW p \in Procs, pc[p] = "copy", io[p].rw = "write"
               PROVE  tree[page_of(io[p].sector + io[p].i)] # NoPage
    BY DEF WriteFindsPage
  <2> DEFINE b == io[p]
             s == b.sector
             i == b.i
             h == Head(b.lens)
  <2>1. BioOK(b, "copy", pages, contents)
    BY <1>1, AloneInBio DEF Busy
  <2>2. s \in Nat /\ i \in Nat /\ h \in Nat \ {0} /\ i < h /\ s + i \in Sector
    BY <2>1, SegmentOnDisk DEF BioOK
  <2>3. \A r \in Sector : (s <= r /\ r < s + h) => page_of(r) \in pages
    BY <2>1 DEF BioOK, WrittenOK
  <2> HIDE DEF s, i, h
  <2>4. s <= s + i /\ s + i < s + h
    BY <2>2
  <2>5. page_of(s + i) \in pages
    BY <2>2, <2>3, <2>4
  <2> QED BY <2>5 DEF pages, s, i
<1> QED BY <1>1, Invariance, PTL

\* Only a process's own steps change where it is, and only these end a bio or a flush.
LEMMA WhoMoves ==
  ASSUME IInv, Next, NEW p \in Procs, pc'[p] = "open", pc[p] # "open"
  PROVE  /\ pc[p] = "copy" => ReadSector(p) \/ WriteSector(p)
         /\ pc[p] = "freeing" => FreeBatch(p)
<1>1. DOMAIN pc = Procs
  BY DEF IInv, ShapeOK
<1>2. ASSUME NEW q \in Procs, NEW rw, NEW s, NEW lens, NEW v, NEW cloned,
             StartBio(q, rw, s, lens, v, cloned)
      PROVE  FALSE
  BY <1>1, <1>2 DEF StartBio, start, goto
<1>3. ASSUME NEW q \in Procs, Open(q) \/ Close(q) \/ Flush(q)
      PROVE  pc[p] = "closed"
  BY <1>1, <1>3 DEF Open, Close, Flush, goto
<1>4. ASSUME NEW q \in Procs, SetupSector(q) \/ SetupFails(q) \/ DiscardPage(q) \/ EndDiscard(q)
      PROVE  pc[p] \in {"setup", "discard"}
  BY <1>1, <1>4 DEF SetupSector, SetupFails, DiscardPage, EndDiscard, end_bio, goto
<1>5. ASSUME NEW q \in Procs, ReadSector(q) \/ WriteSector(q)
      PROVE  q = p /\ pc[p] = "copy"
  <2>1. PICK l : advance(q, l)
    BY <1>5 DEF ReadSector, WriteSector
  <2>2. pc[q] = "copy"
    BY <1>5 DEF ReadSector, WriteSector
  <2> QED BY <1>1, <2>1, <2>2 DEF advance, end_bio, goto
<1>6. ASSUME NEW q \in Procs, FreeBatch(q) PROVE q = p /\ pc[p] = "freeing"
  BY <1>1, <1>6 DEF FreeBatch, goto
<1> QED BY <1>2, <1>3, <1>4, <1>5, <1>6 DEF Next

\* A write that was not given up has put its value in all of its sectors by the time
\* it lets go of io_mutex.
THEOREM WritesAreWhole == ASSUME ~ SharedOpen PROVE Spec => WriteIsWhole
<1> DEFINE Whole == \A p \in Procs :
             (pc[p] = "copy" /\ io[p].rw = "write" /\ pc'[p] = "open") =>
               \A s \in Sector :
                 (io[p].first <= s /\ s < io[p].first + io[p].size) =>
                    content(s)' = io[p].value
<1>1. ASSUME IInv, [Next]_vars PROVE [Whole]_vars
  <2> SUFFICES ASSUME Next, NEW p \in Procs, pc[p] = "copy", io[p].rw = "write",
                      pc'[p] = "open", NEW r \in Sector, io[p].first <= r,
                      r < io[p].first + io[p].size
               PROVE  content(r)' = io[p].value
    BY <1>1
  <2> DEFINE b == io[p]
             f == b.first
             g == b.size
             s == b.sector
             j == b.i + 1
             h == Head(b.lens)
             z == bi_size(b.lens)
             n == [b EXCEPT !.i = j]
  <2>1. WriteSector(p)
    BY <1>1, WhoMoves DEF ReadSector
  <2>2. advance(p, b)
    BY <2>1 DEF WriteSector
  <2>3. LocalsOK(b, "copy") /\ InSegments(b, "copy") /\ Copied(b, pages', contents')
    BY <1>1, <2>1, Writing
  <2>4. /\ b.lens \in Seq(Nat \ {0}) /\ b.lens # <<>> /\ h \in Nat \ {0}
        /\ f \in Nat /\ g \in Nat /\ s \in Nat /\ j \in Nat /\ j <= h
        /\ z \in Nat /\ s + z = f + g
    <3>1. b.i \in Nat
      BY <2>3 DEF LocalsOK
    <3>2. j \in Nat
      BY <3>1
    <3> HIDE DEF b
    <3> QED BY <2>3, <3>2, SegmentOnDisk
  <2>5. ~ (j < h) /\ ~ (Len(b.lens) > 1)
    <3>1. pc' # pc
      OBVIOUS
    <3> QED BY <1>1, <2>2, <3>1 DEF advance, goto, IInv, ShapeOK
  <2>6. z = h
    BY <2>4, <2>5, FirstSegment
  <2>7. f + g = s + j
    <3> HIDE DEF f, g, s, j, h, z
    <3> QED BY <2>4, <2>5, <2>6
  <2>8. /\ n.rw = "write" /\ n.first = f /\ n.sector = s /\ n.i = j /\ n.value = b.value
    <3>1. b = [rw |-> b.rw, first |-> b.first, size |-> b.size, sector |-> b.sector,
               lens |-> b.lens, value |-> b.value, i |-> b.i, buf |-> b.buf]
      BY <2>3 DEF LocalsOK
    <3>2. n = [rw |-> b.rw, first |-> b.first, size |-> b.size, sector |-> b.sector,
               lens |-> b.lens, value |-> b.value, i |-> j, buf |-> b.buf]
      <4> HIDE DEF b, j
      <4> QED BY <3>1, NextI
    <3> QED BY <3>2
  <2>9. WrittenOK(n, "copy", pages', contents')
    BY <2>3 DEF Copied
  <2>10. contents'[r] = b.value
    <3>1. (IF "copy" = "copy" THEN n.i ELSE 0) = j
      BY <2>8
    <3> HIDE DEF n
    <3> QED BY <2>7, <2>8, <2>9, <3>1 DEF WrittenOK
  <2>11. contents'[r] = content(r)'
    BY DEF contents
  <2> QED BY <2>10, <2>11
<1> QED BY <1>1, Invariance, PTL DEF Spec, WriteIsWhole

\* The pages under a bio stay: one goes away only while no bio is being handled.
THEOREM PagesStayUnderBios == ASSUME ~ SharedOpen PROVE Spec => PagesStay
<1> DEFINE Stay == (\E x \in PageIdx : tree[x] # NoPage /\ tree'[x] = NoPage) => io_mutex = {}
<1>1. ASSUME IInv, [Next]_vars PROVE [Stay]_vars
  <2> SUFFICES ASSUME Next, NEW x \in PageIdx, tree[x] # NoPage, tree'[x] = NoPage
               PROVE  io_mutex = {}
    BY <1>1
  <2>0. DOMAIN tree = PageIdx
    BY <1>1 DEF IInv, ShapeOK
  <2>1. ASSUME NEW p \in Procs, FreeBatch(p) PROVE io_mutex = {}
    BY <1>1, <2>1, Freeing DEF IInv, MutexOK, Busy
  <2>2. ASSUME NEW p \in Procs, WriteSector(p) PROVE FALSE
    BY <1>1, <2>2, Writing DEF pages
  <2>3. ASSUME NEW p \in Procs, SetupSector(p) \/ DiscardPage(p) PROVE FALSE
    BY <2>0, <2>3, PagesArePages DEF SetupSector, DiscardPage, insert_page, clear_page
  <2>4. ASSUME NEW p \in Procs,
               \/ Open(p) \/ Close(p) \/ Flush(p)
               \/ ReadSector(p) \/ SetupFails(p) \/ EndDiscard(p)
        PROVE  FALSE
    BY <2>4 DEF Open, Close, Flush, ReadSector, SetupFails, EndDiscard
  <2>5. ASSUME NEW p \in Procs, NEW rw, NEW s, NEW lens, NEW v, NEW cloned,
               StartBio(p, rw, s, lens, v, cloned)
        PROVE  FALSE
    BY <2>5 DEF StartBio
  <2> QED BY <2>1, <2>2, <2>3, <2>4, <2>5 DEF Next
<1> QED BY <1>1, Invariance, PTL DEF Spec, PagesStay

\* A flush frees every page, in however many batches.
THEOREM FlushesFreeAll == ASSUME ~ SharedOpen PROVE Spec => FlushFreesAll
<1> DEFINE Free == \A p \in Procs : (pc[p] = "freeing" /\ pc'[p] = "open") =>
                     \A x \in PageIdx : tree'[x] = NoPage
<1>1. ASSUME IInv, [Next]_vars PROVE [Free]_vars
  <2> SUFFICES ASSUME Next, NEW p \in Procs, pc[p] = "freeing", pc'[p] = "open"
               PROVE  \A x \in PageIdx : tree'[x] = NoPage
    BY <1>1
  <2>1. FreeBatch(p)
    BY <1>1, WhoMoves
  <2> QED BY <1>1, <2>1, Freeing
<1> QED BY <1>1, Invariance, PTL DEF Spec, FlushFreesAll
===============================================================================
