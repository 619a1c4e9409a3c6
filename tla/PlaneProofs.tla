------------------------------ MODULE PlaneProofs ------------------------------
(***************************************************************************)
(* Proofs about PlaneSpec and PlaneMerge, for any number of blocks and of *)
(* pages.  The inductive invariant says of each block that its counters   *)
(* and its state agree with its pages and that some page is not INVALID,  *)
(* and of the plane that its answer "no free page" is true.  While a      *)
(* merge runs, its invariant (MInv) says what the loops have made of the  *)
(* block so far.                                                          *)
(***************************************************************************)
EXTENDS PlaneMerge, NumberLemmas, FiniteSetTheorems, TLAPS

Programmed(b) == {i \in PageIndex : b.data[i] # "EMPTY"}

\* What BlockAccounting and NoBlockRetires say of one block.
Sound(b) ==
  /\ b \in Block
  /\ b.pages_valid   = Cardinality(Programmed(b))
  /\ b.pages_invalid = Cardinality(PagesIn(b, "INVALID"))
  /\ (b.state = "FREE") = (\A i \in PageIndex : b.data[i] = "EMPTY")
  /\ b.state # "INACTIVE"
  /\ PagesIn(b, "INVALID") # PageIndex

SoundPlane(p) ==
  /\ p \in Plane
  /\ \A b \in BlockIndex : Sound(p.data[b])

KnowsSpace(p) ==
  p.next_page.valid < PAGE =>
    \A b \in BlockIndex : PagesIn(p.data[b], "EMPTY") = {}

IInv ==
  /\ SoundPlane(plane)
  /\ KnowsSpace(plane)
  /\ last \in Calls
  /\ halted \in BOOLEAN
-------------------------------------------------------------------------------
\* The page indices are a finite set, and one of them is 0.
LEMMA PagesFinite ==
  /\ IsFiniteSet(PageIndex)
  /\ 0 \in PageIndex
  /\ \A S \in SUBSET PageIndex : IsFiniteSet(S) /\ Cardinality(S) \in Nat
<1>1. IsFiniteSet(PageIndex) /\ 0 \in PageIndex
  BY FS_Interval, BlockSizeAssumption DEF PageIndex
<1>2. \A S \in SUBSET PageIndex : IsFiniteSet(S) /\ Cardinality(S) \in Nat
  BY <1>1, FS_Subset, FS_CardinalityType
<1> QED BY <1>1, <1>2

\* A new or erased block is sound, and all of it is EMPTY.
LEMMA ErasedSound ==
  ASSUME NEW b, NEW t \in Nat
  PROVE  /\ Sound(block_init)
         /\ Sound(block_erase(b, t))
         /\ \A i \in PageIndex : block_erase(b, t).data[i] = "EMPTY"
<1> DEFINE e == block_erase(b, t)
<1>1. block_init \in Block /\ e \in Block
  BY DEF block_init, block_erase, Block, page_state, block_state
<1>2. /\ Programmed(block_init) = {} /\ PagesIn(block_init, "INVALID") = {}
      /\ Programmed(e) = {} /\ PagesIn(e, "INVALID") = {}
  BY DEF block_init, block_erase, Programmed, PagesIn
<1>3. \A i \in PageIndex : e.data[i] = "EMPTY" /\ block_init.data[i] = "EMPTY"
  BY DEF block_init, block_erase
<1>4. /\ block_init.pages_valid = 0 /\ block_init.pages_invalid = 0
      /\ block_init.state = "FREE"
      /\ e.pages_valid = 0 /\ e.pages_invalid = 0 /\ e.state = "FREE"
  BY DEF block_init, block_erase
<1> QED BY <1>1, <1>2, <1>3, <1>4, FS_EmptySet, PagesFinite DEF Sound

\* Programming a page, or failing to, keeps a block sound and empties no page.
LEMMA WriteSound ==
  ASSUME NEW b, Sound(b), NEW i \in PageIndex
  PROVE  /\ Sound(block_write(b, i))
         /\ PagesIn(block_write(b, i), "EMPTY") \subseteq PagesIn(b, "EMPTY")
<1> DEFINE w == block_write(b, i)
<1>1. CASE ~page_writable(b, i)
  BY <1>1 DEF block_write
<1>2. CASE page_writable(b, i)
  <2>0. b \in Block /\ b.data[i] = "EMPTY" /\ b.data \in [PageIndex -> page_state]
    BY <1>2 DEF page_writable, Sound, Block
  <2>1. /\ w.data = [b.data EXCEPT ![i] = "VALID"]
        /\ w.pages_valid = b.pages_valid + 1 /\ w.pages_invalid = b.pages_invalid
        /\ w.state = "ACTIVE"
    BY <1>2, <2>0 DEF block_write, Block
  <2>2. w \in Block
    <3>1. [b.data EXCEPT ![i] = "VALID"] \in [PageIndex -> page_state]
      BY <2>0 DEF page_state
    <3>2. b.pages_valid + 1 \in Nat /\ "ACTIVE" \in block_state
      BY <2>0 DEF Block, block_state
    <3> QED BY <1>2, <2>0, <3>1, <3>2 DEF block_write, Block
  <2>3. /\ Programmed(w) = Programmed(b) \cup {i} /\ i \notin Programmed(b)
        /\ PagesIn(w, "INVALID") = PagesIn(b, "INVALID")
        /\ PagesIn(w, "EMPTY") \subseteq PagesIn(b, "EMPTY")
        /\ w.data[i] # "EMPTY"
    BY <2>0, <2>1 DEF Programmed, PagesIn
  <2>4. Cardinality(Programmed(w)) = Cardinality(Programmed(b)) + 1
    BY <2>3, FS_AddElement, PagesFinite DEF Programmed
  <2> QED BY <2>1, <2>2, <2>3, <2>4 DEF Sound
<1> QED BY <1>1, <1>2

\* The size of the union of two disjoint finite sets.
LEMMA DisjointUnion ==
  ASSUME NEW S, NEW T, IsFiniteSet(S), IsFiniteSet(T), S \cap T = {}
  PROVE  Cardinality(S \cup T) = Cardinality(S) + Cardinality(T)
<1>1. Cardinality(S) \in Nat /\ Cardinality(T) \in Nat
  BY FS_CardinalityType
<1>2. Cardinality(S \cap T) = 0
  BY FS_EmptySet
<1>3. Cardinality(S \cup T) = Cardinality(S) + Cardinality(T) - Cardinality(S \cap T)
  BY FS_Union
<1> QED BY <1>1, <1>2, <1>3

\* A merge that is let go ahead keeps a block sound and empties no page; it
\* cannot use up the EMPTY pages, so one page remains that is not INVALID.
LEMMA MergeSound ==
  ASSUME NEW b, Sound(b), merge_fits(b)
  PROVE  /\ Sound(merged(b))
         /\ PagesIn(merged(b), "EMPTY") \subseteq PagesIn(b, "EMPTY")
<1> DEFINE m == merged(b)
           V == PagesIn(b, "VALID")
           E == PagesIn(b, "EMPTY")
<1>1. CASE V = {}
  BY <1>1 DEF merged
<1>2. CASE V # {}
  <2>1. /\ m.data = [i \in PageIndex |-> IF i \in V THEN "INVALID"
                                         ELSE IF i = 0 /\ merge_lands(b) THEN "VALID"
                                         ELSE b.data[i]]
        /\ m.pages_valid = IF merge_lands(b) THEN b.pages_valid + 1 ELSE b.pages_valid
        /\ m.pages_invalid = b.pages_invalid + Cardinality(V)
        /\ m.state = "ACTIVE"
        /\ m.last_erase_time = b.last_erase_time
        /\ DOMAIN m = DOMAIN b
    BY <1>2 DEF merged, Sound, Block
  <2>2. b \in Block /\ b.data \in [PageIndex -> page_state]
    BY DEF Sound, Block
  <2>3. Cardinality(V) \in Nat /\ Cardinality(E) \in Nat
        /\ IsFiniteSet(V) /\ IsFiniteSet(PagesIn(b, "INVALID"))
    BY PagesFinite DEF PagesIn
  <2>4. m \in Block
    <3>1. m.data \in [PageIndex -> page_state]
      BY <2>1, <2>2 DEF page_state
    <3>2. m.pages_valid \in Nat /\ m.pages_invalid \in Nat /\ m.state \in block_state
      BY <2>1, <2>2, <2>3 DEF Block, block_state
    <3>3. m = [b EXCEPT !.data = m.data, !.pages_valid = m.pages_valid,
                        !.pages_invalid = m.pages_invalid, !.state = m.state]
      BY <1>2, <2>2 DEF merged, Block
    <3> QED BY <2>2, <3>1, <3>2, <3>3 DEF Block
  <2>5. m.pages_invalid = Cardinality(PagesIn(m, "INVALID"))
    <3>1. PagesIn(m, "INVALID") = PagesIn(b, "INVALID") \cup V
      BY <2>1, <2>2 DEF PagesIn, merge_lands
    <3>2. PagesIn(b, "INVALID") \cap V = {}
      BY DEF PagesIn
    <3>3. IsFiniteSet(V) /\ IsFiniteSet(PagesIn(b, "INVALID"))
      BY <2>3
    <3>4. Cardinality(PagesIn(b, "INVALID") \cup V)
            = Cardinality(PagesIn(b, "INVALID")) + Cardinality(V)
      BY <3>2, <3>3, DisjointUnion
    <3>5. m.pages_invalid = Cardinality(PagesIn(b, "INVALID")) + Cardinality(V)
      BY <2>1 DEF Sound
    <3> QED BY <3>1, <3>4, <3>5
  <2>6. m.pages_valid = Cardinality(Programmed(m))
    <3>1. CASE merge_lands(b)
      <4>1. Programmed(m) = Programmed(b) \cup {0} /\ 0 \notin Programmed(b)
        <5>1. 0 \in PageIndex /\ 0 \notin V /\ b.data[0] = "EMPTY"
          BY <3>1, <2>2, PagesFinite DEF merge_lands, PagesIn, page_state
        <5>2. m.data = [i \in PageIndex |-> IF i \in V THEN "INVALID"
                                            ELSE IF i = 0 THEN "VALID" ELSE b.data[i]]
          BY <2>1, <3>1
        <5> QED BY <5>1, <5>2 DEF Programmed, PagesIn
      <4>2. IsFiniteSet(Programmed(b))
        BY PagesFinite DEF Programmed
      <4>3. Cardinality(Programmed(b) \cup {0}) = Cardinality(Programmed(b)) + 1
        BY <4>1, <4>2, FS_AddElement
      <4>4. m.pages_valid = Cardinality(Programmed(b)) + 1
        BY <2>1, <3>1 DEF Sound
      <4> QED BY <4>1, <4>3, <4>4
    <3>2. CASE ~merge_lands(b)
      <4>1. Programmed(m) = Programmed(b)
        BY <2>1, <2>2, <3>2 DEF Programmed, PagesIn
      <4> QED BY <2>1, <3>2, <4>1 DEF Sound
    <3> QED BY <3>1, <3>2
  <2>7. PagesIn(m, "EMPTY") \subseteq E
    BY <2>1, <2>2 DEF PagesIn
  <2>8. PagesIn(m, "INVALID") # PageIndex
    <3>1. E # {}
      <4>1. Cardinality(V) # 0
        BY <1>2, <2>3, FS_EmptySet
      <4>2. Cardinality(V) <= Cardinality(E)
        BY DEF merge_fits
      <4> QED BY <2>3, <4>1, <4>2, FS_EmptySet
    <3>2. PICK e \in E : TRUE
      BY <3>1
    <3>3. e \in PageIndex /\ m.data[e] # "INVALID"
      BY <2>1, <3>2 DEF PagesIn
    <3> QED BY <3>3 DEF PagesIn
  <2>9. \E i \in PageIndex : m.data[i] # "EMPTY"
    <3>1. PICK v \in V : TRUE
      BY <1>2
    <3>2. v \in PageIndex /\ m.data[v] = "INVALID"
      BY <2>1, <3>1 DEF PagesIn
    <3> QED BY <3>2
  <2> QED BY <2>1, <2>4, <2>5, <2>6, <2>7, <2>8, <2>9 DEF Sound
<1> QED BY <1>1, <1>2
-------------------------------------------------------------------------------
\* get_next_page finds an EMPTY page if any block has one (no block is INACTIVE,
\* so none is passed over), and changes nothing but next_page.
LEMMA NextPageKnowsSpace ==
  ASSUME NEW p, SoundPlane(p)
  PROVE  SoundPlane(get_next_page(p)) /\ KnowsSpace(get_next_page(p))
<1> DEFINE g == get_next_page(p)
<1>1. p \in Plane /\ \A b \in BlockIndex : Sound(p.data[b])
  BY DEF SoundPlane
<1>2. BlockIndex \subseteq Nat /\ PageIndex \subseteq Nat
  BY BlockSizeAssumption, PlaneSizeAssumption DEF BlockIndex, PageIndex
<1>3. candidates(p) = BlockIndex
  BY <1>1 DEF candidates, Sound
<1>4. CASE usable(p) # {}
  <2>1. first_usable(p) \in usable(p)
    BY <1>2, <1>4, LeastNat DEF usable, candidates, first_usable
  <2> DEFINE f == first_usable(p)
             b == p.data[f]
  <2>2. f \in BlockIndex /\ PagesIn(b, "EMPTY") # {}
    BY <2>1 DEF usable, candidates, has_next_page
  <2>3. next_page_of(b) \in PagesIn(b, "EMPTY")
    BY <1>2, <2>2, LeastNat DEF PagesIn, next_page_of
  <2>4. next_page_of(b) \in PageIndex
    BY <2>3 DEF PagesIn
  <2>5. [block |-> f, page |-> next_page_of(b), valid |-> PAGE] \in FreePage
    BY <2>2, <2>4 DEF FreePage
  <2>6. g = [p EXCEPT !.next_page = [block |-> f, page |-> next_page_of(b), valid |-> PAGE]]
    BY <1>4 DEF get_next_page
  <2>7. g \in Plane /\ g.data = p.data /\ g.next_page.valid = PAGE
    BY <1>1, <2>5, <2>6 DEF Plane
  <2> QED BY <1>1, <2>7 DEF SoundPlane, KnowsSpace, PAGE
<1>5. CASE usable(p) = {}
  <2>1. \A b \in BlockIndex : PagesIn(p.data[b], "EMPTY") = {}
    BY <1>3, <1>5 DEF usable, has_next_page
  <2> DEFINE v == IF candidates(p) # {} THEN BLOCK ELSE PLANE
  <2>2. g = [p EXCEPT !.next_page = [p.next_page EXCEPT !.valid = v]]
    BY <1>1, <1>5 DEF get_next_page, Plane
  <2>3. [p.next_page EXCEPT !.valid = v] \in FreePage
    BY <1>1 DEF Plane, FreePage
  <2>4. g \in Plane /\ g.data = p.data
    BY <1>1, <2>2, <2>3 DEF Plane
  <2> QED BY <1>1, <2>1, <2>4 DEF SoundPlane, KnowsSpace
<1> QED BY <1>4, <1>5
-------------------------------------------------------------------------------
\* Replacing one block by a sound one that has no new EMPTY page keeps the plane
\* sound, and what it knows of its space.
LEMMA ReplaceBlock ==
  ASSUME NEW p, SoundPlane(p), NEW b \in BlockIndex, NEW w, Sound(w)
  PROVE  LET q == [p EXCEPT !.data = [@ EXCEPT ![b] = w]]
         IN  /\ SoundPlane(q)
             /\ (KnowsSpace(p) /\ PagesIn(w, "EMPTY") \subseteq PagesIn(p.data[b], "EMPTY"))
                  => KnowsSpace(q)
<1> DEFINE q == [p EXCEPT !.data = [@ EXCEPT ![b] = w]]
<1>1. p \in Plane /\ p.data \in [BlockIndex -> Block] /\ w \in Block
  BY DEF SoundPlane, Plane, Sound
<1>2. q = [p EXCEPT !.data = [p.data EXCEPT ![b] = w]]
  BY <1>1
<1>3. [p.data EXCEPT ![b] = w] \in [BlockIndex -> Block]
  BY <1>1
<1>4. q \in Plane /\ q.data = [p.data EXCEPT ![b] = w] /\ q.next_page = p.next_page
  BY <1>1, <1>2, <1>3 DEF Plane
<1>5. \A c \in BlockIndex : q.data[c] = IF c = b THEN w ELSE p.data[c]
  BY <1>1, <1>4
<1> HIDE DEF q
<1>6. SoundPlane(q)
  BY <1>4, <1>5 DEF SoundPlane
<1>7. ASSUME KnowsSpace(p), PagesIn(w, "EMPTY") \subseteq PagesIn(p.data[b], "EMPTY")
      PROVE  KnowsSpace(q)
  BY <1>4, <1>5, <1>7 DEF KnowsSpace
<1> QED BY <1>6, <1>7 DEF q

\* After the refresh that ends an erase or a merge the plane knows its space,
\* whatever it knew before.
LEMMA RefreshKnowsSpace ==
  ASSUME NEW p, SoundPlane(p)
  PROVE  SoundPlane(refresh_if_full(p)) /\ KnowsSpace(refresh_if_full(p))
<1>1. CASE p.next_page.valid < PAGE
  BY <1>1, NextPageKnowsSpace DEF refresh_if_full
<1>2. CASE ~(p.next_page.valid < PAGE)
  BY <1>2 DEF refresh_if_full, KnowsSpace
<1> QED BY <1>1, <1>2

\* ssd_plane_write keeps the plane sound and aware of its space.
LEMMA PlaneWriteSound ==
  ASSUME NEW p, SoundPlane(p), KnowsSpace(p), NEW b \in BlockIndex, NEW i \in PageIndex
  PROVE  SoundPlane(plane_write(p, b, i)) /\ KnowsSpace(plane_write(p, b, i))
<1> DEFINE q == IF b = p.next_page.block THEN get_next_page(p) ELSE p
<1>1. SoundPlane(q) /\ KnowsSpace(q)
  BY NextPageKnowsSpace
<1>2. plane_write(p, b, i) = [q EXCEPT !.data = [@ EXCEPT ![b] = block_write(q.data[b], i)]]
  BY DEF plane_write
<1> HIDE DEF q
<1>3. Sound(q.data[b])
  BY <1>1 DEF SoundPlane
<1>4. /\ Sound(block_write(q.data[b], i))
      /\ PagesIn(block_write(q.data[b], i), "EMPTY") \subseteq PagesIn(q.data[b], "EMPTY")
  BY <1>3, WriteSound
<1> QED BY <1>1, <1>2, <1>4, ReplaceBlock

\* ssd_plane_erase keeps the plane sound and makes it know its space.
LEMMA PlaneEraseSound ==
  ASSUME NEW p, SoundPlane(p), NEW b \in BlockIndex, NEW t \in Nat
  PROVE  SoundPlane(plane_erase(p, b, t)) /\ KnowsSpace(plane_erase(p, b, t))
<1> DEFINE w == block_erase(p.data[b], t)
           q == [p EXCEPT !.data = [@ EXCEPT ![b] = w]]
           u == update_wear_stats(q)
           f == [u EXCEPT !.free_blocks = @ + 1]
<1>2. SoundPlane(q)
  BY ErasedSound, ReplaceBlock
<1>3. plane_erase(p, b, t) = refresh_if_full(f)
  BY DEF plane_erase
<1> HIDE DEF q
<1>4. 0 \in BlockIndex
  BY PlaneSizeAssumption DEF BlockIndex
<1>5. u \in Plane /\ u.data = q.data
  BY <1>2, <1>4 DEF update_wear_stats, SoundPlane, Plane, Block
<1> HIDE DEF u
<1>6. f \in Plane /\ f.data = u.data
  BY <1>5 DEF Plane
<1>7. SoundPlane(f)
  BY <1>2, <1>5, <1>6 DEF SoundPlane
<1> HIDE DEF f
<1> QED BY <1>3, <1>7, RefreshKnowsSpace

\* ssd_plane_merge of one block keeps the plane sound and aware of its space.
LEMMA PlaneMergeSound ==
  ASSUME NEW p, SoundPlane(p), KnowsSpace(p), NEW b \in BlockIndex
  PROVE  SoundPlane(plane_merge(p, b)) /\ KnowsSpace(plane_merge(p, b))
<1>1. CASE ~merge_fits(p.data[b])
  BY <1>1 DEF plane_merge
<1>2. CASE merge_fits(p.data[b])
  <2> DEFINE q == [p EXCEPT !.data = [@ EXCEPT ![b] = merged(p.data[b])]]
  <2>1. Sound(p.data[b])
    BY DEF SoundPlane
  <2>2. Sound(merged(p.data[b]))
    BY <1>2, <2>1, MergeSound
  <2>3. SoundPlane(q)
    BY <2>2, ReplaceBlock
  <2>4. plane_merge(p, b) = refresh_if_full(q)
    BY <1>2 DEF plane_merge
  <2> HIDE DEF q
  <2> QED BY <2>3, <2>4, RefreshKnowsSpace
<1> QED BY <1>1, <1>2
-------------------------------------------------------------------------------
\* The initial plane satisfies the inductive invariant.
LEMMA InitIInv == Init => IInv
<1> SUFFICES ASSUME Init PROVE IInv
  OBVIOUS
<1>1. 0 \in BlockIndex /\ 0 \in PageIndex /\ PLANE_SIZE \in Nat
  BY PlaneSizeAssumption, PagesFinite DEF BlockIndex
<1>2. block_init \in Block /\ Sound(block_init)
  BY ErasedSound DEF Sound
<1>3. plane = plane_init /\ plane.next_page.valid = PAGE
  BY DEF Init, plane_init
<1>4. plane \in Plane
  BY <1>1, <1>2, <1>3 DEF plane_init, Plane, FreePage
<1>5. SoundPlane(plane)
  BY <1>2, <1>3, <1>4 DEF SoundPlane, plane_init
<1>6. KnowsSpace(plane)
  BY <1>3 DEF KnowsSpace, PAGE
<1>7. last \in Calls /\ halted \in BOOLEAN
  BY <1>1 DEF Init, call, Calls, status
<1> QED BY <1>5, <1>6, <1>7 DEF IInv

\* Every call of a method of the plane preserves the inductive invariant.
LEMMA NextIInv == IInv /\ [Next]_vars => IInv'
<1> SUFFICES ASSUME IInv, [Next]_vars PROVE IInv'
  OBVIOUS
<1>1. /\ SoundPlane(plane) /\ KnowsSpace(plane)
      /\ last \in Calls /\ halted \in BOOLEAN
  BY DEF IInv
<1>2. 0 \in PageIndex
  BY PagesFinite
<1>3. ASSUME NEW b \in BlockIndex, NEW i \in PageIndex, ReadPage(b, i)
      PROVE  IInv'
  BY <1>1, <1>3 DEF ReadPage, IInv, call, Calls, status, plane_read_ret
<1>4. ASSUME NEW b \in BlockIndex, NEW i \in PageIndex, WritePage(b, i)
      PROVE  IInv'
  <2>1. SoundPlane(plane') /\ KnowsSpace(plane')
    BY <1>1, <1>4, PlaneWriteSound DEF WritePage
  <2>2. last' \in Calls /\ halted' \in BOOLEAN
    BY <1>1, <1>4 DEF WritePage, call, Calls, status, plane_write_ret
  <2> QED BY <2>1, <2>2 DEF IInv
<1>5. ASSUME NEW b \in BlockIndex, NEW t \in EndTimes, EraseBlock(b, t)
      PROVE  IInv'
  <2>1. SoundPlane(plane') /\ KnowsSpace(plane')
    BY <1>1, <1>5, PlaneEraseSound, EndTimesAssumption DEF EraseBlock
  <2>2. last' \in Calls /\ halted' \in BOOLEAN
    BY <1>1, <1>2, <1>5 DEF EraseBlock, call, Calls, status
  <2> QED BY <2>1, <2>2 DEF IInv
<1>6. ASSUME NEW b \in BlockIndex, MergeBlock(b)
      PROVE  IInv'
  <2>1. SoundPlane(plane') /\ KnowsSpace(plane')
    BY <1>1, <1>6, PlaneMergeSound DEF MergeBlock
  <2>2. plane_merge_ret(plane, b) \in status
    BY DEF plane_merge_ret, merged_ret, status
  <2>3. last' \in Calls /\ halted' \in BOOLEAN
    BY <1>1, <1>2, <1>6, <2>2 DEF MergeBlock, call, Calls
  <2> QED BY <2>1, <2>3 DEF IInv
<1>7. ASSUME NEW b \in BlockIndex, NEW c \in BlockIndex, MergeInto(b, c)
      PROVE  IInv'
  BY <1>1, <1>2, <1>7 DEF MergeInto, IInv, call, Calls, status
<1>8. CASE UNCHANGED vars
  BY <1>1, <1>8 DEF vars, IInv
<1> QED BY <1>3, <1>4, <1>5, <1>6, <1>7, <1>8 DEF Next

\* The inductive invariant holds in every state the plane can reach.
THEOREM Invariance == Spec => []IInv
BY InitIInv, NextIInv, PTL DEF Spec

\* Type correctness: the plane's record, the recorded call and the assert flag
\* stay in their types under any calls.
THEOREM TypeCorrect == Spec => []TypeOK
<1>1. IInv => TypeOK
  BY DEF IInv, SoundPlane, TypeOK
<1> QED BY <1>1, Invariance, PTL

\* The counters and the state that ssd_block.c keeps beside the page array agree
\* with it after any calls.
THEOREM AccountingCorrect == Spec => []BlockAccounting
<1>1. IInv => BlockAccounting
  BY DEF IInv, SoundPlane, Sound, BlockAccounting, Programmed
<1> QED BY <1>1, Invariance, PTL

\* When ssd_plane_get_free_page answers with less than a page, there is none.
THEOREM FreeSpaceIsKnown == Spec => []FreeSpaceKnown
<1>1. IInv => FreeSpaceKnown
  BY DEF IInv, KnowsSpace, FreeSpaceKnown
<1> QED BY <1>1, Invariance, PTL

\* No calls ever take a block out of get_next_page's search.
THEOREM BlocksStayInUse == Spec => []NoBlockRetires
<1>1. IInv => NoBlockRetires
  BY DEF IInv, SoundPlane, Sound, NoBlockRetires
<1> QED BY <1>1, Invariance, PTL
-------------------------------------------------------------------------------
\* get_next_page and the refresh leave the pages alone.
LEMMA SearchKeepsData ==
  ASSUME NEW p \in Plane
  PROVE  /\ get_next_page(p) \in [data : {p.data}, next_page : {get_next_page(p).next_page},
                                  free_blocks : {p.free_blocks}, least_worn : {p.least_worn},
                                  last_erase_time : {p.last_erase_time}]
         /\ refresh_if_full(p).data = p.data
<1>1. get_next_page(p) \in [data : {p.data}, next_page : {get_next_page(p).next_page},
                            free_blocks : {p.free_blocks}, least_worn : {p.least_worn},
                            last_erase_time : {p.last_erase_time}]
  BY DEF get_next_page, Plane
<1>2. get_next_page(p).data = p.data
  BY <1>1
<1> QED BY <1>1, <1>2 DEF refresh_if_full

\* A write programs at most the addressed page ...
LEMMA WriteData ==
  ASSUME NEW p, SoundPlane(p), NEW b \in BlockIndex, NEW i \in PageIndex
  PROVE  plane_write(p, b, i).data = [p.data EXCEPT ![b] = block_write(p.data[b], i)]
<1> DEFINE q == IF b = p.next_page.block THEN get_next_page(p) ELSE p
<1>1. q.data = p.data /\ q \in [data : {p.data}, next_page : {q.next_page},
                                free_blocks : {p.free_blocks}, least_worn : {p.least_worn},
                                last_erase_time : {p.last_erase_time}]
  BY SearchKeepsData DEF SoundPlane, Plane
<1>2. plane_write(p, b, i) = [q EXCEPT !.data = [@ EXCEPT ![b] = block_write(q.data[b], i)]]
  BY DEF plane_write
<1> HIDE DEF q
<1> QED BY <1>1, <1>2

\* ... an erase empties the addressed block ...
LEMMA EraseData ==
  ASSUME NEW p, SoundPlane(p), NEW b \in BlockIndex, NEW t \in Nat
  PROVE  plane_erase(p, b, t).data = [p.data EXCEPT ![b] = block_erase(p.data[b], t)]
<1> DEFINE q == [p EXCEPT !.data = [@ EXCEPT ![b] = block_erase(p.data[b], t)]]
           u == update_wear_stats(q)
           f == [u EXCEPT !.free_blocks = @ + 1]
<1>1. SoundPlane(q) /\ q.data = [p.data EXCEPT ![b] = block_erase(p.data[b], t)]
  BY ErasedSound, ReplaceBlock DEF SoundPlane, Plane
<1>2. plane_erase(p, b, t) = refresh_if_full(f)
  BY DEF plane_erase
<1> HIDE DEF q
<1>3. u \in Plane /\ u.data = q.data
  <2>1. 0 \in BlockIndex
    BY PlaneSizeAssumption DEF BlockIndex
  <2> QED BY <1>1, <2>1 DEF update_wear_stats, SoundPlane, Plane, Block
<1> HIDE DEF u
<1>4. f \in Plane /\ f.data = u.data
  BY <1>3 DEF Plane
<1> HIDE DEF f
<1> QED BY <1>1, <1>2, <1>3, <1>4, SearchKeepsData

\* ... and a merge that fits replaces one block by merged(_).
LEMMA MergeData ==
  ASSUME NEW p, SoundPlane(p), NEW b \in BlockIndex, merge_fits(p.data[b])
  PROVE  plane_merge(p, b).data = [p.data EXCEPT ![b] = merged(p.data[b])]
<1> DEFINE q == [p EXCEPT !.data = [@ EXCEPT ![b] = merged(p.data[b])]]
<1>1. SoundPlane(q) /\ q.data = [p.data EXCEPT ![b] = merged(p.data[b])]
  BY MergeSound, ReplaceBlock DEF SoundPlane, Plane
<1>2. plane_merge(p, b) = refresh_if_full(q)
  BY DEF plane_merge
<1> HIDE DEF q
<1> QED BY <1>1, <1>2, SearchKeepsData DEF SoundPlane

\* The body of NoInPlaceUpdate, and of MergeSuccessKeepsPages, for one step.
InPlaceStep ==
  \A b \in BlockIndex, i \in PageIndex :
    LET old == plane.data[b].data[i]
        new == plane'.data[b].data[i]
    IN  /\ (old # "EMPTY" /\ new = "EMPTY") =>
             (last'.op = "erase" /\ \A j \in PageIndex : plane'.data[b].data[j] = "EMPTY")
        /\ (old # "VALID" /\ new = "VALID") => old = "EMPTY"

MergeStep ==
  (last'.op = "merge" /\ last'.ret = "SUCCESS") =>
    Cardinality(PagesIn(plane'.data[last'.block], "VALID")) =
    Cardinality(PagesIn(plane.data[last'.block], "VALID"))

\* Within one block, a write and a merge empty no page, and program only EMPTY
\* ones.
LEMMA NoPageReused ==
  ASSUME NEW b, Sound(b), NEW w,
         \/ \E k \in PageIndex : w = block_write(b, k)
         \/ merge_fits(b) /\ w = merged(b)
  PROVE  \A i \in PageIndex :
           /\ b.data[i] # "EMPTY" => w.data[i] # "EMPTY"
           /\ (b.data[i] # "VALID" /\ w.data[i] = "VALID") => b.data[i] = "EMPTY"
<1>1. b \in Block /\ b.data \in [PageIndex -> page_state]
  BY DEF Sound, Block
<1>2. ASSUME NEW k \in PageIndex, w = block_write(b, k)
      PROVE  \A i \in PageIndex :
               /\ b.data[i] # "EMPTY" => w.data[i] # "EMPTY"
               /\ (b.data[i] # "VALID" /\ w.data[i] = "VALID") => b.data[i] = "EMPTY"
  BY <1>1, <1>2 DEF block_write, page_writable, Block
<1>3. CASE w = merged(b)
  BY <1>1, <1>3 DEF merged, merge_lands, PagesIn, Block
<1> QED BY <1>2, <1>3

\* A page is programmed at most once between two erases of its block, and is
\* emptied only with all of its block, by an erase.
THEOREM NoPageUpdatedInPlace == Spec => NoInPlaceUpdate
<1>1. IInv /\ [Next]_vars => [InPlaceStep]_vars
  <2> SUFFICES ASSUME IInv, Next PROVE InPlaceStep
    OBVIOUS
  <2>0. /\ SoundPlane(plane) /\ plane.data \in [BlockIndex -> Block]
        /\ \A b \in BlockIndex : Sound(plane.data[b])
        /\ 0 \in PageIndex /\ 0 \in Nat
    BY PagesFinite DEF IInv, SoundPlane, Plane
  <2>1. CASE UNCHANGED plane
    BY <2>1 DEF InPlaceStep
  <2>2. ASSUME NEW b \in BlockIndex, NEW i \in PageIndex, WritePage(b, i)
        PROVE  InPlaceStep
    <3>1. plane' = plane_write(plane, b, i)
      BY <2>2 DEF WritePage
    <3>2. plane'.data = [plane.data EXCEPT ![b] = block_write(plane.data[b], i)]
      BY <2>0, <3>1, WriteData
    <3>3. Sound(plane.data[b])
      BY <2>0
    <3>4. \A k \in PageIndex :
            /\ plane.data[b].data[k] # "EMPTY" => plane'.data[b].data[k] # "EMPTY"
            /\ (plane.data[b].data[k] # "VALID" /\ plane'.data[b].data[k] = "VALID")
                 => plane.data[b].data[k] = "EMPTY"
      BY <2>0, <3>2, <3>3, NoPageReused
    <3>5. \A c \in BlockIndex : c # b => plane'.data[c] = plane.data[c]
      BY <2>0, <3>2
    <3> QED BY <3>4, <3>5 DEF InPlaceStep
  <2>3. ASSUME NEW b \in BlockIndex, NEW t \in EndTimes, EraseBlock(b, t)
        PROVE  InPlaceStep
    <3>1. plane' = plane_erase(plane, b, t) /\ last'.op = "erase" /\ t \in Nat
      BY <2>3, EndTimesAssumption DEF EraseBlock, call
    <3>2. plane'.data = [plane.data EXCEPT ![b] = block_erase(plane.data[b], t)]
      BY <2>0, <3>1, EraseData
    <3>3. \A k \in PageIndex : plane'.data[b].data[k] = "EMPTY"
      BY <2>0, <3>1, <3>2, ErasedSound
    <3>4. \A c \in BlockIndex : c # b => plane'.data[c] = plane.data[c]
      BY <2>0, <3>2
    <3> QED BY <3>1, <3>3, <3>4 DEF InPlaceStep
  <2>4. ASSUME NEW b \in BlockIndex, MergeBlock(b), merge_fits(plane.data[b])
        PROVE  InPlaceStep
    <3>1. plane'.data = [plane.data EXCEPT ![b] = merged(plane.data[b])]
      BY <2>0, <2>4, MergeData DEF MergeBlock
    <3> QED BY <2>0, <2>4, <3>1, NoPageReused DEF InPlaceStep
  <2>5. ASSUME NEW b \in BlockIndex, MergeBlock(b), ~merge_fits(plane.data[b])
        PROVE  InPlaceStep
    BY <2>1, <2>5 DEF MergeBlock, plane_merge
  <2> QED BY <2>1, <2>2, <2>3, <2>4, <2>5 DEF Next, ReadPage, MergeInto
<1>2. NoInPlaceUpdate <=> [][InPlaceStep]_vars
  BY DEF NoInPlaceUpdate, InPlaceStep
<1> QED BY <1>1, <1>2, Invariance, PTL DEF Spec

\* A merge of one block that returns SUCCESS moved no page, or one VALID page
\* into page 0.
LEMMA MergedSuccess ==
  ASSUME NEW b, Sound(b), merged_ret(b) = "SUCCESS"
  PROVE  Cardinality(PagesIn(merged(b), "VALID")) = Cardinality(PagesIn(b, "VALID"))
<1> DEFINE V == PagesIn(b, "VALID")
<1>1. CASE V = {}
  BY <1>1 DEF merged
<1>2. CASE V # {}
  <2>1. merge_lands(b) /\ Cardinality(V) = 1
    BY <1>2 DEF merged_ret
  <2>2. b \in Block /\ b.data \in [PageIndex -> page_state] /\ 0 \in PageIndex
    BY PagesFinite DEF Sound, Block
  <2>3. merged(b).data = [i \in PageIndex |-> IF i \in V THEN "INVALID"
                                              ELSE IF i = 0 THEN "VALID"
                                              ELSE b.data[i]]
    BY <1>2, <2>1, <2>2 DEF merged, Block
  <2>4. PagesIn(merged(b), "VALID") = {0}
    BY <2>1, <2>2, <2>3 DEF PagesIn, merge_lands
  <2>5. Cardinality({0}) = 1
    BY FS_Singleton
  <2> QED BY <2>1, <2>4, <2>5
<1> QED BY <1>1, <1>2

\* A merge that returns SUCCESS leaves as many VALID pages as it found.
THEOREM MergeCanBeBelieved == Spec => MergeSuccessKeepsPages
<1>1. IInv /\ [Next]_vars => [MergeStep]_vars
  <2> SUFFICES ASSUME IInv, Next, last'.op = "merge", last'.ret = "SUCCESS"
               PROVE  Cardinality(PagesIn(plane'.data[last'.block], "VALID")) =
                      Cardinality(PagesIn(plane.data[last'.block], "VALID"))
    BY DEF MergeStep
  <2>1. PICK b \in BlockIndex : MergeBlock(b)
    BY DEF Next, ReadPage, WritePage, EraseBlock, MergeInto, call
  <2>2. last'.block = b /\ plane_merge_ret(plane, b) = "SUCCESS"
    BY <2>1 DEF MergeBlock, call
  <2>3. merge_fits(plane.data[b]) /\ merged_ret(plane.data[b]) = "SUCCESS"
    BY <2>2 DEF plane_merge_ret
  <2>4. /\ SoundPlane(plane) /\ Sound(plane.data[b])
        /\ plane.data \in [BlockIndex -> Block] /\ 0 \in PageIndex /\ 0 \in Nat
    BY PagesFinite DEF IInv, SoundPlane, Plane
  <2>5. plane'.data = [plane.data EXCEPT ![b] = merged(plane.data[b])]
    BY <2>1, <2>3, <2>4, MergeData DEF MergeBlock
  <2> QED BY <2>2, <2>3, <2>4, <2>5, MergedSuccess
<1>2. MergeSuccessKeepsPages <=> [][MergeStep]_vars
  BY DEF MergeSuccessKeepsPages, MergeStep
<1> QED BY <1>1, <1>2, Invariance, PTL DEF Spec
-------------------------------------------------------------------------------
(* The merge, loop by loop (PlaneMerge).                                   *)

\* The VALID pages of block b, among them those before page r.
ToMove(b)     == PagesIn(b, "VALID")
Before(b, r)  == {i \in ToMove(b) : i < r}

\* Block b when the loops have invalidated its pages I and have gone round n times.
AfterMoves(b, I, n) ==
  [data            |-> [i \in PageIndex |-> IF i \in I THEN "INVALID"
                                            ELSE IF i = 0 /\ merge_lands(b) /\ n > 0 THEN "VALID"
                                            ELSE b.data[i]],
   pages_valid     |-> IF merge_lands(b) /\ n > 0 THEN b.pages_valid + 1 ELSE b.pages_valid,
   pages_invalid   |-> b.pages_invalid + Cardinality(I),
   state           |-> IF I = {} THEN b.state ELSE "ACTIVE",
   last_erase_time |-> b.last_erase_time]

\* The pages invalidated so far: in the inner loop, also the one that is read.
Stale(b, m) == Before(b, m.read_page) \cup (IF m.pc = "write" THEN {m.read_page} ELSE {})

\* Only the first write to page 0 succeeds, and only if it was EMPTY; otherwise each
\* round makes one error, or two.
ErrorsOK(b, m) ==
  IF merge_lands(b)
  THEN m.errors = IF m.num_merged = 0 THEN 0 ELSE m.num_merged - 1
  ELSE /\ m.num_merged <= m.errors
       /\ m.errors <= 2 * m.num_merged + (IF m.pc = "write" THEN 1 ELSE 0)

\* What the locals of a merge in progress can be.
Locals == [pc          : {"read", "write"},
           block       : BlockIndex,
           before      : Plane,
           merge_count : Nat, num_merged : Nat,
           read_page   : 0 .. SSD_BLOCK_SIZE, write_page : 0 .. SSD_BLOCK_SIZE,
           errors      : Nat]

\* The locals m of a merge in progress, and what has become of its block b, blk.
LoopsOK(m, b, blk) ==
  /\ m \in Locals
  /\ m.merge_count = Cardinality(ToMove(b)) /\ merge_fits(b)
  /\ m.num_merged = Cardinality(Before(b, m.read_page))
  /\ m.pc = "write" => m.read_page \in ToMove(b)
  /\ blk = AfterMoves(b, Stale(b, m), m.num_merged)
  /\ \A i \in PageIndex : i < m.write_page => blk.data[i] # "EMPTY"
  /\ ErrorsOK(b, m)

Merging(m, p) ==
  /\ SoundPlane(m.before) /\ KnowsSpace(m.before)
  /\ p = [m.before EXCEPT !.data = [@ EXCEPT ![m.block] = p.data[m.block]]]
  /\ LoopsOK(m, m.before.data[m.block], p.data[m.block])

MInv ==
  /\ last \in Calls /\ halted \in BOOLEAN
  /\ \/ merge = idle(0) /\ IInv
     \/ merge.pc # "idle" /\ ~halted /\ Merging(merge, plane)
-------------------------------------------------------------------------------
\* The pages to move are finitely many; page r, if it is one, is one more than those
\* before it.
LEMMA OnePageMore ==
  ASSUME NEW b, NEW r \in Nat
  PROVE  /\ IsFiniteSet(Before(b, r)) /\ Cardinality(Before(b, r)) \in Nat
         /\ ToMove(b) \subseteq PageIndex /\ Cardinality(ToMove(b)) \in Nat
         /\ Cardinality(Before(b, r)) <= Cardinality(ToMove(b))
         /\ r \in ToMove(b) =>
              /\ r \notin Before(b, r) /\ Before(b, r + 1) = Before(b, r) \cup {r}
              /\ Cardinality(Before(b, r) \cup {r}) = Cardinality(Before(b, r)) + 1
              /\ Cardinality(Before(b, r)) + 1 <= Cardinality(ToMove(b))
         /\ r \notin ToMove(b) => Before(b, r + 1) = Before(b, r)
<1>1. ToMove(b) \in SUBSET PageIndex /\ Before(b, r) \in SUBSET ToMove(b)
  BY DEF ToMove, PagesIn, Before
<1>2. /\ IsFiniteSet(ToMove(b)) /\ Cardinality(ToMove(b)) \in Nat
      /\ IsFiniteSet(Before(b, r)) /\ Cardinality(Before(b, r)) \in Nat
      /\ Cardinality(Before(b, r)) <= Cardinality(ToMove(b))
  BY <1>1, PagesFinite, FS_Subset
<1>3. \A i \in ToMove(b) : i \in Nat
  BY <1>1, BlockSizeAssumption DEF PageIndex
<1>4. ASSUME r \in ToMove(b)
      PROVE  r \notin Before(b, r) /\ Before(b, r + 1) = Before(b, r) \cup {r}
  <2>1. \A i \in Nat : i < r + 1 <=> (i < r \/ i = r)
    OBVIOUS
  <2>2. ~ (r < r)
    OBVIOUS
  <2> QED BY <1>3, <1>4, <2>1, <2>2 DEF Before
<1>5. ASSUME r \in ToMove(b)
      PROVE  /\ Cardinality(Before(b, r) \cup {r}) = Cardinality(Before(b, r)) + 1
             /\ Cardinality(Before(b, r) \cup {r}) <= Cardinality(ToMove(b))
  <2>1. Before(b, r) \cup {r} \in SUBSET ToMove(b)
    BY <1>1, <1>5
  <2> QED BY <1>2, <1>4, <1>5, <2>1, FS_AddElement, FS_Subset
<1>6. r \notin ToMove(b) => Before(b, r + 1) = Before(b, r)
  BY <1>3 DEF Before
<1> QED BY <1>1, <1>2, <1>4, <1>5, <1>6

\* While there is a page to move, an EMPTY page is left for it.
LEMMA RoomLeft ==
  ASSUME NEW b, Sound(b), merge_fits(b), NEW r \in PageIndex, r \in ToMove(b),
         NEW n, n = Cardinality(Before(b, r)), NEW I \in SUBSET ToMove(b)
  PROVE  \E i \in PageIndex : b.data[i] = "EMPTY" /\ AfterMoves(b, I, n).data[i] = "EMPTY"
<1> DEFINE E == PagesIn(b, "EMPTY")
<1>1. /\ n \in Nat /\ n + 1 <= Cardinality(ToMove(b)) /\ Cardinality(ToMove(b)) \in Nat
      /\ r \in Nat
  <2>1. r \in Nat
    BY BlockSizeAssumption DEF PageIndex
  <2> QED BY <2>1, OnePageMore
<1>2. E \in SUBSET PageIndex /\ IsFiniteSet(E) /\ Cardinality(E) \in Nat
  BY PagesFinite DEF PagesIn
<1>3. n + 1 <= Cardinality(E)
  BY <1>1, <1>2 DEF merge_fits, ToMove
<1>4. \A i \in E : i \notin I
  BY DEF ToMove, PagesIn
<1>5. CASE merge_lands(b) /\ n > 0
  <2>1. 0 \in E
    BY <1>5, PagesFinite DEF merge_lands, PagesIn
  <2>2. Cardinality(E \ {0}) = Cardinality(E) - 1 /\ IsFiniteSet(E \ {0})
    BY <1>2, <2>1, FS_RemoveElement
  <2>3. Cardinality(E \ {0}) # 0
    BY <1>1, <1>2, <1>3, <1>5, <2>2
  <2>4. E \ {0} # {}
    BY <2>2, <2>3, FS_EmptySet
  <2>5. PICK i \in E : i # 0
    BY <2>4
  <2> QED BY <1>4, <2>5 DEF AfterMoves, PagesIn
<1>6. CASE ~ (merge_lands(b) /\ n > 0)
  <2>1. Cardinality(E) # 0
    BY <1>1, <1>2, <1>3
  <2>2. E # {}
    BY <2>1, FS_EmptySet
  <2>3. PICK i \in E : TRUE
    BY <2>2
  <2>4. AfterMoves(b, I, n).data[i] = b.data[i]
    BY <1>2, <1>4, <1>6, <2>3 DEF AfterMoves
  <2> QED BY <2>3, <2>4 DEF PagesIn
<1> QED BY <1>5, <1>6

\* Nothing has been moved yet.
LEMMA NoMoves == ASSUME NEW b, Sound(b) PROVE AfterMoves(b, {}, 0) = b
<1>1. /\ b = [data |-> b.data, pages_valid |-> b.pages_valid,
              pages_invalid |-> b.pages_invalid, state |-> b.state,
              last_erase_time |-> b.last_erase_time]
      /\ b.data = [i \in PageIndex |-> b.data[i]] /\ b.pages_invalid \in Nat
  BY DEF Sound, Block
<1>2. Cardinality({}) = 0
  BY FS_EmptySet
<1> QED BY <1>1, <1>2 DEF AfterMoves

\* What block_invalidate_page, block_write and a merge assign of block x.
WithInvalid(x, D, I, S) ==
  [x EXCEPT !.data = D, !.pages_invalid = I, !.state = S]
WithValid(x, D, V, S) ==
  [x EXCEPT !.data = D, !.pages_valid = V, !.state = S]
WithBoth(x, D, V, I, S) ==
  [x EXCEPT !.data = D, !.pages_valid = V, !.pages_invalid = I, !.state = S]

\* The fields block_invalidate_page assigns, and those it leaves.
LEMMA FieldsInvalidated ==
  ASSUME NEW x, NEW D, NEW I, NEW S,
         x = [data |-> x.data, pages_valid |-> x.pages_valid,
              pages_invalid |-> x.pages_invalid, state |-> x.state,
              last_erase_time |-> x.last_erase_time]
  PROVE  WithInvalid(x, D, I, S)
           = [data |-> D, pages_valid |-> x.pages_valid,
              pages_invalid |-> I, state |-> S,
              last_erase_time |-> x.last_erase_time]
<1> DEFINE m1 == [data |-> D, pages_valid |-> x.pages_valid,
                   pages_invalid |-> x.pages_invalid, state |-> x.state,
                   last_erase_time |-> x.last_erase_time]
           m2 == [data |-> D, pages_valid |-> x.pages_valid,
                   pages_invalid |-> I, state |-> x.state,
                   last_erase_time |-> x.last_erase_time]
           m3 == [data |-> D, pages_valid |-> x.pages_valid,
                   pages_invalid |-> I, state |-> S,
                   last_erase_time |-> x.last_erase_time]
<1>1. [x EXCEPT !.data = D] = m1
  OBVIOUS
<1>2. [m1 EXCEPT !.pages_invalid = I] = m2
  OBVIOUS
<1>3. [m2 EXCEPT !.state = S] = m3
  OBVIOUS
<1> HIDE DEF m1, m2, m3
<1>4. [x EXCEPT !.data = D, !.pages_invalid = I, !.state = S]
       = m3
  BY <1>1, <1>2, <1>3
<1> QED BY <1>4 DEF m3, WithInvalid

\* The fields block_write assigns, and those it leaves.
LEMMA FieldsWritten ==
  ASSUME NEW x, NEW D, NEW V, NEW S,
         x = [data |-> x.data, pages_valid |-> x.pages_valid,
              pages_invalid |-> x.pages_invalid, state |-> x.state,
              last_erase_time |-> x.last_erase_time]
  PROVE  WithValid(x, D, V, S)
           = [data |-> D, pages_valid |-> V,
              pages_invalid |-> x.pages_invalid, state |-> S,
              last_erase_time |-> x.last_erase_time]
<1> DEFINE m1 == [data |-> D, pages_valid |-> x.pages_valid,
                   pages_invalid |-> x.pages_invalid, state |-> x.state,
                   last_erase_time |-> x.last_erase_time]
           m2 == [data |-> D, pages_valid |-> V,
                   pages_invalid |-> x.pages_invalid, state |-> x.state,
                   last_erase_time |-> x.last_erase_time]
           m3 == [data |-> D, pages_valid |-> V,
                   pages_invalid |-> x.pages_invalid, state |-> S,
                   last_erase_time |-> x.last_erase_time]
<1>1. [x EXCEPT !.data = D] = m1
  OBVIOUS
<1>2. [m1 EXCEPT !.pages_valid = V] = m2
  OBVIOUS
<1>3. [m2 EXCEPT !.state = S] = m3
  OBVIOUS
<1> HIDE DEF m1, m2, m3
<1>4. [x EXCEPT !.data = D, !.pages_valid = V, !.state = S]
       = m3
  BY <1>1, <1>2, <1>3
<1> QED BY <1>4 DEF m3, WithValid

\* The fields a merge assigns, and those it leaves.
LEMMA FieldsMerged ==
  ASSUME NEW x, NEW D, NEW V, NEW I, NEW S,
         x = [data |-> x.data, pages_valid |-> x.pages_valid,
              pages_invalid |-> x.pages_invalid, state |-> x.state,
              last_erase_time |-> x.last_erase_time]
  PROVE  WithBoth(x, D, V, I, S)
           = [data |-> D, pages_valid |-> V,
              pages_invalid |-> I, state |-> S,
              last_erase_time |-> x.last_erase_time]
<1> DEFINE m1 == [data |-> D, pages_valid |-> x.pages_valid,
                   pages_invalid |-> x.pages_invalid, state |-> x.state,
                   last_erase_time |-> x.last_erase_time]
           m2 == [data |-> D, pages_valid |-> V,
                   pages_invalid |-> x.pages_invalid, state |-> x.state,
                   last_erase_time |-> x.last_erase_time]
           m3 == [data |-> D, pages_valid |-> V,
                   pages_invalid |-> I, state |-> x.state,
                   last_erase_time |-> x.last_erase_time]
           m4 == [data |-> D, pages_valid |-> V,
                   pages_invalid |-> I, state |-> S,
                   last_erase_time |-> x.last_erase_time]
<1>1. [x EXCEPT !.data = D] = m1
  OBVIOUS
<1>2. [m1 EXCEPT !.pages_valid = V] = m2
  OBVIOUS
<1>3. [m2 EXCEPT !.pages_invalid = I] = m3
  OBVIOUS
<1>4. [m3 EXCEPT !.state = S] = m4
  OBVIOUS
<1> HIDE DEF m1, m2, m3, m4
<1>5. [x EXCEPT !.data = D, !.pages_valid = V, !.pages_invalid = I, !.state = S]
       = m4
  BY <1>1, <1>2, <1>3, <1>4
<1> QED BY <1>5 DEF m4, WithBoth

\* Invalidating a page that is read.
LEMMA ReadMoves ==
  ASSUME NEW b, Sound(b), merge_fits(b), NEW r \in PageIndex, r \in ToMove(b),
         NEW n, n = Cardinality(Before(b, r))
  PROVE  block_invalidate_page(AfterMoves(b, Before(b, r), n), r)
           = AfterMoves(b, Before(b, r) \cup {r}, n)
<1> DEFINE I == Before(b, r)
           J == I \cup {r}
           x == AfterMoves(b, I, n)
           y == AfterMoves(b, J, n)
           bad == PagesIn(b, "INVALID")
<1>1. r \in Nat
  BY BlockSizeAssumption DEF PageIndex
<1>2. /\ J \in SUBSET PageIndex /\ IsFiniteSet(I) /\ Cardinality(I) \in Nat
      /\ Cardinality(J) = Cardinality(I) + 1
  BY <1>1, OnePageMore DEF Before
<1>3. b.pages_invalid = Cardinality(bad) /\ b.pages_invalid \in Nat /\ b.pages_valid \in Nat
  BY DEF Sound, Block
<1>4. b.pages_invalid + Cardinality(J) < SSD_BLOCK_SIZE
  <2>1. PICK e \in PageIndex : b.data[e] = "EMPTY"
    BY RoomLeft DEF Before
  <2>2. /\ bad \in SUBSET PageIndex /\ bad \cap J = {} /\ e \notin bad \cup J
        /\ bad \cup J \in SUBSET PageIndex
    BY <1>2, <2>1 DEF PagesIn, Before, ToMove
  <2>3. IsFiniteSet(bad) /\ IsFiniteSet(J) /\ IsFiniteSet(bad \cup J)
    BY <1>2, <2>2, PagesFinite
  <2>4. Cardinality(bad \cup J) = Cardinality(bad) + Cardinality(J)
    BY <2>2, <2>3, DisjointUnion
  <2>5. Cardinality((bad \cup J) \cup {e}) = Cardinality(bad \cup J) + 1
    BY <2>2, <2>3, FS_AddElement
  <2>6. Cardinality((bad \cup J) \cup {e}) <= Cardinality(PageIndex)
    BY <2>1, <2>2, PagesFinite, FS_Subset
  <2>7. Cardinality(PageIndex) = SSD_BLOCK_SIZE
    BY FS_Interval, BlockSizeAssumption DEF PageIndex
  <2>8. Cardinality(bad) \in Nat /\ Cardinality(J) \in Nat /\ SSD_BLOCK_SIZE \in Nat
    BY <2>2, <1>2, PagesFinite, BlockSizeAssumption
  <2> HIDE DEF bad, J
  <2> QED BY <1>3, <2>4, <2>5, <2>6, <2>7, <2>8
<1>5. x.pages_valid \in Nat /\ x.pages_invalid = b.pages_invalid + Cardinality(I)
  BY <1>3 DEF AfterMoves
<1>6. x.pages_invalid + 1 = b.pages_invalid + Cardinality(J)
  BY <1>2, <1>3, <1>5
<1>7. state_of(x.pages_valid, x.pages_invalid + 1) = "ACTIVE"
  <2>1. x.pages_invalid + 1 \in Nat /\ x.pages_invalid + 1 > 0
    BY <1>2, <1>3, <1>5
  <2>2. ~ (x.pages_invalid + 1 >= SSD_BLOCK_SIZE)
    BY <1>4, <1>6, <2>1, BlockSizeAssumption
  <2> HIDE DEF x
  <2> QED BY <2>1, <2>2 DEF state_of
<1>8. [x.data EXCEPT ![r] = "INVALID"] = y.data
  BY <1>2 DEF AfterMoves
<1>9. /\ x.pages_valid = y.pages_valid /\ x.last_erase_time = y.last_erase_time
      /\ y.pages_invalid = b.pages_invalid + Cardinality(J) /\ y.state = "ACTIVE"
  BY DEF AfterMoves
<1>10. /\ x = [data |-> x.data, pages_valid |-> x.pages_valid,
               pages_invalid |-> x.pages_invalid, state |-> x.state,
               last_erase_time |-> x.last_erase_time]
       /\ y = [data |-> y.data, pages_valid |-> y.pages_valid,
               pages_invalid |-> y.pages_invalid, state |-> y.state,
               last_erase_time |-> y.last_erase_time]
  BY DEF AfterMoves
<1> HIDE DEF x, y
<1>11. block_invalidate_page(x, r) =
         [data |-> y.data, pages_valid |-> y.pages_valid,
          pages_invalid |-> x.pages_invalid + 1, state |-> "ACTIVE",
          last_erase_time |-> y.last_erase_time]
  <2> DEFINE d == [x.data EXCEPT ![r] = "INVALID"]
             k == x.pages_invalid + 1
  <2>1. block_invalidate_page(x, r) = WithInvalid(x, d, k, "ACTIVE")
    BY <1>7, <1>10 DEF block_invalidate_page, WithInvalid
  <2> HIDE DEF d, k
  <2>2. WithInvalid(x, d, k, "ACTIVE") =
          [data |-> d, pages_valid |-> x.pages_valid, pages_invalid |-> k,
           state |-> "ACTIVE", last_erase_time |-> x.last_erase_time]
    BY <1>10, FieldsInvalidated
  <2> QED BY <1>8, <1>9, <2>1, <2>2 DEF d, k
<1> QED BY <1>6, <1>9, <1>10, <1>11 DEF x, y

\* Writing page 0, whatever page was read.
LEMMA WriteMoves ==
  ASSUME NEW b, Sound(b), NEW I \in SUBSET ToMove(b), I # {}, NEW n \in Nat
  PROVE  LET x == AfterMoves(b, I, n)
         IN  /\ page_writable(x, event_page) <=> (merge_lands(b) /\ n = 0)
             /\ block_write(x, event_page) = AfterMoves(b, I, n + 1)
<1> DEFINE x == AfterMoves(b, I, n)
           y == AfterMoves(b, I, n + 1)
<1>1. 0 \in PageIndex /\ n + 1 > 0 /\ (n = 0 \/ n > 0) /\ (n = 0 => ~ (n > 0))
  BY PagesFinite
<1>2. merge_lands(b) => 0 \notin I
  BY DEF merge_lands, ToMove, PagesIn
<1>3. x.data[0] = IF 0 \in I THEN "INVALID"
                  ELSE IF merge_lands(b) /\ n > 0 THEN "VALID" ELSE b.data[0]
  BY <1>1 DEF AfterMoves
<1>4. page_writable(x, 0) <=> (merge_lands(b) /\ n = 0)
  <2> HIDE DEF x
  <2> QED BY <1>1, <1>2, <1>3 DEF page_writable, merge_lands
<1>5. /\ x = [data |-> x.data, pages_valid |-> x.pages_valid,
              pages_invalid |-> x.pages_invalid, state |-> x.state,
              last_erase_time |-> x.last_erase_time]
      /\ y = [data |-> y.data, pages_valid |-> y.pages_valid,
              pages_invalid |-> y.pages_invalid, state |-> y.state,
              last_erase_time |-> y.last_erase_time]
      /\ x.state = "ACTIVE" /\ y.state = "ACTIVE" /\ x.pages_invalid = y.pages_invalid
      /\ x.last_erase_time = y.last_erase_time
  BY DEF AfterMoves
<1>6. CASE merge_lands(b) /\ n = 0
  <2>1. [x.data EXCEPT ![0] = "VALID"] = y.data
    BY <1>1, <1>2, <1>6 DEF AfterMoves
  <2>2. y.pages_valid = x.pages_valid + 1
    BY <1>1, <1>6 DEF AfterMoves
  <2>3. page_writable(x, 0)
    BY <1>4, <1>6
  <2> HIDE DEF x, y
  <2>4. block_write(x, 0) = y
    <3> DEFINE d == [x.data EXCEPT ![0] = "VALID"]
               k == x.pages_valid + 1
    <3>1. block_write(x, 0) = WithValid(x, d, k, "ACTIVE")
      BY <1>5, <2>3 DEF block_write, WithValid
    <3> HIDE DEF d, k
    <3>2. WithValid(x, d, k, "ACTIVE") =
            [data |-> d, pages_valid |-> k, pages_invalid |-> x.pages_invalid,
             state |-> "ACTIVE", last_erase_time |-> x.last_erase_time]
      BY <1>5, FieldsWritten
    <3> QED BY <1>5, <2>1, <2>2, <3>1, <3>2 DEF d, k
  <2> QED BY <1>4, <2>4 DEF event_page, x, y
<1>7. CASE ~ (merge_lands(b) /\ n = 0)
  <2>1. x = y
    BY <1>1, <1>7 DEF AfterMoves
  <2>2. block_write(x, 0) = x
    BY <1>4, <1>7 DEF block_write
  <2> QED BY <1>4, <2>1, <2>2 DEF event_page
<1> QED BY <1>6, <1>7

\* When all pages have been moved, the block is merged, and its status is known.
LEMMA AllMoved ==
  ASSUME NEW b, Sound(b), NEW n, n = Cardinality(ToMove(b)), NEW m, m.num_merged = n,
         m.errors \in Nat, m.pc = "read", ErrorsOK(b, m)
  PROVE  /\ AfterMoves(b, ToMove(b), n) = merged(b)
         /\ m.errors = 0 <=> merged_ret(b) = "SUCCESS"
         /\ merged_ret(b) \in status
<1> DEFINE V == ToMove(b)
<1>1. n \in Nat /\ V \in SUBSET PageIndex /\ IsFiniteSet(V)
  BY PagesFinite DEF ToMove, PagesIn
<1>2. n = 0 <=> V = {}
  BY <1>1, FS_EmptySet
<1>3. CASE V = {}
  <2>1. merged(b) = b /\ merged_ret(b) = "SUCCESS"
    BY <1>3 DEF merged, merged_ret, ToMove
  <2>2. AfterMoves(b, {}, 0) = b
    BY NoMoves
  <2>3. m.errors = 0
    BY <1>2, <1>3 DEF ErrorsOK
  <2> QED BY <1>2, <1>3, <2>1, <2>2, <2>3 DEF status
<1>4. CASE V # {}
  <2>1. n > 0 /\ n # 0 /\ (n = 1 <=> n - 1 = 0)
    BY <1>1, <1>2, <1>4
  <2>2. b = [data |-> b.data, pages_valid |-> b.pages_valid,
             pages_invalid |-> b.pages_invalid, state |-> b.state,
             last_erase_time |-> b.last_erase_time]
    BY DEF Sound, Block
  <2>3. AfterMoves(b, V, n) = merged(b)
    <3> DEFINE d == [i \in PageIndex |-> IF i \in V THEN "INVALID"
                                         ELSE IF i = 0 /\ merge_lands(b) THEN "VALID"
                                         ELSE b.data[i]]
               k == IF merge_lands(b) THEN b.pages_valid + 1 ELSE b.pages_valid
               l == b.pages_invalid + n
    <3>1. AfterMoves(b, V, n) = [data |-> d, pages_valid |-> k, pages_invalid |-> l,
                                 state |-> "ACTIVE", last_erase_time |-> b.last_erase_time]
      BY <1>4, <2>1 DEF AfterMoves
    <3>2. merged(b) = WithBoth(b, d, k, l, "ACTIVE")
      BY <1>4, <2>2 DEF merged, ToMove, WithBoth
    <3> HIDE DEF d, k, l, V
    <3>3. WithBoth(b, d, k, l, "ACTIVE") =
            [data |-> d, pages_valid |-> k, pages_invalid |-> l,
             state |-> "ACTIVE", last_erase_time |-> b.last_erase_time]
      BY <2>2, FieldsMerged
    <3> QED BY <3>1, <3>2, <3>3 DEF V
  <2>4. merged_ret(b) = IF merge_lands(b) /\ n = 1 THEN "SUCCESS" ELSE "FAILURE"
    BY <1>4 DEF merged_ret, ToMove
  <2>5. m.errors = 0 <=> (merge_lands(b) /\ n = 1)
    BY <1>1, <2>1 DEF ErrorsOK
  <2> QED BY <2>3, <2>4, <2>5 DEF status
<1> QED BY <1>3, <1>4

\* Reading page r of a block in the middle of its loops: it is VALID just when it
\* is one of the pages to move.
LEMMA StillValid ==
  ASSUME NEW b, Sound(b), NEW r \in PageIndex, NEW n, n = Cardinality(Before(b, r))
  PROVE  AfterMoves(b, Before(b, r), n).data[r] = "VALID" <=> r \in ToMove(b)
<1>1. r \in Nat /\ ~ (r < r)
  BY BlockSizeAssumption DEF PageIndex
<1>2. r \notin Before(b, r)
  BY <1>1 DEF Before
<1>3. ~ (r = 0 /\ n > 0)
  <2> SUFFICES ASSUME r = 0, n > 0 PROVE FALSE
    OBVIOUS
  <2>1. Before(b, r) = {}
    BY BlockSizeAssumption DEF Before, ToMove, PagesIn, PageIndex
  <2>2. n = 0
    BY <2>1, FS_EmptySet
  <2> QED BY <2>2
<1> QED BY <1>2, <1>3 DEF AfterMoves, ToMove, PagesIn

\* The outer loop passes over a page that is not VALID, ...
LEMMA LoopSkips ==
  ASSUME NEW b, Sound(b), NEW m, NEW blk, LoopsOK(m, b, blk), m.pc = "read",
         m.read_page < SSD_BLOCK_SIZE, blk.data[m.read_page] # "VALID"
  PROVE  LoopsOK([m EXCEPT !.read_page = @ + 1], b, blk)
<1> DEFINE r == m.read_page
           k == [m EXCEPT !.read_page = @ + 1]
<1>1. m \in Locals /\ r \in PageIndex /\ r \in Nat /\ r + 1 \in 0 .. SSD_BLOCK_SIZE
  BY BlockSizeAssumption DEF LoopsOK, Locals, PageIndex
<1>2. /\ k \in Locals /\ k.pc = m.pc /\ k.merge_count = m.merge_count
      /\ k.num_merged = m.num_merged /\ k.read_page = r + 1
      /\ k.write_page = m.write_page /\ k.errors = m.errors
  BY <1>1 DEF Locals
<1>3. Stale(b, m) = Before(b, r)
  BY DEF Stale
<1>4. r \notin ToMove(b)
  BY <1>1, <1>3, StillValid DEF LoopsOK
<1>5. Before(b, r + 1) = Before(b, r)
  BY <1>1, <1>4, OnePageMore
<1>6. Stale(b, k) = Before(b, r)
  BY <1>2, <1>5 DEF Stale
<1> HIDE DEF k
<1>7. LoopsOK(k, b, blk)
  BY <1>2, <1>3, <1>5, <1>6 DEF LoopsOK, ErrorsOK
<1> QED BY <1>7 DEF k

\* ... and reads and invalidates one that is.
LEMMA LoopReads ==
  ASSUME NEW b, Sound(b), NEW m, NEW blk, LoopsOK(m, b, blk), m.pc = "read",
         m.read_page < SSD_BLOCK_SIZE, blk.data[m.read_page] = "VALID"
  PROVE  LoopsOK([m EXCEPT !.pc = "write",
                    !.errors = IF page_readable(blk, event_page) THEN @ ELSE @ + 1],
                 b, block_invalidate_page(blk, m.read_page))
<1> DEFINE r == m.read_page
           e == IF page_readable(blk, event_page) THEN m.errors ELSE m.errors + 1
           k == [m EXCEPT !.pc = "write", !.errors = e]
           new == block_invalidate_page(blk, r)
<1>1. m \in Locals /\ r \in PageIndex /\ r \in Nat /\ m.errors \in Nat
  BY BlockSizeAssumption DEF LoopsOK, Locals, PageIndex
<1>2. /\ k \in Locals /\ k.pc = "write" /\ k.merge_count = m.merge_count
      /\ k.num_merged = m.num_merged /\ k.read_page = r
      /\ k.write_page = m.write_page
      /\ k.errors = e
  <2>1. e \in Nat
    BY <1>1
  <2> HIDE DEF e
  <2> QED BY <1>1, <2>1 DEF Locals
<1>3. Stale(b, m) = Before(b, r) /\ Stale(b, k) = Before(b, r) \cup {r}
  BY <1>2 DEF Stale
<1>4. m.num_merged = Cardinality(Before(b, r)) /\ merge_fits(b)
      /\ blk = AfterMoves(b, Before(b, r), m.num_merged) /\ m.num_merged \in Nat
  BY <1>1, <1>3 DEF LoopsOK, Locals
<1>5. r \in ToMove(b)
  BY <1>1, <1>4, StillValid
<1>6. new = AfterMoves(b, Before(b, r) \cup {r}, m.num_merged)
  BY <1>1, <1>4, <1>5, ReadMoves
<1>7. \A i \in PageIndex : i < m.write_page => new.data[i] # "EMPTY"
  <2>1. blk.data = [i \in PageIndex |-> blk.data[i]]
    BY <1>4 DEF AfterMoves
  <2>2. \A i \in PageIndex : blk.data[i] # "EMPTY" => new.data[i] # "EMPTY"
    BY <1>4, <1>6 DEF AfterMoves
  <2> QED BY <2>2 DEF LoopsOK
<1>8. merge_lands(b) => page_readable(blk, event_page)
  <2> SUFFICES ASSUME merge_lands(b) PROVE page_readable(blk, 0)
    BY DEF event_page
  <2>1. 0 \in PageIndex /\ 0 \notin Before(b, r)
    BY PagesFinite DEF merge_lands, Before, ToMove, PagesIn
  <2> QED BY <1>4, <2>1 DEF AfterMoves, page_readable, merge_lands
<1>9. ErrorsOK(b, k)
  <2>1. CASE merge_lands(b)
    BY <1>2, <1>8, <2>1 DEF LoopsOK, ErrorsOK
  <2>2. CASE ~ merge_lands(b)
    <3>1. m.num_merged <= m.errors /\ m.errors <= 2 * m.num_merged
      BY <1>4, <2>2 DEF LoopsOK, ErrorsOK
    <3>2. k.errors = m.errors \/ k.errors = m.errors + 1
      BY <1>2
    <3>3. k.num_merged <= k.errors /\ k.errors <= 2 * k.num_merged + 1
      <4> HIDE DEF k
      <4> QED BY <1>1, <1>2, <1>4, <3>1, <3>2
    <3> QED BY <1>2, <2>2, <3>3 DEF ErrorsOK
  <2> QED BY <2>1, <2>2
<1> HIDE DEF k, new
<1>10. LoopsOK(k, b, new)
  BY <1>2, <1>3, <1>4, <1>5, <1>6, <1>7, <1>9 DEF LoopsOK
<1> QED BY <1>10 DEF k, new

\* The inner loop passes over a page that is not EMPTY, ...
LEMMA LoopPasses ==
  ASSUME NEW b, NEW m, NEW blk, LoopsOK(m, b, blk), m.pc = "write",
         m.write_page < SSD_BLOCK_SIZE, blk.data[m.write_page] # "EMPTY"
  PROVE  LoopsOK([m EXCEPT !.write_page = @ + 1], b, blk)
<1> DEFINE w == m.write_page
           k == [m EXCEPT !.write_page = @ + 1]
<1>1. m \in Locals /\ w \in Nat /\ w + 1 \in 0 .. SSD_BLOCK_SIZE
  BY BlockSizeAssumption DEF LoopsOK, Locals
<1>2. /\ k \in Locals /\ k.pc = m.pc /\ k.merge_count = m.merge_count
      /\ k.num_merged = m.num_merged /\ k.read_page = m.read_page
      /\ k.write_page = w + 1 /\ k.errors = m.errors
  BY <1>1 DEF Locals
<1>3. \A i \in PageIndex : i < w + 1 => blk.data[i] # "EMPTY"
  <2>1. \A i \in PageIndex : i < w + 1 => i < w \/ i = w
    BY <1>1, BlockSizeAssumption DEF PageIndex
  <2> QED BY <2>1 DEF LoopsOK
<1> HIDE DEF k
<1>4. LoopsOK(k, b, blk)
  BY <1>2, <1>3 DEF LoopsOK, ErrorsOK, Stale
<1> QED BY <1>4 DEF k

\* ... and writes page 0, or fails to, when it meets one that is.
LEMMA LoopWrites ==
  ASSUME NEW b, Sound(b), NEW m, NEW blk, LoopsOK(m, b, blk), m.pc = "write"
  PROVE  LoopsOK(written(m, blk), b, block_write(blk, event_page))
<1> DEFINE r == m.read_page
           n == m.num_merged
           e == IF page_writable(blk, event_page) THEN m.errors ELSE m.errors + 1
           k == [m EXCEPT !.pc = "read", !.read_page = r + 1, !.num_merged = n + 1,
                          !.errors = e]
           I == Before(b, r) \cup {r}
           new == block_write(blk, event_page)
<1>1. /\ m \in Locals /\ r \in ToMove(b) /\ r \in PageIndex /\ r \in Nat /\ n \in Nat
      /\ r + 1 \in 0 .. SSD_BLOCK_SIZE /\ m.errors \in Nat
  <2>1. m \in Locals /\ r \in ToMove(b)
    BY DEF LoopsOK
  <2>2. r \in PageIndex
    BY <2>1 DEF ToMove, PagesIn
  <2> QED BY <2>1, <2>2, BlockSizeAssumption DEF Locals, PageIndex
<1>2. /\ k \in Locals /\ k.pc = "read" /\ k.merge_count = m.merge_count
      /\ k.num_merged = n + 1 /\ k.read_page = r + 1
      /\ k.write_page = m.write_page /\ k.errors = e
  <2>1. e \in Nat /\ n + 1 \in Nat
    BY <1>1
  <2> HIDE DEF e
  <2> QED BY <1>1, <2>1 DEF Locals
<1>3. /\ Before(b, r + 1) = I /\ Cardinality(I) = n + 1
      /\ I \in SUBSET ToMove(b) /\ I # {}
  <2>1. n = Cardinality(Before(b, r))
    BY DEF LoopsOK
  <2>2. Before(b, r) \in SUBSET ToMove(b)
    BY DEF Before
  <2> HIDE DEF n, r
  <2> QED BY <1>1, <2>1, <2>2, OnePageMore
<1>4. Stale(b, m) = I /\ Stale(b, k) = I
  BY <1>2, <1>3 DEF Stale
<1>5. blk = AfterMoves(b, I, n)
  BY <1>4 DEF LoopsOK
<1>6. /\ page_writable(blk, event_page) <=> (merge_lands(b) /\ n = 0)
      /\ new = AfterMoves(b, I, n + 1)
  <2> HIDE DEF I, n
  <2> QED BY <1>1, <1>3, <1>5, WriteMoves
<1>7. \A i \in PageIndex : i < m.write_page => new.data[i] # "EMPTY"
  <2>1. \A i \in PageIndex : blk.data[i] # "EMPTY" => new.data[i] # "EMPTY"
    BY <1>1, <1>5, <1>6 DEF AfterMoves
  <2> QED BY <2>1 DEF LoopsOK
<1>8. ErrorsOK(b, k)
  <2>1. CASE merge_lands(b)
    <3>1. m.errors = IF n = 0 THEN 0 ELSE n - 1
      BY <2>1 DEF LoopsOK, ErrorsOK
    <3>2. e = IF n = 0 THEN m.errors ELSE m.errors + 1
      BY <1>6, <2>1
    <3>3. e = (n + 1) - 1 /\ n + 1 # 0
      <4> HIDE DEF e
      <4> QED BY <1>1, <3>1, <3>2
    <3> QED BY <1>2, <2>1, <3>3 DEF ErrorsOK
  <2>2. CASE ~ merge_lands(b)
    <3>1. n <= m.errors /\ m.errors <= 2 * n + 1
      BY <2>2 DEF LoopsOK, ErrorsOK
    <3>2. e = m.errors + 1
      BY <1>6, <2>2
    <3>3. n + 1 <= e /\ e <= 2 * (n + 1)
      <4> HIDE DEF e
      <4> QED BY <1>1, <3>1, <3>2
    <3>4. e <= 2 * (n + 1) + 0
      <4> HIDE DEF e
      <4> QED BY <1>1, <3>2, <3>3
    <3> QED BY <1>2, <2>2, <3>3, <3>4 DEF ErrorsOK
  <2> QED BY <2>1, <2>2
<1>9. k = written(m, blk)
  BY DEF written
<1> HIDE DEF k, new, I
<1>10. LoopsOK(k, b, new)
  BY <1>2, <1>3, <1>4, <1>6, <1>7, <1>8 DEF LoopsOK
<1> QED BY <1>9, <1>10 DEF new

\* A merge that fits starts its loops with the block as it is.
LEMMA LoopsStart ==
  ASSUME NEW p, SoundPlane(p), NEW c \in BlockIndex, merge_fits(p.data[c])
  PROVE  LET m == [idle(c) EXCEPT !.pc = "read", !.before = p,
                                  !.merge_count = valid_count(p.data[c])]
         IN  LoopsOK(m, p.data[c], p.data[c]) /\ m.block = c /\ m.before = p /\ m.pc = "read"
<1> DEFINE b == p.data[c]
           v == valid_count(b)
           m == [idle(c) EXCEPT !.pc = "read", !.before = p, !.merge_count = v]
<1>1. Sound(b) /\ p \in Plane /\ v = Cardinality(ToMove(b)) /\ v \in Nat
  BY PagesFinite DEF SoundPlane, valid_count, ToMove, PagesIn
<1>2. /\ m.pc = "read" /\ m.block = c /\ m.before = p /\ m.merge_count = v
      /\ m.num_merged = 0 /\ m.read_page = 0 /\ m.write_page = 0 /\ m.errors = 0
      /\ m \in Locals
  <2>1. 0 \in 0 .. SSD_BLOCK_SIZE
    BY BlockSizeAssumption
  <2> HIDE DEF v
  <2> QED BY <1>1, <2>1 DEF idle, Locals
<1>3. Before(b, 0) = {} /\ Stale(b, m) = {} /\ Cardinality({}) = 0
  <2>1. Before(b, 0) = {}
    BY BlockSizeAssumption DEF Before, ToMove, PagesIn, PageIndex
  <2> QED BY <1>2, <2>1, FS_EmptySet DEF Stale
<1>4. b = AfterMoves(b, {}, 0)
  BY <1>1, NoMoves
<1>5. \A i \in PageIndex : ~ (i < 0)
  BY BlockSizeAssumption DEF PageIndex
<1> HIDE DEF m
<1>6. ErrorsOK(b, m)
  BY <1>2 DEF ErrorsOK
<1>7. LoopsOK(m, b, b)
  BY <1>1, <1>2, <1>3, <1>4, <1>5, <1>6 DEF LoopsOK
<1> QED BY <1>2, <1>7 DEF m

\* When they are done the block is merged, and the errors tell the status.
LEMMA LoopsEnd ==
  ASSUME NEW b, Sound(b), NEW m, NEW blk, LoopsOK(m, b, blk), m.pc = "read",
         ~ (m.num_merged < m.merge_count /\ m.read_page < SSD_BLOCK_SIZE)
  PROVE  /\ blk = merged(b)
         /\ (IF m.errors = 0 THEN "SUCCESS" ELSE "FAILURE") = merged_ret(b)
<1> DEFINE r == m.read_page
           n == m.num_merged
<1>1. /\ m \in Locals /\ r \in 0 .. SSD_BLOCK_SIZE /\ r \in Nat /\ n \in Nat
      /\ n = Cardinality(Before(b, r)) /\ m.merge_count = Cardinality(ToMove(b))
      /\ m.merge_count \in Nat
      /\ m.errors \in Nat
  BY BlockSizeAssumption DEF LoopsOK, Locals
<1>2. Before(b, r) = ToMove(b)
  <2>1. CASE r = SSD_BLOCK_SIZE
    BY <2>1, BlockSizeAssumption DEF Before, ToMove, PagesIn, PageIndex
  <2>2. CASE r # SSD_BLOCK_SIZE
    <3>1. r < SSD_BLOCK_SIZE
      BY <1>1, <2>2, BlockSizeAssumption
    <3>2. ~ (n < m.merge_count)
      BY <3>1
    <3>3. ToMove(b) \in SUBSET PageIndex /\ IsFiniteSet(ToMove(b))
      BY PagesFinite DEF ToMove, PagesIn
    <3>4. Before(b, r) \in SUBSET ToMove(b)
      BY DEF Before
    <3>5. Cardinality(Before(b, r)) <= Cardinality(ToMove(b))
      BY <1>1, OnePageMore
    <3>6. Cardinality(Before(b, r)) = Cardinality(ToMove(b))
      <4> HIDE DEF n, r
      <4> QED BY <1>1, <3>2, <3>5
    <3> QED BY <3>3, <3>4, <3>6, FS_Subset
  <2> QED BY <2>1, <2>2
<1>3. Stale(b, m) = ToMove(b) /\ n = Cardinality(ToMove(b))
  BY <1>1, <1>2 DEF Stale
<1>4. blk = AfterMoves(b, ToMove(b), n) /\ ErrorsOK(b, m)
  BY <1>3 DEF LoopsOK
<1>5. /\ AfterMoves(b, ToMove(b), n) = merged(b)
      /\ m.errors = 0 <=> merged_ret(b) = "SUCCESS"
  BY <1>1, <1>3, <1>4, AllMoved
<1>6. merged_ret(b) = "SUCCESS" \/ merged_ret(b) = "FAILURE"
  BY DEF merged_ret
<1> QED BY <1>4, <1>5, <1>6

\* The inner loop always finds room, and no loop goes round too often.
LEMMA LoopsBounded ==
  ASSUME NEW b, Sound(b), NEW m, NEW blk, LoopsOK(m, b, blk)
  PROVE  /\ m.pc = "write" =>
              \E i \in PageIndex : i >= m.write_page /\ blk.data[i] = "EMPTY"
         /\ m.num_merged <= m.merge_count
         /\ m.errors <= 2 * m.merge_count
<1> DEFINE r == m.read_page
           n == m.num_merged
           c == m.merge_count
<1>1. /\ m \in Locals /\ r \in Nat /\ n \in Nat /\ c \in Nat /\ m.errors \in Nat
      /\ n = Cardinality(Before(b, r)) /\ c = Cardinality(ToMove(b))
      /\ m.write_page \in Nat /\ m.pc \in {"read", "write"}
  BY BlockSizeAssumption DEF LoopsOK, Locals
<1>2. n <= c /\ (m.pc = "write" => n + 1 <= c)
  <2>1. m.pc = "write" => r \in ToMove(b)
    BY DEF LoopsOK
  <2> HIDE DEF n, r, c
  <2> QED BY <1>1, <2>1, OnePageMore
<1>3. ASSUME m.pc = "write"
      PROVE  \E i \in PageIndex : i >= m.write_page /\ blk.data[i] = "EMPTY"
  <2>1. r \in ToMove(b) /\ r \in PageIndex /\ merge_fits(b)
    BY <1>3 DEF LoopsOK, ToMove, PagesIn
  <2>2. /\ Stale(b, m) = Before(b, r) \cup {r}
        /\ Before(b, r) \cup {r} \in SUBSET ToMove(b)
    BY <1>3, <2>1 DEF Stale, Before
  <2>3. PICK i \in PageIndex : AfterMoves(b, Before(b, r) \cup {r}, n).data[i] = "EMPTY"
    <3> HIDE DEF r, n
    <3> QED BY <1>1, <2>1, <2>2, RoomLeft
  <2>4. blk.data[i] = "EMPTY"
    BY <2>2, <2>3 DEF LoopsOK
  <2>5. ~ (i < m.write_page)
    BY <2>4 DEF LoopsOK
  <2>6. i \in Nat
    BY BlockSizeAssumption DEF PageIndex
  <2> QED BY <1>1, <2>4, <2>5, <2>6
<1>4. m.errors <= 2 * c
  <2>1. CASE merge_lands(b)
    <3>1. m.errors = IF n = 0 THEN 0 ELSE n - 1
      BY <2>1 DEF LoopsOK, ErrorsOK
    <3> HIDE DEF n, c
    <3> QED BY <1>1, <1>2, <3>1
  <2>2. CASE ~ merge_lands(b)
    <3>1. m.errors <= 2 * n + (IF m.pc = "write" THEN 1 ELSE 0)
      BY <2>2 DEF LoopsOK, ErrorsOK
    <3> HIDE DEF n, c
    <3> QED BY <1>1, <1>2, <3>1
  <2> QED BY <2>1, <2>2
<1> QED BY <1>2, <1>3, <1>4
-------------------------------------------------------------------------------
\* Replacing the blocks of a plane leaves its other fields.
WithData(q, v) == [q EXCEPT !.data = v]

LEMMA PlaneData ==
  ASSUME NEW q, NEW v,
         q = [data |-> q.data, next_page |-> q.next_page, free_blocks |-> q.free_blocks,
              least_worn |-> q.least_worn, last_erase_time |-> q.last_erase_time]
  PROVE  WithData(q, v) =
           [data |-> v, next_page |-> q.next_page, free_blocks |-> q.free_blocks,
            least_worn |-> q.least_worn, last_erase_time |-> q.last_erase_time]
BY DEF WithData

\* Plane p with another block x at c, as FlashPlane and as PlaneMerge write it.
WithBlock(p, c, x) == [p EXCEPT !.data = [@ EXCEPT ![c] = x]]
PutBlock(p, c, x)  == [p EXCEPT !.data[c] = x]

\* Of two replacements of a block of the plane the second one stays.
LEMMA ReplaceTwice ==
  ASSUME NEW p \in Plane, NEW c \in BlockIndex, NEW x, NEW y, NEW q,
         q = WithBlock(p, c, x)
  PROVE  /\ q.data[c] = x
         /\ PutBlock(q, c, y) = WithBlock(p, c, y)
         /\ PutBlock(q, c, y).data[c] = y
<1>1. /\ p = [data |-> p.data, next_page |-> p.next_page, free_blocks |-> p.free_blocks,
              least_worn |-> p.least_worn, last_erase_time |-> p.last_erase_time]
      /\ p.data = [d \in BlockIndex |-> p.data[d]]
  BY DEF Plane
<1>2. q = [data |-> [p.data EXCEPT ![c] = x], next_page |-> p.next_page,
           free_blocks |-> p.free_blocks, least_worn |-> p.least_worn,
           last_erase_time |-> p.last_erase_time]
  BY <1>1 DEF WithBlock
<1>3. WithBlock(p, c, y) =
        [data |-> [p.data EXCEPT ![c] = y], next_page |-> p.next_page,
         free_blocks |-> p.free_blocks, least_worn |-> p.least_worn,
         last_erase_time |-> p.last_erase_time]
  BY <1>1 DEF WithBlock
<1>4. PutBlock(q, c, y) =
        [data |-> [[p.data EXCEPT ![c] = x] EXCEPT ![c] = y], next_page |-> p.next_page,
         free_blocks |-> p.free_blocks, least_worn |-> p.least_worn,
         last_erase_time |-> p.last_erase_time]
  <2> DEFINE u == [p.data EXCEPT ![c] = x]
             v == [u EXCEPT ![c] = y]
  <2>1. /\ q = [data |-> q.data, next_page |-> q.next_page, free_blocks |-> q.free_blocks,
                least_worn |-> q.least_worn, last_erase_time |-> q.last_erase_time]
        /\ q.data = u /\ q.next_page = p.next_page /\ q.free_blocks = p.free_blocks
        /\ q.least_worn = p.least_worn /\ q.last_erase_time = p.last_erase_time
    BY <1>2
  <2>2. PutBlock(q, c, y) = WithData(q, v)
    BY <2>1 DEF WithData, PutBlock
  <2> HIDE DEF u, v
  <2>3. WithData(q, v) =
          [data |-> v, next_page |-> p.next_page, free_blocks |-> p.free_blocks,
           least_worn |-> p.least_worn, last_erase_time |-> p.last_erase_time]
    BY <2>1, PlaneData
  <2> QED BY <2>2, <2>3 DEF u, v
<1>5. /\ [[p.data EXCEPT ![c] = x] EXCEPT ![c] = y] = [p.data EXCEPT ![c] = y]
      /\ [p.data EXCEPT ![c] = x][c] = x /\ [p.data EXCEPT ![c] = y][c] = y
  BY <1>1
<1>6. q.data = [p.data EXCEPT ![c] = x]
  BY <1>2
<1>7. q.data[c] = x
  BY <1>5, <1>6
<1>8. PutBlock(q, c, y) = WithBlock(p, c, y)
  BY <1>3, <1>4, <1>5, Zenon
<1>9. WithBlock(p, c, y).data = [p.data EXCEPT ![c] = y]
  BY <1>3
<1>10. PutBlock(q, c, y).data[c] = y
  BY <1>5, <1>8, <1>9
<1> QED BY <1>7, <1>8, <1>10

\* A step of the loops that replaces the block they work on.
LEMMA MergingStep ==
  ASSUME NEW m, NEW p, Merging(m, p), NEW k, NEW y,
         k.before = m.before, k.block = m.block,
         LoopsOK(k, m.before.data[m.block], y)
  PROVE  Merging(k, [p EXCEPT !.data[m.block] = y])
<1> DEFINE q == [p EXCEPT !.data[m.block] = y]
<1>1. m.before \in Plane /\ m.block \in BlockIndex
  BY DEF Merging, LoopsOK, Locals
<1>2. p = [m.before EXCEPT !.data = [@ EXCEPT ![m.block] = p.data[m.block]]]
  BY DEF Merging
<1>3. q = [m.before EXCEPT !.data = [@ EXCEPT ![m.block] = y]] /\ q.data[m.block] = y
  <2> DEFINE o == m.before
             c == m.block
             x == p.data[c]
  <2>1. o \in Plane /\ c \in BlockIndex /\ p = WithBlock(o, c, x)
    BY <1>1, <1>2 DEF WithBlock
  <2> HIDE DEF o, c, x
  <2>2. PutBlock(p, c, y) = WithBlock(o, c, y) /\ PutBlock(p, c, y).data[c] = y
    BY <2>1, ReplaceTwice
  <2> QED BY <2>2 DEF o, c, PutBlock, WithBlock
<1> HIDE DEF q
<1>4. Merging(k, q)
  BY <1>3 DEF Merging
<1> QED BY <1>4 DEF q

\* What the invariant says while a merge runs.
LEMMA InLoops ==
  ASSUME MInv, merge.pc # "idle"
  PROVE  /\ Merging(merge, plane) /\ ~halted /\ last \in Calls
         /\ merge.block \in BlockIndex /\ Sound(merge.before.data[merge.block])
         /\ merge.before \in Plane /\ merge \in Locals
         /\ LoopsOK(merge, merge.before.data[merge.block], plane.data[merge.block])
<1>1. Merging(merge, plane) /\ ~halted /\ last \in Calls
  BY DEF MInv, idle
<1> QED BY <1>1 DEF Merging, LoopsOK, Locals, SoundPlane

\* ... and what it says between merges.
LEMMA OutOfLoops == ASSUME MInv, merge.pc = "idle" PROVE IInv /\ merge = idle(0)
BY DEF MInv

\* The end of a merge is the step plane_merge of the plane it began with.
LEMMA MergeEnds ==
  ASSUME MInv, MergeEnd
  PROVE  /\ plane' = plane_merge(merge.before, merge.block)
         /\ last' = call("merge", merge.block, plane_merge_ret(merge.before, merge.block))
         /\ merge.block \in BlockIndex /\ halted' = FALSE
         /\ SoundPlane(merge.before) /\ KnowsSpace(merge.before)
<1> DEFINE b == merge.before.data[merge.block]
<1>1. merge.pc = "read" /\ ~ more_to_read /\ plane' = refresh_if_full(plane)
      /\ last' = call("merge", merge.block,
                      IF merge.errors = 0 THEN "SUCCESS" ELSE "FAILURE")
      /\ halted' = halted
  BY DEF MergeEnd
<1>2. /\ Merging(merge, plane) /\ ~halted /\ merge.block \in BlockIndex /\ Sound(b)
      /\ LoopsOK(merge, b, plane.data[merge.block]) /\ halted \in BOOLEAN
  BY <1>1, InLoops DEF MInv
<1>3. /\ plane.data[merge.block] = merged(b)
      /\ (IF merge.errors = 0 THEN "SUCCESS" ELSE "FAILURE") = merged_ret(b)
  <2> HIDE DEF b
  <2> QED BY <1>1, <1>2, LoopsEnd DEF more_to_read
<1>4. plane = [merge.before EXCEPT !.data = [@ EXCEPT ![merge.block] = merged(b)]]
  BY <1>2, <1>3 DEF Merging
<1>5. merge_fits(b)
  BY <1>2 DEF LoopsOK
<1>6. plane' = plane_merge(merge.before, merge.block)
  BY <1>1, <1>4, <1>5 DEF plane_merge
<1> QED BY <1>1, <1>2, <1>3, <1>5, <1>6 DEF plane_merge_ret, Merging

\* No merge runs at first.
LEMMA MInitMInv == MInit => MInv
BY InitIInv DEF MInit, MInv, IInv

\* The merge's loops and the other calls preserve the invariant.
LEMMA MNextMInv == MInv /\ [MNext]_mvars => MInv'
<1> SUFFICES ASSUME MInv, [MNext]_mvars PROVE MInv'
  OBVIOUS
<1> DEFINE c   == merge.block
           b   == merge.before.data[c]
           blk == plane.data[c]
<1>0. last \in Calls /\ halted \in BOOLEAN
  BY DEF MInv
<1>1. ASSUME NEW d \in BlockIndex, MergeStart(d)
      PROVE  MInv'
  <2>1. merge.pc = "idle" /\ ~halted /\ plane' = plane /\ halted' = halted
    BY <1>1 DEF MergeStart
  <2>2. IInv /\ SoundPlane(plane) /\ KnowsSpace(plane) /\ merge = idle(0)
    BY <2>1, OutOfLoops DEF IInv
  <2>3. CASE valid_count(plane.data[d]) > empty_count(plane.data[d])
    <3>1. last' = call("merge", d, "FAILURE") /\ merge' = merge
      BY <1>1, <2>3 DEF MergeStart
    <3>2. last' \in Calls
      BY <3>1 DEF call, Calls, status
    <3> QED BY <1>0, <2>1, <2>2, <3>1, <3>2 DEF MInv, IInv
  <2>4. CASE ~ (valid_count(plane.data[d]) > empty_count(plane.data[d]))
    <3> DEFINE k == [idle(d) EXCEPT !.pc = "read", !.before = plane,
                                    !.merge_count = valid_count(plane.data[d])]
    <3>1. merge' = k /\ last' = last
      BY <1>1, <2>4 DEF MergeStart
    <3>2. merge_fits(plane.data[d])
      <4>1. /\ Cardinality(PagesIn(plane.data[d], "VALID")) \in Nat
            /\ Cardinality(PagesIn(plane.data[d], "EMPTY")) \in Nat
        BY PagesFinite DEF PagesIn
      <4> QED BY <2>4, <4>1 DEF merge_fits, valid_count, empty_count
    <3>3. LoopsOK(k, plane.data[d], plane.data[d]) /\ k.block = d /\ k.before = plane
          /\ k.pc = "read"
      BY <2>2, <3>2, LoopsStart
    <3> HIDE DEF k
    <3>4. plane = [plane EXCEPT !.data = [@ EXCEPT ![d] = plane.data[d]]]
      BY <2>2 DEF SoundPlane, Plane
    <3>5. Merging(k, plane)
      BY <2>2, <3>3, <3>4 DEF Merging
    <3> QED BY <1>0, <2>1, <3>1, <3>3, <3>5 DEF MInv
  <2> QED BY <2>3, <2>4
<1>2. CASE MergeRead
  <2>1. merge.pc = "read" /\ merge.read_page < SSD_BLOCK_SIZE /\ last' = last
        /\ halted' = halted
    BY <1>2 DEF MergeRead, more_to_read
  <2>2. /\ Merging(merge, plane) /\ ~halted /\ Sound(b) /\ LoopsOK(merge, b, blk)
        /\ merge \in Locals
    BY <2>1, InLoops
  <2>3. CASE blk.data[merge.read_page] = "VALID"
    <3> DEFINE k == [merge EXCEPT !.pc = "write",
                       !.errors = IF page_readable(blk, event_page) THEN @ ELSE @ + 1]
               y == block_invalidate_page(blk, merge.read_page)
    <3>1. merge' = k /\ plane' = [plane EXCEPT !.data[c] = y]
      BY <1>2, <2>3 DEF MergeRead
    <3>2. LoopsOK(k, b, y)
      <4> HIDE DEF b, blk
      <4> QED BY <2>1, <2>2, <2>3, LoopReads
    <3>3. k.before = merge.before /\ k.block = c /\ k.pc = "write"
      BY <2>2 DEF Locals
    <3> HIDE DEF k, y
    <3>4. Merging(k, plane')
      BY <2>2, <3>1, <3>2, <3>3, MergingStep
    <3> QED BY <1>0, <2>1, <2>2, <3>1, <3>3, <3>4 DEF MInv
  <2>4. CASE blk.data[merge.read_page] # "VALID"
    <3> DEFINE k == [merge EXCEPT !.read_page = @ + 1]
    <3>1. merge' = k /\ plane' = plane
      BY <1>2, <2>4 DEF MergeRead
    <3>2. LoopsOK(k, b, blk)
      <4> HIDE DEF b, blk
      <4> QED BY <2>1, <2>2, <2>4, LoopSkips
    <3>3. k.before = merge.before /\ k.block = c /\ k.pc = "read"
      BY <2>1, <2>2 DEF Locals
    <3> HIDE DEF k
    <3>4. Merging(k, plane)
      BY <2>2, <3>2, <3>3 DEF Merging
    <3> QED BY <1>0, <2>1, <2>2, <3>1, <3>3, <3>4 DEF MInv
  <2> QED BY <2>3, <2>4
<1>3. CASE MergeWrite
  <2>1. merge.pc = "write" /\ merge.write_page < SSD_BLOCK_SIZE /\ last' = last
        /\ halted' = halted
    BY <1>3 DEF MergeWrite
  <2>2. /\ Merging(merge, plane) /\ ~halted /\ Sound(b) /\ LoopsOK(merge, b, blk)
        /\ merge \in Locals
    BY <2>1, InLoops
  <2>3. CASE blk.data[merge.write_page] = "EMPTY"
    <3> DEFINE k == written(merge, blk)
               y == block_write(blk, event_page)
    <3>1. merge' = k /\ plane' = [plane EXCEPT !.data[c] = y]
      BY <1>3, <2>3 DEF MergeWrite
    <3>2. LoopsOK(k, b, y)
      <4> HIDE DEF b, blk
      <4> QED BY <2>1, <2>2, LoopWrites
    <3>3. k.before = merge.before /\ k.block = c /\ k.pc = "read"
      BY <2>2 DEF Locals, written
    <3> HIDE DEF k, y
    <3>4. Merging(k, plane')
      BY <2>2, <3>1, <3>2, <3>3, MergingStep
    <3> QED BY <1>0, <2>1, <2>2, <3>1, <3>3, <3>4 DEF MInv
  <2>4. CASE blk.data[merge.write_page] # "EMPTY"
    <3> DEFINE k == [merge EXCEPT !.write_page = @ + 1]
    <3>1. merge' = k /\ plane' = plane
      BY <1>3, <2>4 DEF MergeWrite
    <3>2. LoopsOK(k, b, blk)
      <4> HIDE DEF b, blk
      <4> QED BY <2>1, <2>2, <2>4, LoopPasses
    <3>3. k.before = merge.before /\ k.block = c /\ k.pc = "write"
      BY <2>1, <2>2 DEF Locals
    <3> HIDE DEF k
    <3>4. Merging(k, plane)
      BY <2>2, <3>2, <3>3 DEF Merging
    <3> QED BY <1>0, <2>1, <2>2, <3>1, <3>3, <3>4 DEF MInv
  <2> QED BY <2>3, <2>4
<1>4. CASE MergeEnd
  <2>1. /\ plane' = plane_merge(merge.before, c)
        /\ last' = call("merge", c, plane_merge_ret(merge.before, c))
        /\ c \in BlockIndex /\ halted' = FALSE
        /\ SoundPlane(merge.before) /\ KnowsSpace(merge.before)
    BY <1>4, MergeEnds
  <2>2. SoundPlane(plane') /\ KnowsSpace(plane')
    BY <2>1, PlaneMergeSound
  <2>3. last' \in Calls
    BY <2>1 DEF call, Calls, plane_merge_ret, merged_ret, status
  <2>4. merge' = idle(0)
    BY <1>4 DEF MergeEnd
  <2> QED BY <2>1, <2>2, <2>3, <2>4 DEF MInv, IInv
<1>5. CASE OtherCall
  <2>1. merge.pc = "idle" /\ merge' = merge /\ Next
    BY <1>5 DEF OtherCall, Next
  <2>2. IInv /\ merge = idle(0)
    BY <2>1, OutOfLoops
  <2>3. IInv'
    BY <2>1, <2>2, NextIInv
  <2> QED BY <2>1, <2>2, <2>3 DEF MInv, IInv
<1>6. CASE UNCHANGED mvars
  BY <1>6 DEF mvars, MInv, IInv
<1> QED BY <1>1, <1>2, <1>3, <1>4, <1>5, <1>6 DEF MNext

\* The invariant of the merge holds in every state, whatever loops are under way.
THEOREM MergeInvariance == MSpec => []MInv
BY MInitMInv, MNextMInv, PTL DEF MSpec

\* Whatever pages are VALID, the inner loop of ssd_plane_merge finds an EMPTY page at
\* or after write_page, and neither the pages moved nor the errors exceed their bounds.
THEOREM MergeLoopsAreBounded == MSpec => []MergeLoopsBounded
<1>1. MInv => MergeLoopsBounded
  <2> SUFFICES ASSUME MInv PROVE MergeLoopsBounded
    OBVIOUS
  <2>1. CASE merge.pc = "idle"
    <3>1. merge = idle(0)
      BY <2>1, OutOfLoops
    <3> QED BY <3>1 DEF idle, MergeLoopsBounded
  <2>2. CASE merge.pc # "idle"
    <3>1. /\ Sound(merge.before.data[merge.block])
          /\ LoopsOK(merge, merge.before.data[merge.block], plane.data[merge.block])
      BY <2>2, InLoops
    <3> QED BY <3>1, LoopsBounded DEF MergeLoopsBounded
  <2> QED BY <2>1, <2>2
<1> QED BY <1>1, MergeInvariance, PTL
-------------------------------------------------------------------------------
\* The operators of Atomic, an instance of PlaneSpec, are those of this module.
LEMMA SameOperators ==
  /\ Atomic!BlockIndex = BlockIndex /\ Atomic!PageIndex = PageIndex
  /\ Atomic!plane_init = plane_init
  /\ \A op, b, ret : Atomic!call(op, b, ret) = call(op, b, ret)
  /\ \A p, b, i : /\ Atomic!plane_read_ret(p, b, i) = plane_read_ret(p, b, i)
                  /\ Atomic!plane_write_ret(p, b, i) = plane_write_ret(p, b, i)
                  /\ Atomic!plane_write(p, b, i) = plane_write(p, b, i)
  /\ \A p, b, t : Atomic!plane_erase(p, b, t) = plane_erase(p, b, t)
  /\ \A p, b : /\ Atomic!plane_merge(p, b) = plane_merge(p, b)
               /\ Atomic!plane_merge_ret(p, b) = plane_merge_ret(p, b)
<1>1. Atomic!BlockIndex = BlockIndex /\ Atomic!PageIndex = PageIndex
  BY DEF BlockIndex, PageIndex, Atomic!BlockIndex, Atomic!PageIndex
<1>2. Atomic!plane_init = plane_init
  BY DEF plane_init, block_init, PageIndex, BlockIndex, PAGE, Atomic!plane_init,
         Atomic!block_init, Atomic!PageIndex, Atomic!BlockIndex, Atomic!PAGE
<1>3. \A op, b, ret : Atomic!call(op, b, ret) = call(op, b, ret)
  BY DEF call, Atomic!call
<1>4. ASSUME NEW p, NEW b, NEW i
      PROVE  /\ Atomic!plane_read_ret(p, b, i) = plane_read_ret(p, b, i)
             /\ Atomic!plane_write_ret(p, b, i) = plane_write_ret(p, b, i)
  BY DEF plane_read_ret, plane_write_ret, page_readable, page_writable,
         Atomic!plane_read_ret, Atomic!plane_write_ret, Atomic!page_readable,
         Atomic!page_writable
<1>5. ASSUME NEW p, NEW b, NEW i
      PROVE  Atomic!plane_write(p, b, i) = plane_write(p, b, i)
  BY DEF PagesIn, PageIndex, BlockIndex, has_next_page, next_page_of, PLANE, BLOCK, PAGE,
         candidates, usable, first_usable, get_next_page, refresh_if_full,
         plane_write, block_write, page_writable, Atomic!PagesIn, Atomic!PageIndex,
         Atomic!BlockIndex, Atomic!has_next_page, Atomic!next_page_of, Atomic!PLANE,
         Atomic!BLOCK, Atomic!PAGE, Atomic!candidates, Atomic!usable,
         Atomic!first_usable, Atomic!get_next_page, Atomic!refresh_if_full,
         Atomic!plane_write, Atomic!block_write, Atomic!page_writable
<1>6. ASSUME NEW p, NEW b, NEW t
      PROVE  Atomic!plane_erase(p, b, t) = plane_erase(p, b, t)
  BY DEF PagesIn, PageIndex, BlockIndex, has_next_page, next_page_of, PLANE, BLOCK, PAGE,
         candidates, usable, first_usable, get_next_page, refresh_if_full,
         plane_erase, block_erase, block_init, update_wear_stats, Atomic!PagesIn,
         Atomic!PageIndex, Atomic!BlockIndex, Atomic!has_next_page,
         Atomic!next_page_of, Atomic!PLANE, Atomic!BLOCK, Atomic!PAGE,
         Atomic!candidates, Atomic!usable, Atomic!first_usable,
         Atomic!get_next_page, Atomic!refresh_if_full, Atomic!plane_erase,
         Atomic!block_erase, Atomic!block_init, Atomic!update_wear_stats
<1>7. ASSUME NEW p, NEW b
      PROVE  Atomic!plane_merge(p, b) = plane_merge(p, b)
  BY DEF PagesIn, PageIndex, BlockIndex, has_next_page, next_page_of, PLANE, BLOCK, PAGE,
         candidates, usable, first_usable, get_next_page, refresh_if_full,
         Cardinality, merge_fits, merge_lands, merged, plane_merge, Atomic!PagesIn,
         Atomic!PageIndex, Atomic!BlockIndex, Atomic!has_next_page,
         Atomic!next_page_of, Atomic!PLANE, Atomic!BLOCK, Atomic!PAGE,
         Atomic!candidates, Atomic!usable, Atomic!first_usable,
         Atomic!get_next_page, Atomic!refresh_if_full, Atomic!Cardinality,
         Atomic!merge_fits, Atomic!merge_lands, Atomic!merged, Atomic!plane_merge
<1>8. ASSUME NEW p, NEW b
      PROVE  Atomic!plane_merge_ret(p, b) = plane_merge_ret(p, b)
  BY DEF Cardinality, PagesIn, PageIndex, merge_fits, merge_lands, merged, merged_ret,
         plane_merge_ret, Atomic!Cardinality, Atomic!PagesIn, Atomic!PageIndex,
         Atomic!merge_fits, Atomic!merge_lands, Atomic!merged, Atomic!merged_ret,
         Atomic!plane_merge_ret
<1> QED BY <1>1, <1>2, <1>3, <1>4, <1>5, <1>6, <1>7, <1>8

\* What the caller of a merge sees of the plane: the plane it called it on, until the
\* merge returns.
seen == IF merge.pc = "idle" THEN plane ELSE merge.before

\* A step of the loops is invisible; the start of a merge that gives up and the end of
\* one that does not are PlaneSpec's merge.
LEMMA MergeStepsImplement ==
  MInv /\ [MNext]_mvars => [Atomic!Next]_(Atomic!vars)
<1> SUFFICES ASSUME MInv, [MNext]_mvars PROVE [Atomic!Next]_(Atomic!vars)
  OBVIOUS
<1> USE SameOperators
<1>0. seen' = seen /\ last' = last /\ halted' = halted => [Atomic!Next]_(Atomic!vars)
  BY DEF seen, Atomic!vars
<1>1. ASSUME NEW d \in BlockIndex, MergeStart(d)
      PROVE  [Atomic!Next]_(Atomic!vars)
  <2>1. merge.pc = "idle" /\ ~halted /\ plane' = plane /\ halted' = halted
    BY <1>1 DEF MergeStart
  <2>2. CASE valid_count(plane.data[d]) > empty_count(plane.data[d])
    <3>1. last' = call("merge", d, "FAILURE") /\ merge' = merge
      BY <1>1, <2>2 DEF MergeStart
    <3>2. ~ merge_fits(plane.data[d])
      <4>1. /\ Cardinality(PagesIn(plane.data[d], "VALID")) \in Nat
            /\ Cardinality(PagesIn(plane.data[d], "EMPTY")) \in Nat
        BY PagesFinite DEF PagesIn
      <4> QED BY <2>2, <4>1 DEF merge_fits, valid_count, empty_count
    <3>3. plane' = plane_merge(plane, d) /\ plane_merge_ret(plane, d) = "FAILURE"
      BY <2>1, <3>2 DEF plane_merge, plane_merge_ret
    <3>4. Atomic!MergeBlock(d)
      BY <2>1, <3>1, <3>3 DEF Atomic!MergeBlock
    <3> QED BY <3>4 DEF Atomic!Next
  <2>3. CASE ~ (valid_count(plane.data[d]) > empty_count(plane.data[d]))
    <3>1. merge'.pc = "read" /\ merge'.before = plane /\ last' = last
      BY <1>1, <2>3 DEF MergeStart, idle
    <3> QED BY <1>0, <2>1, <3>1 DEF seen
  <2> QED BY <2>2, <2>3
<1>2. CASE MergeRead \/ MergeWrite
  <2>1. /\ merge.pc # "idle" /\ last' = last /\ halted' = halted
    BY <1>2 DEF MergeRead, MergeWrite
  <2>2. merge \in Locals
    BY <2>1, InLoops
  <2>3. merge'.pc # "idle" /\ merge'.before = merge.before
    BY <1>2, <2>2 DEF MergeRead, MergeWrite, written, Locals
  <2> QED BY <1>0, <2>1, <2>3 DEF seen
<1>3. CASE MergeEnd
  <2>1. /\ plane' = plane_merge(merge.before, merge.block)
        /\ last' = call("merge", merge.block, plane_merge_ret(merge.before, merge.block))
        /\ merge.block \in BlockIndex /\ halted' = FALSE
    BY <1>3, MergeEnds
  <2>2. merge.pc # "idle" /\ merge'.pc = "idle" /\ ~halted /\ halted' = halted
    BY <1>3, InLoops DEF MergeEnd, idle
  <2>3. Atomic!MergeBlock(merge.block)
    BY <2>1, <2>2 DEF Atomic!MergeBlock
  <2> QED BY <2>1, <2>3 DEF Atomic!Next
<1>4. CASE OtherCall
  <2>1. merge.pc = "idle" /\ merge'.pc = "idle"
    BY <1>4 DEF OtherCall
  <2>2. ASSUME NEW b \in BlockIndex, NEW i \in PageIndex, ReadPage(b, i)
        PROVE  Atomic!ReadPage(b, i)
    BY <2>1, <2>2 DEF ReadPage, Atomic!ReadPage
  <2>3. ASSUME NEW b \in BlockIndex, NEW i \in PageIndex, WritePage(b, i)
        PROVE  Atomic!WritePage(b, i)
    BY <2>1, <2>3 DEF WritePage, Atomic!WritePage
  <2>4. ASSUME NEW b \in BlockIndex, NEW t \in EndTimes, EraseBlock(b, t)
        PROVE  Atomic!EraseBlock(b, t)
    BY <2>1, <2>4 DEF EraseBlock, Atomic!EraseBlock
  <2>5. ASSUME NEW b \in BlockIndex, NEW c \in BlockIndex, MergeInto(b, c)
        PROVE  Atomic!MergeInto(b, c)
    BY <2>1, <2>5 DEF MergeInto, Atomic!MergeInto
  <2> QED BY <1>4, <2>2, <2>3, <2>4, <2>5 DEF OtherCall, Atomic!Next
<1>5. CASE UNCHANGED mvars
  BY <1>0, <1>5 DEF mvars, seen
<1> QED BY <1>1, <1>2, <1>3, <1>4, <1>5 DEF MNext

\* ssd_plane_merge, run loop by loop, does to the plane and returns to the caller what
\* PlaneSpec's merge does in one step, and the other calls do what they do there.
THEOREM MergeIsAtomic == MSpec => ImplementsPlaneSpec
<1>1. MInit => Atomic!Init
  BY SameOperators DEF MInit, Init, Atomic!Init, idle
<1> QED BY <1>1, MergeStepsImplement, MergeInvariance, PTL
    DEF MSpec, ImplementsPlaneSpec, Atomic!Spec
===============================================================================
