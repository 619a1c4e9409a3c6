------------------------------ MODULE NumberLemmas ------------------------------
(***************************************************************************)
(* Facts about natural numbers that the proofs share: the least and the   *)
(* greatest element of a set, induction in the form of a set of numbers,  *)
(* the division by which page numbers, sectors and addresses are taken    *)
(* apart, functions computed step by step, and the size of a bio as the   *)
(* sum of its segments.                                                   *)
(***************************************************************************)
EXTENDS Integers, Segments, WellFoundedInduction, SequenceTheorems, TLAPS

\* A set of numbers that is not empty has a least one.
LEMMA LeastNat ==
  ASSUME NEW T \in SUBSET Nat, T # {}
  PROVE  \E x \in T : \A y \in T : x <= y
<1> DEFINE R == OpToRel(<, Nat)
<1>1. IsWellFoundedOn(R, Nat)
  BY NatLessThanWellFounded
<1>2. \A x, y \in Nat : x < y => <<x, y>> \in R
  BY DEF OpToRel
<1> HIDE DEF R
<1>3. PICK x \in T : \A y \in T : ~ (<<y, x>> \in R)
  BY <1>1, WFMin
<1>4. ASSUME NEW y \in T PROVE x <= y
  <2>1. x \in Nat /\ y \in Nat
    OBVIOUS
  <2>2. ~ (y < x)
    BY <1>2, <1>3, <2>1
  <2> QED BY <2>1, <2>2
<1> QED BY <1>4

\* A set of numbers that is not empty and has a bound has a greatest one.
LEMMA GreatestNat ==
  ASSUME NEW T \in SUBSET Nat, T # {}, NEW u \in Nat, \A x \in T : x <= u
  PROVE  \E x \in T : \A y \in T : y <= x
<1> DEFINE Bounds == {b \in Nat : \A x \in T : x <= b}
<1>1. Bounds # {} /\ Bounds \in SUBSET Nat
  OBVIOUS
<1>2. PICK b \in Bounds : \A c \in Bounds : b <= c
  <2> HIDE DEF Bounds
  <2> QED BY <1>1, LeastNat
<1>3. b \in T
  <2> SUFFICES ASSUME b \notin T PROVE FALSE
    OBVIOUS
  <2>1. b \in Nat /\ \A x \in T : x < b
    OBVIOUS
  <2>2. PICK x \in T : TRUE
    OBVIOUS
  <2> HIDE DEF Bounds
  <2>3. 0 < b /\ b - 1 \in Nat
    BY <2>1, <2>2
  <2>4. \A y \in T : y <= b - 1
    BY <2>1
  <2>5. b - 1 \in Bounds
    BY <2>3, <2>4 DEF Bounds
  <2>6. b <= b - 1
    BY <1>2, <2>5
  <2> QED BY <2>1, <2>6
<1> QED BY <1>3

\* Induction, for a property given as the set of the numbers that have it.
LEMMA InductionOnSet ==
  ASSUME NEW S, 0 \in S, \A n \in Nat : n \in S => n + 1 \in S
  PROVE  Nat \subseteq S
<1> SUFFICES ASSUME Nat \ S # {} PROVE FALSE
  OBVIOUS
<1>1. PICK m \in Nat \ S : \A y \in Nat \ S : m <= y
  BY LeastNat
<1>2. m # 0 /\ m - 1 \in Nat /\ m - 1 + 1 = m
  OBVIOUS
<1>3. m - 1 \in S
  BY <1>1, <1>2
<1> QED BY <1>2, <1>3

\* A quotient and its remainder.
LEMMA Division ==
  ASSUME NEW a \in Nat, NEW b \in Nat \ {0}
  PROVE  /\ a \div b \in Nat /\ a % b \in 0 .. (b - 1)
         /\ a = b * (a \div b) + (a % b)
  OBVIOUS

\* The multiple of b that a is in reach of.
LEMMA QuotientBounds ==
  ASSUME NEW a \in Nat, NEW b \in Nat \ {0}
  PROVE  a \div b \in Nat /\ b * (a \div b) <= a /\ a < b * (a \div b) + b
<1> DEFINE q == a \div b
           m == a % b
<1>1. q \in Nat /\ m \in 0 .. (b - 1) /\ a = b * q + m
  BY Division
<1> HIDE DEF q, m
<1>2. b * q \in Nat
  BY <1>1
<1>3. b * q <= a /\ a < b * q + b
  BY <1>1, <1>2
<1> QED BY <1>1, <1>3 DEF q

\* No other quotient and remainder give the same number.
LEMMA DivisionUnique ==
  ASSUME NEW b \in Nat \ {0}, NEW q \in Int, NEW r \in 0 .. (b - 1)
  PROVE  (b * q + r) \div b = q /\ (b * q + r) % b = r
<1> DEFINE a == b * q + r
<1>1. a \in Int /\ a = b * q + r
  OBVIOUS
<1> HIDE DEF a
<1>2. a \div b = q /\ a % b = r
  BY <1>1
<1> QED BY <1>2 DEF a

\* A quotient is below c exactly if the number is below c times the divisor.
LEMMA QuotientBelow ==
  ASSUME NEW a \in Nat, NEW b \in Nat \ {0}, NEW c \in Nat
  PROVE  a \div b < c <=> a < c * b
  OBVIOUS
-------------------------------------------------------------------------------
\* f is given by its first value and by each value from the one before.
Iterates(N, base, step, f) ==
  f = [n \in 0 .. N |-> IF n = 0 THEN base ELSE step[<<n, f[n - 1]>>]]

\* The n-th step leads from the set V[n - 1] to the set V[n].
Leads(N, V, step) == \A n \in 1 .. N : \A a \in V[n - 1] : step[<<n, a>>] \in V[n]

\* Such a function exists if its n-th value stays in V[n].
LEMMA Iteration ==
  ASSUME NEW N \in Nat, NEW V, NEW base \in V[0], NEW step, Leads(N, V, step)
  PROVE  \E f : Iterates(N, base, step, f) /\ \A n \in 0 .. N : f[n] \in V[n]
<1> DEFINE Good(m, f) == Iterates(m, base, step, f) /\ \A n \in 0 .. m : f[n] \in V[n]
           S == {m \in Nat : m <= N => \E f : Good(m, f)}
<1>0. \A n \in 1 .. N : \A a \in V[n - 1] : step[<<n, a>>] \in V[n]
  BY DEF Leads
<1> USE DEF Iterates
<1>1. 0 \in S
  <2> DEFINE f == [n \in 0 .. 0 |-> base]
  <2>1. Good(0, f)
    OBVIOUS
  <2> QED BY <2>1
<1>2. ASSUME NEW m \in Nat, m \in S PROVE m + 1 \in S
  <2> SUFFICES ASSUME m + 1 <= N PROVE \E g : Good(m + 1, g)
    OBVIOUS
  <2>1. PICK f : Good(m, f)
    BY <1>2
  <2> DEFINE g == [n \in 0 .. (m + 1) |-> IF n <= m THEN f[n] ELSE step[<<m + 1, f[m]>>]]
  <2>2. m \in 0 .. m /\ f[m] \in V[m] /\ m + 1 \in 1 .. N /\ m + 1 - 1 = m
    BY <2>1
  <2>3. step[<<m + 1, f[m]>>] \in V[m + 1]
    BY <1>0, <2>2
  <2>4. ASSUME NEW n \in 0 .. (m + 1)
        PROVE  /\ g[n] = IF n = 0 THEN base ELSE step[<<n, g[n - 1]>>]
               /\ g[n] \in V[n]
    <3>1. CASE n = 0
      BY <2>1, <3>1
    <3>2. CASE n # 0 /\ n <= m
      <4>1. n \in 0 .. m /\ n - 1 \in 0 .. (m + 1) /\ n - 1 <= m
        BY <3>2
      <4>2. f[n] = step[<<n, f[n - 1]>>] /\ f[n] \in V[n]
        BY <2>1, <3>2, <4>1
      <4>3. g[n] = f[n] /\ g[n - 1] = f[n - 1]
        BY <3>2, <4>1
      <4> HIDE DEF g
      <4> QED BY <3>2, <4>2, <4>3
    <3>3. CASE n = m + 1
      <4>1. m \in 0 .. (m + 1) /\ g[m] = f[m] /\ n - 1 = m /\ n # 0
        BY <3>3
      <4>2. g[n] = step[<<m + 1, f[m]>>]
        BY <3>3
      <4> HIDE DEF g
      <4> QED BY <2>3, <3>3, <4>1, <4>2
    <3> QED BY <3>1, <3>2, <3>3
  <2>5. Good(m + 1, g)
    BY <2>4
  <2> QED BY <2>5
<1>3. N \in S
  <2> HIDE DEF S
  <2> QED BY <1>1, <1>2, InductionOnSet
<1> QED BY <1>3

-------------------------------------------------------------------------------
\* The sums over the first segments, each from the one before, exist.
LEMMA PartialSums ==
  ASSUME NEW lens \in Seq(Nat)
  PROVE  \E f \in [0 .. Len(lens) -> Nat] :
           /\ f[Len(lens)] = bi_size(lens)
           /\ f = [k \in 0 .. Len(lens) |-> IF k = 0 THEN 0 ELSE f[k - 1] + lens[k]]
<1> DEFINE L == Len(lens)
           Sums(n, f) == f = [k \in 0 .. n |-> IF k = 0 THEN 0 ELSE f[k - 1] + lens[k]]
           S == {n \in Nat : n <= L => \E f \in [0 .. n -> Nat] : Sums(n, f)}
<1>1. L \in Nat /\ \A k \in 1 .. L : lens[k] \in Nat
  OBVIOUS
<1>2. 0 \in S
  <2> DEFINE f == [k \in 0 .. 0 |-> 0]
  <2>1. f \in [0 .. 0 -> Nat] /\ Sums(0, f)
    OBVIOUS
  <2> QED BY <2>1
<1>3. ASSUME NEW n \in Nat, n \in S PROVE n + 1 \in S
  <2> HIDE DEF Sums, L
  <2> SUFFICES ASSUME n + 1 <= L PROVE \E g \in [0 .. (n + 1) -> Nat] : Sums(n + 1, g)
    OBVIOUS
  <2>0. n <= L
    BY <1>1
  <2>1. PICK f \in [0 .. n -> Nat] : Sums(n, f)
    BY <1>3, <2>0
  <2> USE DEF Sums
  <2> DEFINE g == [k \in 0 .. (n + 1) |-> IF k <= n THEN f[k] ELSE f[n] + lens[n + 1]]
  <2>2. lens[n + 1] \in Nat /\ f[n] \in Nat
    <3>1. n + 1 \in 1 .. L /\ n \in 0 .. n
      BY <1>1
    <3> QED BY <1>1, <3>1
  <2>3. g \in [0 .. (n + 1) -> Nat]
    BY <2>2
  <2>4. ASSUME NEW k \in 0 .. (n + 1)
        PROVE  g[k] = IF k = 0 THEN 0 ELSE g[k - 1] + lens[k]
    <3>1. CASE k = 0
      BY <2>1, <3>1
    <3>2. CASE k # 0 /\ k <= n
      <4>1. k \in 0 .. n /\ k - 1 \in 0 .. (n + 1) /\ k - 1 <= n
        BY <3>2
      <4>2. f[k] = f[k - 1] + lens[k]
        BY <2>1, <3>2, <4>1
      <4> QED BY <3>2, <4>1, <4>2
    <3>3. CASE k = n + 1
      BY <3>3
    <3> QED BY <3>1, <3>2, <3>3
  <2>5. Sums(n + 1, g)
    BY <2>4
  <2> QED BY <2>3, <2>5
<1> DEFINE sum == CHOOSE f : Sums(L, f)
<1>4. L \in S
  <2> HIDE DEF S
  <2> QED BY <1>1, <1>2, <1>3, InductionOnSet
<1>5. PICK f \in [0 .. L -> Nat] : Sums(L, f)
  BY <1>1, <1>4
<1>6. Sums(L, sum)
  <2> HIDE DEF Sums
  <2> QED BY <1>5
<1>7. sum = f
  <2> HIDE DEF sum
  <2> DEFINE T == {n \in Nat : n <= L => sum[n] = f[n]}
  <2>1. 0 \in T
    BY <1>1, <1>5, <1>6
  <2>2. ASSUME NEW n \in Nat, n \in T PROVE n + 1 \in T
    <3> SUFFICES ASSUME n + 1 <= L PROVE sum[n + 1] = f[n + 1]
      OBVIOUS
    <3>1. n + 1 \in 0 .. L /\ n + 1 # 0 /\ n + 1 - 1 = n /\ n <= L
      BY <1>1
    <3> QED BY <1>5, <1>6, <2>2, <3>1
  <2>3. Nat \subseteq T
    <3> HIDE DEF T
    <3> QED BY <2>1, <2>2, InductionOnSet
  <2>4. \A k \in 0 .. L : sum[k] = f[k]
    BY <1>1, <2>3
  <2>5. DOMAIN sum = 0 .. L /\ sum = [k \in 0 .. L |-> sum[k]]
    BY <1>6
  <2> QED BY <2>4, <2>5
<1>8. bi_size(lens) = sum[L]
  BY DEF bi_size
<1> HIDE DEF sum
<1> QED BY <1>5, <1>7, <1>8

\* A bio is its first segment and the rest.
LEMMA SizeOfSegments ==
  ASSUME NEW lens \in Seq(Nat)
  PROVE  /\ bi_size(lens) \in Nat
         /\ lens = <<>> => bi_size(lens) = 0
         /\ lens # <<>> => /\ bi_size(Tail(lens)) \in Nat
                           /\ bi_size(lens) = Head(lens) + bi_size(Tail(lens))
<1> DEFINE L == Len(lens)
<1>1. PICK f \in [0 .. L -> Nat] :
        f[L] = bi_size(lens) /\ f = [k \in 0 .. L |-> IF k = 0 THEN 0 ELSE f[k - 1] + lens[k]]
  BY PartialSums
<1>2. L \in Nat /\ L \in 0 .. L /\ f[0] = 0 /\ bi_size(lens) \in Nat
  BY <1>1
<1>5. /\ f[L] = bi_size(lens) /\ \A k \in 0 .. L : f[k] \in Nat
      /\ \A k \in 0 .. L : k # 0 => f[k] = f[k - 1] + lens[k]
  BY <1>1
<1>3. lens = <<>> => bi_size(lens) = 0
  BY <1>1, <1>2
<1>4. ASSUME lens # <<>>
      PROVE  /\ bi_size(Tail(lens)) \in Nat
             /\ bi_size(lens) = Head(lens) + bi_size(Tail(lens))
  <2> DEFINE rest == Tail(lens)
  <2>1. /\ rest \in Seq(Nat) /\ Len(rest) = L - 1 /\ L > 0 /\ Head(lens) = lens[1]
        /\ lens[1] \in Nat /\ \A k \in 1 .. (L - 1) : rest[k] = lens[k + 1] /\ rest[k] \in Nat
    BY <1>4
  <2> HIDE DEF rest
  <2>2. PICK g \in [0 .. (L - 1) -> Nat] :
          /\ g[L - 1] = bi_size(rest)
          /\ g = [k \in 0 .. (L - 1) |-> IF k = 0 THEN 0 ELSE g[k - 1] + rest[k]]
    BY <2>1, PartialSums
  <2>7. /\ \A k \in 0 .. (L - 1) : g[k] \in Nat
        /\ \A k \in 0 .. (L - 1) : k # 0 => g[k] = g[k - 1] + rest[k]
    BY <2>2
  <2>l. L \in Nat /\ L > 0
    BY <1>2, <2>1
  <2> HIDE DEF L
  <2> DEFINE T == {n \in Nat : n <= L - 1 => f[n + 1] = lens[1] + g[n]}
  <2>3. 0 \in T
    <3>1. g[0] = 0 /\ f[1] = f[0] + lens[1]
      BY <1>1, <1>2, <2>1, <2>2
    <3> QED BY <1>2, <2>1, <3>1
  <2>4. ASSUME NEW n \in Nat, n \in T PROVE n + 1 \in T
    <3> SUFFICES ASSUME n + 1 <= L - 1 PROVE f[n + 1 + 1] = lens[1] + g[n + 1]
      OBVIOUS
    <3>0. n <= L - 1
      BY <2>l
    <3>1. f[n + 1 + 1] = f[n + 1] + lens[n + 1 + 1]
      <4>1. n + 1 + 1 \in 0 .. L /\ n + 1 + 1 # 0 /\ n + 1 + 1 - 1 = n + 1
        BY <2>l
      <4> QED BY <1>5, <4>1
    <3>2. g[n + 1] = g[n] + rest[n + 1]
      <4>1. n + 1 \in 0 .. (L - 1) /\ n + 1 # 0 /\ n + 1 - 1 = n
        BY <1>2
      <4> QED BY <2>7, <4>1
    <3>3. f[n + 1] = lens[1] + g[n]
      BY <2>4, <3>0
    <3>4. rest[n + 1] = lens[n + 1 + 1] /\ rest[n + 1] \in Nat /\ g[n] \in Nat
      <4>1. n + 1 \in 1 .. (L - 1) /\ n \in 0 .. (L - 1)
        BY <2>l
      <4> QED BY <2>1, <2>2, <4>1
    <3> QED BY <2>1, <3>1, <3>2, <3>3, <3>4
  <2>5. L - 1 \in T
    <3> HIDE DEF T
    <3>1. L - 1 \in Nat
      BY <1>2, <2>1
    <3> QED BY <2>3, <2>4, <3>1, InductionOnSet
  <2>6. L - 1 + 1 = L /\ L - 1 \in 0 .. (L - 1)
    BY <1>2, <2>1
  <2>8. bi_size(rest) \in Nat /\ bi_size(lens) = lens[1] + bi_size(rest)
    BY <1>5, <2>2, <2>5, <2>6, <2>7
  <2> QED BY <2>1, <2>8 DEF rest
<1> QED BY <1>2, <1>3, <1>4

\* Of a number that is not zero.
LEMMA Positive ==
  ASSUME NEW x \in Nat \ {0} PROVE 0 < x /\ (x > 1 \/ x = 1)
  OBVIOUS

\* The first segment of a bio is all of it, or there are more behind it.
LEMMA FirstSegment ==
  ASSUME NEW lens \in Seq(Nat \ {0}), lens # <<>>
  PROVE  /\ Head(lens) \in Nat \ {0} /\ bi_size(lens) \in Nat /\ Head(lens) <= bi_size(lens)
         /\ Len(lens) = 1 => bi_size(lens) = Head(lens)
         /\ Len(lens) > 1 => /\ Tail(lens) \in Seq(Nat \ {0}) /\ Tail(lens) # <<>>
                             /\ bi_size(Tail(lens)) \in Nat
                             /\ bi_size(lens) = Head(lens) + bi_size(Tail(lens))
         /\ Len(lens) = 1 \/ Len(lens) > 1
<1> DEFINE rest == Tail(lens)
           h == Head(lens)
           z == bi_size(rest)
<1>1. /\ lens \in Seq(Nat) /\ rest \in Seq(Nat \ {0}) /\ rest \in Seq(Nat)
      /\ h \in Nat \ {0} /\ Len(rest) = Len(lens) - 1 /\ Len(lens) \in Nat
  OBVIOUS
<1>2. bi_size(lens) \in Nat /\ z \in Nat /\ bi_size(lens) = h + z
  BY <1>1, SizeOfSegments
<1>3. rest = <<>> => z = 0
  BY <1>1, SizeOfSegments
<1>4. Len(lens) \in Nat \ {0}
  BY EmptySeq
<1> HIDE DEF rest, h, z
<1>5. Len(rest) = 0 <=> rest = <<>>
  BY <1>1, EmptySeq
<1>6. /\ Len(lens) = 1 => Len(rest) = 0
      /\ Len(lens) > 1 => Len(rest) # 0
  BY <1>1, <1>4
<1>7. h <= h + z /\ h + 0 = h
  BY <1>1, <1>2
<1>8. Len(lens) = 1 \/ Len(lens) > 1
  BY <1>4, Positive
<1> QED BY <1>1, <1>2, <1>3, <1>5, <1>6, <1>7, <1>8, Zenon DEF rest, h, z
===============================================================================
