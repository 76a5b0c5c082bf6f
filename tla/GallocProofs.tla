---------------------------- MODULE GallocProofs ----------------------------
(***************************************************************************)
(* Proofs about Galloc, for any graphs, buffers, chunk sizes and bounds.   *)
(***************************************************************************)
EXTENDS Galloc, SequenceTheorems, FunctionTheorems, FiniteSetTheorems, WellFoundedInduction, TLAPS

-----------------------------------------------------------------------------
(* Sizes, and the sequences of the free blocks.                            *)

LEMMA MinOfNats ==
  ASSUME NEW S \in SUBSET Nat, S # {}
  PROVE  Min(S) \in S /\ \A x \in S : Min(S) <= x
<1>. DEFINE R == OpToRel(<, Nat)
<1>1. R = {ss \in Nat \X Nat : ss[1] < ss[2]}
  BY Zenon DEF OpToRel
<1>2. IsWellFoundedOn(R, Nat)
  BY NatLessThanWellFounded
<1>. HIDE DEF R
<1>3. PICK x \in S : \A y \in S : ~(<<y, x>> \in R)
  BY <1>2, WFMin
<1>4. \A y \in S : ~(y < x)
  BY <1>3, <1>1
<1>5. \A y \in S : x <= y
  BY <1>4
<1>. QED
  BY <1>5 DEF Min

LEMMA AlignedIsMonotone ==
  ASSUME TallocrAssumption, NEW x \in Nat, NEW y \in Nat, x <= y
  PROVE  aligned(x) \in Nat /\ x <= aligned(x) /\ aligned(x) <= aligned(y)
<1>. DEFINE A == Alignment
<1>1. A \in Nat \ {0}
  BY DEF TallocrAssumption
<1>2. ASSUME NEW z \in Nat
      PROVE  \E k \in Int : /\ aligned(z) = A * k
                            /\ z <= aligned(z) /\ aligned(z) < z + A /\ aligned(z) \in Nat
  <2>. DEFINE r == z % A  q == z \div A
  <2>1. r \in 0 .. A - 1 /\ q \in Int /\ z = A * q + r
    BY <1>1
  <2>2. CASE r = 0
    <3>1. A % A = 0
      BY <1>1
    <3>0. (A - r) % A = 0
      BY <1>1, <2>2, <3>1
    <3>2. aligned(z) = z
      BY <3>0 DEF aligned
    <3>3. A * q + 0 = A * q
      BY <2>1, <1>1
    <3>. QED
      BY <2>1, <2>2, <3>2, <3>3, <1>1
  <2>3. CASE r # 0
    <3>1. A - r \in 1 .. A - 1
      BY <1>1, <2>1, <2>3
    <3>2. (A - r) % A = A - r
      BY <3>1, <1>1
    <3>3. aligned(z) = z + (A - r)
      BY <3>2 DEF aligned
    <3>4. A * (q + 1) = A * q + A /\ q + 1 \in Int
      BY <2>1, <1>1
    <3>5. aligned(z) = A * (q + 1)
      BY <2>1, <3>3, <3>4, <1>1
    <3>6. z <= aligned(z) /\ aligned(z) < z + A /\ aligned(z) \in Nat
      BY <2>1, <2>3, <3>3, <1>1
    <3>. QED
      BY <3>4, <3>5, <3>6
  <2>. QED
    BY <2>2, <2>3
<1>3. PICK kx \in Int : /\ aligned(x) = A * kx
                        /\ x <= aligned(x) /\ aligned(x) < x + A /\ aligned(x) \in Nat
  BY <1>2
<1>4. PICK ky \in Int : /\ aligned(y) = A * ky
                        /\ y <= aligned(y) /\ aligned(y) < y + A /\ aligned(y) \in Nat
  BY <1>2
<1>5. SUFFICES ASSUME aligned(y) < aligned(x) PROVE FALSE
  BY <1>3, <1>4
<1>6. aligned(x) - aligned(y) \in 1 .. A - 1
  BY <1>1, <1>3, <1>4, <1>5
<1>7. aligned(x) - aligned(y) = A * (kx - ky)
  BY <1>1, <1>3, <1>4
<1>8. \A k \in Int : A * k \notin 1 .. A - 1
  <2>1. ASSUME NEW k \in Int, k >= 1 PROVE A * k >= A
    BY <1>1, <2>1
  <2>2. ASSUME NEW k \in Int, k <= 0 PROVE A * k <= 0
    BY <1>1, <2>2
  <2>. QED
    BY <1>1, <2>1, <2>2
<1>. QED
  BY <1>6, <1>7, <1>8

LEMMA RemoveAtIs ==
  ASSUME NEW S, NEW s \in Seq(S), NEW i \in 1 .. Len(s)
  PROVE  /\ RemoveAt(s, i) \in Seq(S)
         /\ Len(RemoveAt(s, i)) = Len(s) - 1
         /\ \A k \in 1 .. Len(s) - 1 : RemoveAt(s, i)[k] = IF k < i THEN s[k] ELSE s[k + 1]
<1>. DEFINE a == SubSeq(s, 1, i - 1)  b == SubSeq(s, i + 1, Len(s))
<1>1. /\ a \in Seq(S) /\ Len(a) = i - 1
      /\ \A k \in 1 .. i - 1 : a[k] = s[k]
  <2>1. /\ 1 \in Int /\ i - 1 \in Int /\ \A k \in 1 .. i - 1 : s[k] \in S
    OBVIOUS
  <2>. QED
    BY <2>1, SubSeqProperties
<1>2. /\ b \in Seq(S) /\ Len(b) = Len(s) - i
      /\ \A k \in 1 .. Len(s) - i : b[k] = s[i + k]
  <2>1. /\ i + 1 \in Int /\ Len(s) \in Int /\ \A k \in i + 1 .. Len(s) : s[k] \in S
    OBVIOUS
  <2>. QED
    BY <2>1, SubSeqProperties
<1>. HIDE DEF a, b
<1>3. /\ a \o b \in Seq(S) /\ Len(a \o b) = Len(s) - 1
      /\ \A k \in 1 .. Len(s) - 1 : (a \o b)[k] = IF k <= i - 1 THEN a[k] ELSE b[k - (i - 1)]
  <2>1. /\ a \o b \in Seq(S) /\ Len(a \o b) = Len(a) + Len(b)
        /\ \A k \in 1 .. Len(a) + Len(b) :
              (a \o b)[k] = IF k <= Len(a) THEN a[k] ELSE b[k - Len(a)]
    BY <1>1, <1>2, ConcatProperties
  <2>2. Len(a) + Len(b) = Len(s) - 1
    BY <1>1, <1>2
  <2>. QED
    BY <1>1, <2>1, <2>2
<1>4. ASSUME NEW k \in 1 .. Len(s) - 1
      PROVE  (a \o b)[k] = IF k < i THEN s[k] ELSE s[k + 1]
  <2>1. CASE k < i
    <3>1. k \in 1 .. i - 1
      BY <2>1
    <3>. QED
      BY <2>1, <3>1, <1>1, <1>3
  <2>2. CASE ~(k < i)
    <3>1. k - (i - 1) \in 1 .. Len(s) - i
      BY <2>2
    <3>2. b[k - (i - 1)] = s[i + (k - (i - 1))] /\ i + (k - (i - 1)) = k + 1
      BY <3>1, <1>2
    <3>. QED
      BY <2>2, <3>2, <1>3
  <2>. QED
    BY <2>1, <2>2
<1>. QED
  BY <1>3, <1>4 DEF RemoveAt, a, b

LEMMA InsertAtIs ==
  ASSUME NEW S, NEW s \in Seq(S), NEW i \in 1 .. Len(s) + 1, NEW e \in S
  PROVE  /\ InsertAt(s, i, e) \in Seq(S)
         /\ Len(InsertAt(s, i, e)) = Len(s) + 1
         /\ \A k \in 1 .. Len(s) + 1 :
               InsertAt(s, i, e)[k] = IF k < i THEN s[k] ELSE IF k = i THEN e ELSE s[k - 1]
<1>. DEFINE a == SubSeq(s, 1, i - 1)  b == SubSeq(s, i, Len(s))  c == a \o <<e>>
<1>1. /\ a \in Seq(S) /\ Len(a) = i - 1
      /\ \A k \in 1 .. i - 1 : a[k] = s[k]
  <2>1. /\ 1 \in Int /\ i - 1 \in Int /\ \A k \in 1 .. i - 1 : s[k] \in S
    OBVIOUS
  <2>. QED
    BY <2>1, SubSeqProperties
<1>2. /\ b \in Seq(S) /\ Len(b) = Len(s) - i + 1
      /\ \A k \in 1 .. Len(s) - i + 1 : b[k] = s[i + k - 1]
  <2>1. /\ i \in Int /\ Len(s) \in Int /\ \A k \in i .. Len(s) : s[k] \in S
    OBVIOUS
  <2>. QED
    BY <2>1, SubSeqProperties
<1>3. <<e>> \in Seq(S) /\ Len(<<e>>) = 1 /\ <<e>>[1] = e
  OBVIOUS
<1>. HIDE DEF a, b
<1>4. /\ c \in Seq(S) /\ Len(c) = i
      /\ \A k \in 1 .. i : c[k] = IF k <= i - 1 THEN a[k] ELSE <<e>>[k - (i - 1)]
  BY <1>1, <1>3, ConcatProperties
<1>5. c[i] = e
  BY <1>3, <1>4
<1>. HIDE DEF c
<1>6. /\ c \o b \in Seq(S) /\ Len(c \o b) = Len(s) + 1
      /\ \A k \in 1 .. Len(s) + 1 : (c \o b)[k] = IF k <= i THEN c[k] ELSE b[k - i]
  <2>1. /\ c \o b \in Seq(S) /\ Len(c \o b) = Len(c) + Len(b)
        /\ \A k \in 1 .. Len(c) + Len(b) :
              (c \o b)[k] = IF k <= Len(c) THEN c[k] ELSE b[k - Len(c)]
    BY <1>2, <1>4, ConcatProperties
  <2>2. Len(c) + Len(b) = Len(s) + 1
    BY <1>2, <1>4
  <2>. QED
    BY <1>4, <2>1, <2>2
<1>7. ASSUME NEW k \in 1 .. Len(s) + 1
      PROVE  (c \o b)[k] = IF k < i THEN s[k] ELSE IF k = i THEN e ELSE s[k - 1]
  <2>1. CASE k < i
    <3>1. k \in 1 .. i - 1 /\ k \in 1 .. i /\ k <= i /\ k <= i - 1
      BY <2>1
    <3>2. (c \o b)[k] = c[k]
      BY <3>1, <1>6
    <3>3. c[k] = a[k]
      BY <3>1, <1>4
    <3>4. a[k] = s[k]
      BY <3>1, <1>1
    <3>. QED
      BY <2>1, <3>2, <3>3, <3>4
  <2>2. CASE k = i
    BY <2>2, <1>5, <1>6
  <2>3. CASE i < k
    <3>1. k - i \in 1 .. Len(s) - i + 1 /\ ~(k <= i)
      BY <2>3
    <3>2. b[k - i] = s[i + (k - i) - 1] /\ i + (k - i) - 1 = k - 1
      BY <3>1, <1>2
    <3>3. (c \o b)[k] = b[k - i]
      BY <3>1, <1>6
    <3>4. ~(k < i) /\ k # i
      BY <2>3
    <3>. QED
      BY <3>2, <3>3, <3>4
  <2>4. k < i \/ k = i \/ i < k
    OBVIOUS
  <2>. QED
    BY <2>1, <2>2, <2>3, <2>4
<1>. QED
  BY <1>6, <1>7 DEF InsertAt, a, b, c

-----------------------------------------------------------------------------
(* The free blocks of a chunk as a set of bytes.                           *)

\* The blocks are sorted, none is empty, none touches the next.
Tidy(free) ==
    /\ free \in Seq(Block)
    /\ \A i \in DOMAIN free : free[i].size > 0
    /\ \A i, j \in DOMAIN free : i < j => End(free[i]) < free[j].offset

\* The same, but block i may touch the next one.
AlmostTidy(free, i) ==
    /\ free \in Seq(Block)
    /\ \A k \in DOMAIN free : free[k].size > 0
    /\ \A j, k \in DOMAIN free : j < k => End(free[j]) <= free[k].offset
    /\ \A j, k \in DOMAIN free : j < k /\ j # i => End(free[j]) < free[k].offset

InBlock(block, x) == block.offset <= x /\ x < End(block)
InFree(free, x) == \E i \in DOMAIN free : InBlock(free[i], x)

LEMMA BlockType ==
  ASSUME NEW free \in Seq(Block), NEW i \in DOMAIN free
  PROVE  /\ i \in 1 .. Len(free) /\ i \in Nat
         /\ free[i] \in Block /\ free[i].offset \in Nat /\ free[i].size \in Nat
         /\ End(free[i]) = free[i].offset + free[i].size /\ End(free[i]) \in Nat
         /\ free[i].offset <= End(free[i])
<1>1. free[i] \in Block /\ i \in 1 .. Len(free)
  OBVIOUS
<1>. QED
  BY <1>1 DEF Block, End

LEMMA TidyBlock ==
  ASSUME NEW free, Tidy(free), NEW k \in DOMAIN free
  PROVE  /\ k \in Nat /\ free[k].offset \in Nat /\ End(free[k]) \in Nat
         /\ free[k].offset < End(free[k])
<1>1. free \in Seq(Block) /\ free[k].size > 0
  BY DEF Tidy
<1>2. /\ k \in Nat /\ free[k].offset \in Nat /\ free[k].size \in Nat
      /\ End(free[k]) = free[k].offset + free[k].size
  BY <1>1, BlockType
<1>. QED
  BY <1>1, <1>2

\* Merging block i with the next, where they touch, makes the list tidy.
LEMMA JoinedIsTidy ==
  ASSUME NEW free, NEW i \in DOMAIN free, AlmostTidy(free, i)
  PROVE  Tidy(Joined(free, i)) /\ \A x \in Nat : InFree(Joined(free, i), x) <=> InFree(free, x)
<1>1. free \in Seq(Block) /\ DOMAIN free = 1 .. Len(free) /\ Len(free) \in Nat
  BY DEF AlmostTidy
<1>2. CASE i < Len(free) /\ End(free[i]) = free[i + 1].offset
  <2>. DEFINE g == [free EXCEPT ![i].size = @ + free[i + 1].size]  r == RemoveAt(g, i + 1)
              B == [offset |-> free[i].offset, size |-> free[i].size + free[i + 1].size]
  <2>1. i + 1 \in DOMAIN free /\ i \in Nat
    BY <1>1, <1>2
  <2>2. B \in Block /\ End(B) = End(free[i + 1])
    <3>1. /\ free[i].offset \in Nat /\ free[i].size \in Nat /\ free[i + 1].size \in Nat
          /\ End(free[i]) = free[i].offset + free[i].size
          /\ End(free[i + 1]) = free[i + 1].offset + free[i + 1].size
      BY <1>1, <2>1, BlockType
    <3>2. B \in Block
      BY <3>1 DEF Block
    <3>3. End(B) = free[i].offset + (free[i].size + free[i + 1].size)
      BY DEF End
    <3>4. free[i + 1].offset = free[i].offset + free[i].size
      BY <1>2, <3>1
    <3>. HIDE DEF B
    <3>. QED
      BY <3>1, <3>2, <3>3, <3>4
  <2>3. g = [free EXCEPT ![i] = B]
    <3>1. free[i] \in Block
      BY <1>1
    <3>2. [free[i] EXCEPT !.size = @ + free[i + 1].size] = B
      BY <3>1 DEF Block
    <3>. HIDE DEF B
    <3>. QED
      BY <3>2
  <2>4. g \in Seq(Block) /\ Len(g) = Len(free) /\ \A k \in DOMAIN free : g[k] = IF k = i THEN B ELSE free[k]
    BY <1>1, <2>2, <2>3
  <2>. HIDE DEF B, g
  <2>5. /\ r \in Seq(Block) /\ Len(r) = Len(free) - 1
        /\ \A k \in 1 .. Len(free) - 1 : r[k] = IF k < i + 1 THEN g[k] ELSE g[k + 1]
    BY <1>1, <2>1, <2>4, RemoveAtIs, ZenonT(40)
  <2>. HIDE DEF r
  <2>6. DOMAIN r = 1 .. Len(free) - 1
    BY <2>5, <1>1
  <2>7. \A k \in DOMAIN r :
           /\ k \in Nat /\ k \in DOMAIN free /\ k + 1 \in DOMAIN free
           /\ k < i => r[k] = free[k]
           /\ k = i => r[k] = B
           /\ k > i => r[k] = free[k + 1]
    BY <1>1, <2>1, <2>4, <2>5, <2>6
  <2>8. B.offset = free[i].offset /\ B.size > 0
    BY <1>1, <2>1, BlockType DEF AlmostTidy, B
  <2>9. \A k \in DOMAIN r : r[k].size > 0
    <3>1. \A k \in DOMAIN free : free[k].size > 0
      BY DEF AlmostTidy
    <3>. QED
      BY <2>1, <2>7, <2>8, <3>1
  <2>10. ASSUME NEW j \in DOMAIN r, NEW k \in DOMAIN r, j < k
         PROVE  End(r[j]) < r[k].offset
    <3>1. \A p, q \in DOMAIN free : p < q /\ p # i => End(free[p]) < free[q].offset
      BY DEF AlmostTidy
    <3>2. CASE k < i
      BY <2>1, <2>7, <2>10, <3>1, <3>2
    <3>3. CASE k = i
      BY <2>1, <2>7, <2>8, <2>10, <3>1, <3>3
    <3>4. CASE k > i /\ j < i
      BY <2>1, <2>7, <2>10, <3>1, <3>4
    <3>5. CASE k > i /\ j = i
      BY <2>1, <2>2, <2>7, <2>10, <3>1, <3>5
    <3>6. CASE k > i /\ j > i
      BY <2>1, <2>7, <2>10, <3>1, <3>6
    <3>. QED
      BY <2>1, <2>7, <3>2, <3>3, <3>4, <3>5, <3>6
  <2>11. Tidy(r)
    BY <2>5, <2>9, <2>10 DEF Tidy
  <2>12. \A x \in Nat : InBlock(B, x) <=> InBlock(free[i], x) \/ InBlock(free[i + 1], x)
    BY <1>1, <1>2, <2>1, <2>2, <2>8, BlockType, SMTT(30) DEF InBlock
  <2>13. ASSUME NEW x \in Nat, InFree(r, x) PROVE InFree(free, x)
    <3>1. PICK k \in DOMAIN r : InBlock(r[k], x)
      BY <2>13 DEF InFree
    <3>. QED
      BY <2>1, <2>7, <2>12, <3>1 DEF InFree
  <2>14. ASSUME NEW x \in Nat, InFree(free, x) PROVE InFree(r, x)
    <3>1. PICK k \in DOMAIN free : InBlock(free[k], x)
      BY <2>14 DEF InFree
    <3>2. CASE k < i
      <4>1. k \in DOMAIN r
        BY <1>1, <1>2, <2>1, <2>6, <3>2
      <4>. QED
        BY <2>7, <3>1, <3>2, <4>1 DEF InFree
    <3>3. CASE k = i \/ k = i + 1
      <4>1. i \in DOMAIN r
        BY <1>1, <1>2, <2>1, <2>6
      <4>. QED
        BY <2>7, <2>12, <3>1, <3>3, <4>1 DEF InFree
    <3>4. CASE k > i + 1
      <4>1. k - 1 \in DOMAIN r /\ k - 1 > i /\ k - 1 + 1 = k
        BY <1>1, <1>2, <2>1, <2>6, <3>4
      <4>. QED
        BY <2>7, <3>1, <4>1 DEF InFree
    <3>. QED
      BY <1>1, <2>1, <3>2, <3>3, <3>4
  <2>15. Joined(free, i) = r
    BY <1>2 DEF Joined, r, g
  <2>. QED
    BY <2>11, <2>13, <2>14, <2>15
<1>3. CASE ~(i < Len(free) /\ End(free[i]) = free[i + 1].offset)
  <2>1. Joined(free, i) = free
    BY <1>3 DEF Joined
  <2>2. ASSUME NEW j \in DOMAIN free, NEW k \in DOMAIN free, j < k
        PROVE  End(free[j]) < free[k].offset
    <3>1. CASE j # i
      BY <2>2, <3>1 DEF AlmostTidy
    <3>2. CASE j = i /\ k = i + 1
      <4>1. End(free[j]) <= free[k].offset
        BY <2>2 DEF AlmostTidy
      <4>2. i < Len(free)
        BY <1>1, <3>2
      <4>. QED
        BY <1>1, <1>3, <3>2, <4>1, <4>2, BlockType
    <3>3. CASE j = i /\ k > i + 1
      <4>1. i + 1 \in DOMAIN free /\ i < i + 1 /\ i + 1 < k /\ i + 1 # i
        BY <1>1, <3>3
      <4>2. End(free[i]) <= free[i + 1].offset /\ End(free[i + 1]) < free[k].offset
        BY <4>1 DEF AlmostTidy
      <4>3. free[i + 1].offset <= End(free[i + 1])
        BY <1>1, <4>1, BlockType
      <4>4. /\ End(free[i]) \in Nat /\ End(free[i + 1]) \in Nat
            /\ free[i + 1].offset \in Nat /\ free[k].offset \in Nat
        BY <1>1, <4>1, BlockType
      <4>. QED
        BY <3>3, <4>2, <4>3, <4>4
    <3>. QED
      BY <1>1, <2>2, <3>1, <3>2, <3>3
  <2>. QED
    BY <1>1, <2>1, <2>2 DEF Tidy, AlmostTidy
<1>. QED
  BY <1>2, <1>3

LEMMA TidyIsAlmostTidy ==
  ASSUME NEW free, Tidy(free), NEW i \in DOMAIN free, NEW B \in Block, B.size > 0,
         \A k \in DOMAIN free : k < i => End(free[k]) <= B.offset,
         \A k \in DOMAIN free : i < k => End(B) <= free[k].offset,
         NEW m \in DOMAIN free,
         \A k \in DOMAIN free : k < i /\ k # m => End(free[k]) < B.offset,
         \A k \in DOMAIN free : i < k /\ i # m => End(B) < free[k].offset
  PROVE  AlmostTidy([free EXCEPT ![i] = B], m)
<1>. DEFINE g == [free EXCEPT ![i] = B]
<1>1. free \in Seq(Block)
  BY DEF Tidy
<1>2. /\ g \in Seq(Block) /\ DOMAIN g = DOMAIN free
      /\ \A k \in DOMAIN free : g[k] = IF k = i THEN B ELSE free[k]
  BY <1>1
<1>. HIDE DEF g
<1>3. \A k \in DOMAIN g : g[k].size > 0
  BY <1>2 DEF Tidy
<1>4. ASSUME NEW j \in DOMAIN g, NEW k \in DOMAIN g, j < k
      PROVE  End(g[j]) <= g[k].offset
  <2>1. CASE j # i /\ k # i
    <3>1. End(free[j]) < free[k].offset
      BY <1>2, <1>4 DEF Tidy
    <3>2. End(free[j]) \in Nat /\ free[k].offset \in Nat
      BY <1>1, <1>2, BlockType
    <3>. QED
      BY <1>2, <2>1, <3>1, <3>2
  <2>2. CASE j = i /\ k # i
    BY <1>2, <1>4, <2>2
  <2>3. CASE j # i /\ k = i
    BY <1>2, <1>4, <2>3
  <2>4. ~(j = i /\ k = i)
    BY <1>1, <1>2, <1>4
  <2>. QED
    BY <2>1, <2>2, <2>3, <2>4
<1>5. ASSUME NEW j \in DOMAIN g, NEW k \in DOMAIN g, j < k, j # m
      PROVE  End(g[j]) < g[k].offset
  <2>1. CASE j # i /\ k # i
    BY <1>2, <1>5, <2>1 DEF Tidy
  <2>2. CASE j = i /\ k # i
    BY <1>2, <1>5, <2>2
  <2>3. CASE j # i /\ k = i
    BY <1>2, <1>5, <2>3
  <2>4. ~(j = i /\ k = i)
    BY <1>1, <1>2, <1>5
  <2>. QED
    BY <2>1, <2>2, <2>3, <2>4
<1>. QED
  BY <1>2, <1>3, <1>4, <1>5 DEF AlmostTidy, g

\* Bytes that are in no free block lie beside each block, and apart from those
\* they do not touch.
LEMMA BytesLieBeside ==
  ASSUME NEW free, Tidy(free), NEW offset \in Nat, NEW size \in Nat \ {0},
         \A x \in Nat : offset <= x /\ x < offset + size => ~InFree(free, x),
         NEW k \in DOMAIN free
  PROVE  End(free[k]) <= offset \/ offset + size <= free[k].offset
<1>1. /\ free[k].offset \in Nat /\ End(free[k]) \in Nat /\ free[k].offset < End(free[k])
  BY BlockType DEF Tidy
<1>2. SUFFICES ASSUME offset < End(free[k]), free[k].offset < offset + size PROVE FALSE
  BY <1>1
<1>3. CASE offset <= free[k].offset
  <2>1. InFree(free, free[k].offset)
    BY <1>1 DEF InFree, InBlock
  <2>. QED
    BY <1>1, <1>2, <1>3, <2>1
<1>4. CASE free[k].offset < offset
  <2>1. InFree(free, offset)
    BY <1>1, <1>2, <1>4 DEF InFree, InBlock
  <2>. QED
    BY <1>1, <1>2, <1>4, <2>1
<1>. QED
  BY <1>1, <1>3, <1>4

\* ggml_dyn_tallocr_free_bytes keeps the list tidy, and adds the bytes to it.
LEMMA FreedAddsTheBytes ==
  ASSUME NEW free, Tidy(free), NEW offset \in Nat, NEW size \in Nat \ {0},
         \A x \in Nat : offset <= x /\ x < offset + size => ~InFree(free, x)
  PROVE  /\ Tidy(Freed(free, offset, size))
         /\ \A x \in Nat : InFree(Freed(free, offset, size), x)
                            <=> InFree(free, x) \/ (offset <= x /\ x < offset + size)
<1>. DEFINE touching == Touching(free, offset, size)  i == Min(touching)
            B == [offset |-> offset, size |-> size]
<1>1. free \in Seq(Block) /\ DOMAIN free = 1 .. Len(free) /\ Len(free) \in Nat
  BY DEF Tidy
<1>2. B \in Block /\ B.size > 0 /\ B.offset = offset /\ End(B) = offset + size
  BY DEF Block, End
<1>3. \A k \in DOMAIN free : /\ free[k].offset \in Nat /\ End(free[k]) \in Nat
                             /\ free[k].offset < End(free[k])
  BY BlockType DEF Tidy
<1>4. \A j, k \in DOMAIN free : j < k => End(free[j]) < free[k].offset
  BY DEF Tidy
<1>5. \A k \in DOMAIN free : End(free[k]) <= offset \/ offset + size <= free[k].offset
  BY BytesLieBeside
<1>6. \A k \in DOMAIN free : k \in touching <=> End(free[k]) = offset \/ offset + size = free[k].offset
  BY DEF Touching
<1>7. touching \subseteq DOMAIN free
  BY DEF Touching
<1>. HIDE DEF B, touching
<1>8. CASE touching = {}
  <2>. DEFINE P == {k \in 1 .. Len(free) + 1 : k = Len(free) + 1 \/ free[k].offset >= offset}
              pos == InsertPos(free, offset)  r == InsertAt(free, pos, B)
  <2>1. pos = Min(P)
    BY DEF InsertPos
  <2>2. P \in SUBSET Nat /\ Len(free) + 1 \in P
    BY <1>1
  <2>3. pos \in P /\ \A k \in P : pos <= k
    BY <2>1, <2>2, MinOfNats
  <2>. HIDE DEF pos
  <2>4. pos \in 1 .. Len(free) + 1
    BY <2>3
  <2>5. ASSUME NEW k \in DOMAIN free, k < pos PROVE End(free[k]) < offset
    <3>1. k \notin P
      BY <1>1, <2>3, <2>4, <2>5
    <3>2. free[k].offset < offset
      BY <1>1, <1>3, <3>1
    <3>. QED
      BY <1>3, <1>5, <1>6, <1>8, <3>2
  <2>6. ASSUME NEW k \in DOMAIN free, pos <= k PROVE offset + size < free[k].offset
    <3>1. pos \in DOMAIN free /\ free[pos].offset >= offset
      BY <1>1, <2>3, <2>4, <2>6
    <3>2. free[k].offset >= offset
      <4>1. CASE k = pos
        BY <3>1, <4>1
      <4>2. CASE pos < k
        BY <1>3, <1>4, <3>1, <4>2
      <4>. QED
        BY <1>1, <2>4, <2>6, <4>1, <4>2
    <3>. QED
      BY <1>3, <1>5, <1>6, <1>8, <3>2
  <2>7. /\ r \in Seq(Block) /\ Len(r) = Len(free) + 1
        /\ \A k \in 1 .. Len(free) + 1 :
              r[k] = IF k < pos THEN free[k] ELSE IF k = pos THEN B ELSE free[k - 1]
    BY <1>1, <1>2, <2>4, InsertAtIs, SMTT(30)
  <2>. HIDE DEF r
  <2>8. \A k \in DOMAIN r :
           /\ k \in Nat
           /\ k < pos => k \in DOMAIN free /\ r[k] = free[k]
           /\ k = pos => r[k] = B
           /\ k > pos => k - 1 \in DOMAIN free /\ pos <= k - 1 /\ r[k] = free[k - 1]
    BY <1>1, <2>4, <2>7
  <2>9. \A k \in DOMAIN r : r[k].size > 0
    BY <1>2, <2>4, <2>8 DEF Tidy
  <2>10. ASSUME NEW j \in DOMAIN r, NEW k \in DOMAIN r, j < k PROVE End(r[j]) < r[k].offset
    <3>1. CASE k < pos
      BY <1>4, <2>4, <2>8, <2>10, <3>1
    <3>2. CASE k = pos
      BY <1>2, <2>4, <2>5, <2>8, <2>10, <3>2
    <3>3. CASE k > pos /\ j < pos
      <4>1. k - 1 \in DOMAIN free /\ j < k - 1
        BY <2>4, <2>8, <3>3
      <4>. QED
        BY <1>4, <2>8, <3>3, <4>1
    <3>4. CASE k > pos /\ j = pos
      BY <1>2, <2>4, <2>6, <2>8, <2>10, <3>4
    <3>5. CASE k > pos /\ j > pos
      <4>1. k - 1 \in DOMAIN free /\ j - 1 \in DOMAIN free /\ j - 1 < k - 1
        BY <2>4, <2>8, <2>10, <3>5
      <4>. QED
        BY <1>4, <2>8, <3>5, <4>1
    <3>. QED
      BY <2>4, <2>8, <3>1, <3>2, <3>3, <3>4, <3>5
  <2>11. Tidy(r)
    BY <2>7, <2>9, <2>10 DEF Tidy
  <2>12. \A x \in Nat : InBlock(B, x) <=> offset <= x /\ x < offset + size
    BY <1>2 DEF InBlock
  <2>13. ASSUME NEW x \in Nat, InFree(r, x) PROVE InFree(free, x) \/ InBlock(B, x)
    <3>1. PICK k \in DOMAIN r : InBlock(r[k], x)
      BY <2>13 DEF InFree
    <3>. QED
      BY <2>4, <2>8, <3>1 DEF InFree
  <2>14. ASSUME NEW x \in Nat, InBlock(B, x) PROVE InFree(r, x)
    <3>1. pos \in DOMAIN r
      BY <1>1, <2>4, <2>7
    <3>. QED
      BY <2>8, <2>14, <3>1 DEF InFree
  <2>15. ASSUME NEW x \in Nat, InFree(free, x) PROVE InFree(r, x)
    <3>1. PICK k \in DOMAIN free : InBlock(free[k], x)
      BY <2>15 DEF InFree
    <3>2. CASE k < pos
      <4>1. k \in DOMAIN r
        BY <1>1, <2>7
      <4>. QED
        BY <2>8, <3>1, <3>2, <4>1 DEF InFree
    <3>3. CASE pos <= k
      <4>1. k + 1 \in DOMAIN r /\ k + 1 > pos /\ (k + 1) - 1 = k
        BY <1>1, <2>4, <2>7, <3>3
      <4>. DEFINE m == k + 1
      <4>2. m \in DOMAIN r /\ m > pos /\ m - 1 = k
        BY <4>1
      <4>. HIDE DEF m
      <4>3. r[m] = free[k]
        BY <2>8, <4>2
      <4>. QED
        BY <3>1, <4>2, <4>3 DEF InFree
    <3>. QED
      BY <1>1, <2>4, <3>2, <3>3
  <2>16. Freed(free, offset, size) = r
    BY <1>8 DEF Freed, touching, r, pos, B
  <2>. QED
    BY <2>11, <2>12, <2>13, <2>14, <2>15, <2>16
<1>9. CASE touching # {}
  <2>1. touching \in SUBSET Nat
    BY <1>1, <1>7
  <2>2. i \in touching /\ \A k \in touching : i <= k
    BY <1>9, <2>1, MinOfNats
  <2>3. i \in DOMAIN free /\ i \in Nat
    BY <1>1, <1>7, <2>2
  <2>. HIDE DEF i
  <2>4. CASE End(free[i]) = offset
    <3>. DEFINE C == [offset |-> free[i].offset, size |-> free[i].size + size]
                g == [free EXCEPT ![i] = C]
    <3>1. /\ C \in Block /\ C.size > 0 /\ C.offset = free[i].offset /\ End(C) = offset + size
      <4>1. /\ free[i].offset \in Nat /\ free[i].size \in Nat
            /\ free[i].offset + free[i].size = offset
        BY <1>1, <2>3, <2>4, BlockType
      <4>2. C \in Block /\ C.size > 0 /\ C.offset = free[i].offset /\ C.size = free[i].size + size
        BY <4>1 DEF Block
      <4>3. End(C) = C.offset + C.size
        BY DEF End
      <4>. HIDE DEF C
      <4>. QED
        BY <4>1, <4>2, <4>3
    <3>2. [free EXCEPT ![i].size = @ + size] = g
      <4>1. free[i] \in Block
        BY <1>1, <2>3
      <4>2. [free[i] EXCEPT !.size = @ + size] = C
        BY <4>1 DEF Block
      <4>. HIDE DEF C
      <4>. QED
        BY <4>2
    <3>. HIDE DEF C
    <3>3. \A k \in DOMAIN free : k < i => End(free[k]) < C.offset
      BY <1>4, <2>3, <3>1
    <3>4. \A k \in DOMAIN free : i < k => End(C) <= free[k].offset
      BY <1>3, <1>4, <1>5, <2>3, <2>4, <3>1
    <3>5. AlmostTidy(g, i)
      <4>1. \A k \in DOMAIN free : k < i => End(free[k]) <= C.offset
        BY <1>3, <2>3, <3>1, <3>3
      <4>2. \A k \in DOMAIN free : i < k /\ i # i => End(C) < free[k].offset
        OBVIOUS
      <4>. QED
        BY <2>3, <3>1, <3>3, <3>4, <4>1, <4>2, TidyIsAlmostTidy
    <3>6. i \in DOMAIN g
      BY <1>1, <2>3
    <3>7. Tidy(Joined(g, i)) /\ \A x \in Nat : InFree(Joined(g, i), x) <=> InFree(g, x)
      BY <3>5, <3>6, JoinedIsTidy
    <3>8. \A x \in Nat : InBlock(C, x) <=> InBlock(free[i], x) \/ (offset <= x /\ x < offset + size)
      BY <1>3, <2>3, <2>4, <3>1 DEF InBlock
    <3>9. \A x \in Nat : InFree(g, x) <=> InFree(free, x) \/ (offset <= x /\ x < offset + size)
      BY <1>1, <2>3, <3>8 DEF InFree
    <3>10. Freed(free, offset, size) = Joined(g, i)
      BY <1>9, <2>4, <3>2 DEF Freed, touching, i
    <3>. QED
      BY <3>7, <3>9, <3>10
  <2>5. CASE End(free[i]) # offset
    <3>. DEFINE C == [offset |-> offset, size |-> free[i].size + size]
                g == [free EXCEPT ![i] = C]
    <3>0. offset + size = free[i].offset
      BY <1>6, <2>2, <2>3, <2>5
    <3>1. /\ C \in Block /\ C.size > 0 /\ C.offset = offset /\ End(C) = End(free[i])
      BY <1>1, <2>3, <3>0, BlockType, SMTT(30) DEF Block, End
    <3>2. [free EXCEPT ![i] = [offset |-> offset, size |-> @.size + size]] = g
      OBVIOUS
    <3>. HIDE DEF C
    <3>3. \A k \in DOMAIN free : i < k => End(C) < free[k].offset
      BY <1>4, <2>3, <3>1
    <3>4. \A k \in DOMAIN free : k < i => End(free[k]) <= C.offset
      BY <1>3, <1>4, <1>5, <2>3, <3>0, <3>1
    <3>5. \A k \in DOMAIN free : k < i => End(free[k]) < C.offset
      BY <1>1, <1>3, <1>6, <2>2, <2>3, <3>1, <3>4
    <3>6. \A x \in Nat : InBlock(C, x) <=> InBlock(free[i], x) \/ (offset <= x /\ x < offset + size)
      BY <1>3, <2>3, <3>0, <3>1 DEF InBlock
    <3>7. \A x \in Nat : InFree(g, x) <=> InFree(free, x) \/ (offset <= x /\ x < offset + size)
      BY <1>1, <2>3, <3>6 DEF InFree
    <3>8. \A m \in DOMAIN free : m <= i => AlmostTidy(g, m)
      <4>1. \A k \in DOMAIN free : i < k => End(C) <= free[k].offset
        BY <1>3, <2>3, <3>1, <3>3
      <4>. QED
        BY <2>3, <3>1, <3>3, <3>4, <3>5, <4>1, TidyIsAlmostTidy
    <3>9. CASE i > 1
      <4>1. i - 1 \in DOMAIN free /\ i - 1 \in DOMAIN g /\ i - 1 <= i
        BY <1>1, <2>3, <3>9
      <4>2. Tidy(Joined(g, i - 1)) /\ \A x \in Nat : InFree(Joined(g, i - 1), x) <=> InFree(g, x)
        BY <3>8, <4>1, JoinedIsTidy
      <4>3. Freed(free, offset, size) = Joined(g, i - 1)
        BY <1>9, <2>5, <3>2, <3>9 DEF Freed, touching, i
      <4>. QED
        BY <3>7, <4>2, <4>3
    <3>10. CASE ~(i > 1)
      <4>1. Freed(free, offset, size) = g
        BY <1>9, <2>5, <3>2, <3>10 DEF Freed, touching, i
      <4>5. DOMAIN g = DOMAIN free
        OBVIOUS
      <4>6. i <= i
        BY <2>3
      <4>2. AlmostTidy(g, i)
        BY <2>3, <3>8, <4>6, Zenon
      <4>3. ASSUME NEW j \in DOMAIN g, NEW k \in DOMAIN g, j < k PROVE End(g[j]) < g[k].offset
        <5>1. CASE j # i
          BY <4>2, <4>3, <5>1 DEF AlmostTidy
        <5>2. CASE j = i
          <6>1. g[j] = C /\ g[k] = free[k] /\ i < k /\ k \in DOMAIN free
            BY <1>1, <2>3, <4>5, <4>3, <5>2
          <6>. QED
            BY <3>3, <6>1
        <5>. QED
          BY <5>1, <5>2
      <4>4. Tidy(g)
        BY <4>2, <4>3 DEF Tidy, AlmostTidy
      <4>. QED
        BY <3>7, <4>1, <4>4
    <3>. QED
      BY <3>9, <3>10
  <2>. QED
    BY <2>4, <2>5
<1>. QED
  BY <1>8, <1>9

LEMMA MaxOfTwo ==
  ASSUME NEW x \in Nat, NEW y \in Nat
  PROVE  Max({x, y}) \in {x, y} /\ x <= Max({x, y}) /\ y <= Max({x, y})
<1>1. \E m \in {x, y} : \A z \in {x, y} : m >= z
  BY x >= y \/ y >= x
<1>. QED
  BY <1>1 DEF Max

\* ggml_dyn_tallocr_alloc keeps the list tidy, and takes the bytes out of it.
LEMMA CutTakesTheBytes ==
  ASSUME NEW cs \in Seq(Chunk), NEW c \in DOMAIN cs, Tidy(cs[c].free),
         NEW i \in DOMAIN cs[c].free, NEW size \in Nat \ {0}, cs[c].free[i].size >= size
  PROVE  LET new    == Cut(cs, <<c, i>>, size)
             offset == cs[c].free[i].offset
         IN  /\ new \in Seq(Chunk) /\ DOMAIN new = DOMAIN cs /\ Len(new) = Len(cs)
             /\ \A d \in DOMAIN cs : d # c => new[d] = cs[d]
             /\ Tidy(new[c].free)
             /\ new[c].max_size \in {cs[c].max_size, offset + size}
             /\ \A x \in Nat : offset <= x /\ x < offset + size => InFree(cs[c].free, x)
             /\ \A x \in Nat : InFree(new[c].free, x)
                   <=> InFree(cs[c].free, x) /\ ~(offset <= x /\ x < offset + size)
<1>. DEFINE free == cs[c].free  block == free[i]
            B == [offset |-> block.offset + size, size |-> block.size - size]
            list == IF block.size = size THEN RemoveAt(free, i) ELSE [free EXCEPT ![i] = B]
            top == Max({cs[c].max_size, block.offset + size})
            new == Cut(cs, <<c, i>>, size)
<1>0. Tidy(free) /\ i \in DOMAIN free /\ block.size >= size
  OBVIOUS
<1>1. /\ cs[c] \in Chunk /\ cs[c].max_size \in Nat
      /\ free \in Seq(Block) /\ DOMAIN free = 1 .. Len(free) /\ Len(free) \in Nat
  <2>1. cs[c] \in Chunk
    OBVIOUS
  <2>2. cs[c].max_size \in Nat /\ free \in Seq(Block)
    BY <2>1 DEF Chunk
  <2>. HIDE DEF free
  <2>. QED
    BY <2>1, <2>2
<1>. HIDE DEF free
<1>2. \A k \in DOMAIN free : /\ k \in Nat /\ free[k].offset \in Nat /\ End(free[k]) \in Nat
                             /\ free[k].offset < End(free[k])
  BY <1>0, TidyBlock
<1>3. block.offset \in Nat /\ block.size \in Nat /\ End(block) = block.offset + block.size
  BY <1>0, <1>1, BlockType
<1>4. \A j, k \in DOMAIN free : j < k => End(free[j]) < free[k].offset
  BY <1>0 DEF Tidy
<1>5. new = [cs EXCEPT ![c] = [free |-> list, max_size |-> top]]
  BY <1>1 DEF Cut, BlockAt, free
<1>6. top \in {cs[c].max_size, block.offset + size} /\ top \in Nat
  <2>1. block.offset + size \in Nat
    BY <1>3
  <2>. QED
    BY <1>1, <2>1, MaxOfTwo
<1>7. ASSUME NEW x \in Nat, block.offset <= x, x < block.offset + size
      PROVE  InFree(free, x)
  BY <1>0, <1>1, <1>3, <1>7 DEF InFree, InBlock
<1>8. \A x \in Nat, k \in DOMAIN free :
         k # i /\ InBlock(free[k], x) => ~(block.offset <= x /\ x < block.offset + size)
  <2>1. SUFFICES ASSUME NEW x \in Nat, NEW k \in DOMAIN free, k # i, InBlock(free[k], x),
                        block.offset <= x, x < block.offset + size
                 PROVE  FALSE
    OBVIOUS
  <2>2. k < i \/ i < k
    BY <1>0, <1>2, <2>1
  <2>3. End(free[k]) < free[i].offset \/ End(free[i]) < free[k].offset
    BY <1>0, <1>4, <2>1, <2>2
  <2>4. End(free[i]) = free[i].offset + free[i].size /\ free[i].size >= size
    BY <1>0, <1>3
  <2>5. /\ free[k].offset \in Nat /\ End(free[k]) \in Nat /\ free[i].offset \in Nat
        /\ free[i].size \in Nat
    BY <1>0, <1>2, <1>3, <2>1
  <2>6. /\ free[k].offset <= x /\ x < End(free[k])
        /\ free[i].offset <= x /\ x < free[i].offset + size
    BY <2>1 DEF InBlock
  <2>. QED
    BY <2>1, <2>3, <2>4, <2>5, <2>6, SMTT(30)
<1>. HIDE DEF top, new
<1>9. /\ Tidy(list)
      /\ \A x \in Nat : InFree(list, x)
            <=> InFree(free, x) /\ ~(block.offset <= x /\ x < block.offset + size)
  <2>1. CASE block.size = size
    <3>. DEFINE r == RemoveAt(free, i)
    <3>1. /\ r \in Seq(Block) /\ Len(r) = Len(free) - 1
          /\ \A k \in 1 .. Len(free) - 1 : r[k] = IF k < i THEN free[k] ELSE free[k + 1]
      BY <1>0, <1>1, RemoveAtIs
    <3>. HIDE DEF r
    <3>2. \A k \in DOMAIN r : /\ k \in Nat
                              /\ k < i => k \in DOMAIN free /\ r[k] = free[k]
                              /\ ~(k < i) => k + 1 \in DOMAIN free /\ r[k] = free[k + 1]
      BY <1>1, <1>2, <3>1
    <3>3. \A k \in DOMAIN r : r[k].size > 0
      <4>1. \A k \in DOMAIN free : free[k].size > 0
        BY <1>0 DEF Tidy
      <4>. QED
        BY <3>2, <4>1
    <3>4. ASSUME NEW j \in DOMAIN r, NEW k \in DOMAIN r, j < k PROVE End(r[j]) < r[k].offset
      <4>0. i \in Nat /\ j \in Nat /\ k \in Nat
        BY <1>0, <1>2, <3>2
      <4>1. CASE k < i
        BY <1>4, <3>2, <3>4, <4>0, <4>1
      <4>2. CASE ~(k < i) /\ j < i
        <5>1. j < k + 1
          BY <3>4, <4>0
        <5>. QED
          BY <1>4, <3>2, <4>2, <5>1
      <4>3. CASE ~(j < i)
        <5>1. j + 1 < k + 1 /\ ~(k < i)
          BY <3>4, <4>0, <4>3
        <5>. QED
          BY <1>4, <3>2, <4>3, <5>1
      <4>. QED
        BY <4>1, <4>2, <4>3
    <3>5. Tidy(r)
      BY <3>1, <3>3, <3>4 DEF Tidy
    <3>6. ASSUME NEW x \in Nat, InFree(r, x)
          PROVE  InFree(free, x) /\ ~(block.offset <= x /\ x < block.offset + size)
      <4>1. PICK k \in DOMAIN r : InBlock(r[k], x)
        BY <3>6 DEF InFree
      <4>2. i \in Nat /\ k \in Nat
        BY <1>0, <1>2, <3>2
      <4>3. PICK m \in DOMAIN free : m # i /\ InBlock(free[m], x)
        <5>1. CASE k < i
          BY <3>2, <4>1, <4>2, <5>1
        <5>2. CASE ~(k < i)
          <6>1. k + 1 # i
            BY <4>2, <5>2
          <6>. QED
            BY <3>2, <4>1, <5>2, <6>1
        <5>. QED
          BY <5>1, <5>2
      <4>. QED
        BY <1>8, <4>3 DEF InFree
    <3>7. ASSUME NEW x \in Nat, InFree(free, x), ~(block.offset <= x /\ x < block.offset + size)
          PROVE  InFree(r, x)
      <4>1. PICK k \in DOMAIN free : InBlock(free[k], x)
        BY <3>7 DEF InFree
      <4>2. k # i
        BY <1>3, <2>1, <3>7, <4>1 DEF InBlock
      <4>3. i \in Nat /\ k \in Nat /\ i \in DOMAIN free
        BY <1>0, <1>2
      <4>4. CASE k < i
        <5>1. k \in DOMAIN r
          BY <1>1, <3>1, <4>3, <4>4
        <5>. QED
          BY <3>2, <4>1, <4>4, <5>1 DEF InFree
      <4>5. CASE i < k
        <5>. DEFINE m == k - 1
        <5>1. m \in DOMAIN r /\ ~(m < i) /\ m + 1 = k
          BY <1>1, <3>1, <4>3, <4>5
        <5>. HIDE DEF m
        <5>. QED
          BY <3>2, <4>1, <5>1 DEF InFree
      <4>. QED
        BY <4>2, <4>3, <4>4, <4>5
    <3>8. list = r
      BY <2>1 DEF r
    <3>. HIDE DEF list
    <3>. QED
      BY <3>5, <3>6, <3>7, <3>8
  <2>2. CASE block.size # size
    <3>. DEFINE g == [free EXCEPT ![i] = B]
    <3>1. B \in Block /\ B.size > 0 /\ B.offset = block.offset + size /\ End(B) = End(block)
      <4>1. block.size - size \in Nat \ {0} /\ block.offset + size \in Nat
        BY <1>0, <1>3, <2>2
      <4>2. B \in Block /\ B.size > 0 /\ B.offset = block.offset + size
        BY <4>1 DEF Block
      <4>3. End(B) = block.offset + size + (block.size - size)
        BY DEF End
      <4>. HIDE DEF B
      <4>. QED
        BY <1>3, <4>1, <4>2, <4>3, SMTT(30)
    <3>2. /\ g \in Seq(Block) /\ DOMAIN g = DOMAIN free
          /\ \A k \in DOMAIN free : g[k] = IF k = i THEN B ELSE free[k]
      BY <1>0, <1>1, <3>1
    <3>. HIDE DEF B, g
    <3>3. \A k \in DOMAIN g : g[k].size > 0
      BY <1>0, <3>1, <3>2 DEF Tidy
    <3>4. ASSUME NEW j \in DOMAIN g, NEW k \in DOMAIN g, j < k PROVE End(g[j]) < g[k].offset
      <4>1. End(free[j]) < free[k].offset
        BY <1>4, <3>2, <3>4
      <4>2. CASE k = i
        <5>1. j # i
          BY <1>0, <1>2, <3>2, <3>4, <4>2
        <5>. QED
          BY <1>2, <1>3, <3>1, <3>2, <4>1, <4>2, <5>1
      <4>3. CASE k # i
        BY <3>1, <3>2, <4>1, <4>3
      <4>. QED
        BY <4>2, <4>3
    <3>5. Tidy(g)
      BY <3>2, <3>3, <3>4 DEF Tidy
    <3>6. \A x \in Nat : InBlock(B, x)
             <=> InBlock(block, x) /\ ~(block.offset <= x /\ x < block.offset + size)
      BY <1>3, <3>1 DEF InBlock
    <3>7. \A x \in Nat : InFree(g, x)
             <=> InFree(free, x) /\ ~(block.offset <= x /\ x < block.offset + size)
      BY <1>0, <1>8, <3>2, <3>6 DEF InFree
    <3>8. list = g
      BY <2>2 DEF g
    <3>. HIDE DEF list
    <3>. QED
      BY <3>5, <3>7, <3>8
  <2>. QED
    BY <2>1, <2>2
<1>. HIDE DEF list
<1>10. [free |-> list, max_size |-> top] \in Chunk
  BY <1>6, <1>9 DEF Chunk, Tidy
<1>11. /\ new \in Seq(Chunk) /\ DOMAIN new = DOMAIN cs /\ Len(new) = Len(cs)
       /\ \A d \in DOMAIN cs : d # c => new[d] = cs[d]
       /\ new[c].free = list /\ new[c].max_size = top
  BY <1>5, <1>10
<1>. QED
  BY <1>6, <1>7, <1>9, <1>11 DEF new, free

-----------------------------------------------------------------------------
(* The memory during a walk.                                               *)

\* The live tensors over each byte of chunk c of buffer b.
owners(b, c) ==
    [x \in Nat |-> {t \in Tensors(graph) : allocated[t] /\ Covers(t, addr[t], b, c, x)}]

\* A list of free blocks, the bytes handed out so far and their owners share a
\* chunk out: what is free or owned are the bytes up to some address.
Parted(free, top, own) ==
    /\ Tidy(free)
    /\ \A x \in Nat : InFree(free, x) => own[x] = {}
    /\ \A x \in Nat : \A t, u \in own[x] : t = u
    /\ \A x \in Nat : x < top => InFree(free, x) \/ own[x] # {}
    /\ \A x, y \in Nat : y <= x /\ (InFree(free, x) \/ own[x] # {})
                         => InFree(free, y) \/ own[y] # {}

\* Where the loops are.
PlaceInv ==
    /\ pc \in {"ready", "leafs", "count", "parents", "free", "buffers", "place",
               "aborted", "crashed"}
    /\ at \in Nat /\ arg \in Nat
    /\ Walking => at >= 1 /\ arg >= 1 /\ WellFormed(graph)
    /\ pc = "free" => at \in Tensors(graph)
    /\ graph = NoGraph \/ WellFormed(graph)

TableInv ==
    /\ chunks \in [1 .. Buffers -> Seq(Chunk)]
    /\ \A b \in 1 .. Buffers : Len(chunks[b]) <= MaxChunks
    /\ allocated \in [Tensors(graph) -> BOOLEAN]
    /\ addr \in [Tensors(graph) -> AddrType]
    /\ \A t \in Tensors(graph) : allocated[t] =>
          /\ Owns(graph, t)
          /\ addr[t].buffer \in 1 .. Buffers /\ addr[t].chunk \in DOMAIN chunks[addr[t].buffer]

PartedInv ==
    \A b \in 1 .. Buffers : \A c \in DOMAIN chunks[b] :
       Parted(chunks[b][c].free, chunks[b][c].max_size, owners(b, c))

MemInv == TableInv /\ PartedInv

LEMMA TensorFacts ==
  ASSUME NEW g, WellFormed(g), NEW t \in Tensors(g)
  PROVE  /\ t \in Nat /\ t >= 1 /\ t <= Len(g.tensors) /\ Tensors(g) = 1 .. Len(g.tensors)
         /\ g.tensors[t] \in TensorType
         /\ g.tensors[t].size \in Nat \ {0} /\ g.tensors[t].buffer \in 1 .. Buffers
         /\ aligned(g.tensors[t].size) \in Nat \ {0} /\ aligned(g.tensors[t].size) <= Endless
         /\ g.tensors[t].size <= aligned(g.tensors[t].size)
<1>1. g.tensors \in Seq(TensorType) /\ Len(g.tensors) * aligned(g.tensors[t].size) <= Endless
  <2>1. \A u \in Tensors(g) : Len(g.tensors) * aligned(g.tensors[u].size) <= Endless
    BY Zenon DEF WellFormed
  <2>2. g.tensors \in Seq(TensorType)
    BY Zenon DEF WellFormed
  <2>. QED
    BY <2>1, <2>2
<1>2. /\ Tensors(g) = 1 .. Len(g.tensors) /\ Len(g.tensors) \in Nat
      /\ g.tensors[t] \in TensorType
  BY <1>1 DEF Tensors
<1>3. g.tensors[t].size \in Nat \ {0} /\ g.tensors[t].buffer \in 1 .. Buffers
  BY <1>2 DEF TensorType
<1>4. /\ aligned(g.tensors[t].size) \in Nat
      /\ g.tensors[t].size <= aligned(g.tensors[t].size)
  BY <1>3, TallocrAssumption, AlignedIsMonotone
<1>5. aligned(g.tensors[t].size) \in Nat \ {0}
  BY <1>3, <1>4
<1>6. aligned(g.tensors[t].size) <= Endless
  <2>1. ASSUME NEW n \in Nat \ {0}, NEW k \in Nat PROVE k <= n * k
    <3>1. n - 1 \in Nat /\ n * k = (n - 1) * k + k
      OBVIOUS
    <3>2. (n - 1) * k \in Nat
      BY <3>1
    <3>. QED
      BY <3>1, <3>2
  <2>2. Len(g.tensors) \in Nat \ {0}
    BY <1>2
  <2>3. PICK k, n : k = aligned(g.tensors[t].size) /\ n = Len(g.tensors)
    OBVIOUS
  <2>4. k \in Nat /\ n \in Nat \ {0} /\ n * k <= Endless /\ Endless \in Nat
    BY <1>1, <1>5, <2>2, <2>3, TallocrAssumption DEF TallocrAssumption
  <2>5. k <= n * k /\ n * k \in Nat
    BY <2>1, <2>4
  <2>6. k <= Endless
    BY <2>4, <2>5
  <2>. QED
    BY <2>3, <2>6
<1>. QED
  BY <1>1, <1>2, <1>3, <1>4, <1>5, <1>6

LEMMA SourceFacts ==
  ASSUME NEW g, WellFormed(g), NEW t \in Tensors(g), NEW j \in DOMAIN g.tensors[t].src
  PROVE  /\ g.tensors[t].src[j] \in Tensors(g) /\ g.tensors[t].src[j] < t
         /\ g.tensors[t].op = "inplace"
            /\ g.tensors[g.tensors[t].src[j]].layout = g.tensors[t].layout
            => aligned(g.tensors[t].size) <= aligned(g.tensors[g.tensors[t].src[j]].size)
<1>. DEFINE s == g.tensors[t].src[j]
<1>1. s \in 1 .. t - 1 /\ Tensors(g) = 1 .. Len(g.tensors) /\ t \in Nat /\ t <= Len(g.tensors)
      /\ Len(g.tensors) \in Nat
  <2>1. s \in 1 .. t - 1
    BY DEF WellFormed
  <2>2. Len(g.tensors) \in Nat
    BY DEF WellFormed
  <2>. QED
    BY <2>1, <2>2, TensorFacts
<1>2. s \in Tensors(g) /\ s < t
  BY <1>1
<1>3. ASSUME g.tensors[t].op = "inplace", g.tensors[s].layout = g.tensors[t].layout
      PROVE  aligned(g.tensors[t].size) <= aligned(g.tensors[s].size)
  <2>1. g.tensors[t].size <= g.tensors[s].size
    BY <1>3 DEF WellFormed
  <2>2. g.tensors[t].size \in Nat /\ g.tensors[s].size \in Nat
    BY <1>2, TensorFacts
  <2>. QED
    BY <2>1, <2>2, TallocrAssumption, AlignedIsMonotone
<1>. QED
  BY <1>2, <1>3

\* The root of a tensor is a tensor that is no view.
LEMMA RootFacts ==
  ASSUME NEW g, WellFormed(g), NEW t \in Tensors(g)
  PROVE  Root(g, t) \in Tensors(g) /\ ~IsView(g, Root(g, t)) /\ Root(g, t) <= t
<1>1. CASE IsView(g, t)
  <2>1. /\ g.tensors[t].view # 0 /\ g.tensors[t].view < t
        /\ ~IsView(g, g.tensors[t].view)
    BY <1>1 DEF WellFormed, IsView
  <2>2. g.tensors[t].view \in Nat
    BY TensorFacts DEF TensorType
  <2>. QED
    BY <1>1, <2>1, <2>2, TensorFacts DEF Root
<1>2. CASE ~IsView(g, t)
  BY <1>2, TensorFacts DEF Root
<1>. QED
  BY <1>1, <1>2

LEMMA PartedStays ==
  ASSUME NEW free, NEW top, NEW own, Parted(free, top, own),
         NEW free2, NEW top2, NEW own2, Tidy(free2),
         \A x \in Nat : InFree(free2, x) => own2[x] = {},
         \A x \in Nat : \A t, u \in own2[x] : t = u,
         \A x \in Nat : (InFree(free2, x) \/ own2[x] # {}) <=> (InFree(free, x) \/ own[x] # {}),
         \A x \in Nat : x < top2 => x < top \/ InFree(free, x) \/ own[x] # {}
  PROVE  Parted(free2, top2, own2)
<1>1. \A x \in Nat : x < top2 => InFree(free2, x) \/ own2[x] # {}
  BY DEF Parted
<1>2. ASSUME NEW x \in Nat, NEW y \in Nat, y <= x, InFree(free2, x) \/ own2[x] # {}
      PROVE  InFree(free2, y) \/ own2[y] # {}
  <2>1. InFree(free, x) \/ own[x] # {}
    BY <1>2
  <2>2. InFree(free, y) \/ own[y] # {}
    BY <1>2, <2>1 DEF Parted
  <2>. QED
    BY <2>2
<1>. QED
  BY <1>1, <1>2 DEF Parted

LEMMA MemStays ==
  MemInv /\ UNCHANGED <<graph, allocated, addr, chunks>> => MemInv'
BY DEF MemInv, TableInv, PartedInv, owners, Covers, T, Tensors, Owns, IsView

\* A byte with an owner has no other, and is not free.
LEMMA PartedSole ==
  ASSUME NEW free, NEW top, NEW own, Parted(free, top, own)
  PROVE  /\ Tidy(free)
         /\ \A x \in Nat : \A t \in own[x] : own[x] = {t} /\ ~InFree(free, x)
<1>1. Tidy(free)
  BY DEF Parted
<1>2. ASSUME NEW x \in Nat, NEW t \in own[x] PROVE own[x] = {t} /\ ~InFree(free, x)
  BY DEF Parted
<1>. QED
  BY <1>1, <1>2

\* The bytes of a live tensor are its own.
LEMMA LiveBytes ==
  ASSUME MemInv, WellFormed(graph), NEW t \in Tensors(graph), allocated[t]
  PROVE  /\ addr[t].buffer \in 1 .. Buffers /\ addr[t].chunk \in DOMAIN chunks[addr[t].buffer]
         /\ addr[t].offset \in Nat
         /\ Parted(chunks[addr[t].buffer][addr[t].chunk].free,
                   chunks[addr[t].buffer][addr[t].chunk].max_size,
                   owners(addr[t].buffer, addr[t].chunk))
         /\ \A x \in Nat :
               addr[t].offset <= x /\ x < addr[t].offset + aligned(T(t).size)
               => /\ owners(addr[t].buffer, addr[t].chunk)[x] = {t}
                  /\ ~InFree(chunks[addr[t].buffer][addr[t].chunk].free, x)
<1>. DEFINE b == addr[t].buffer  c == addr[t].chunk
<1>1. b \in 1 .. Buffers /\ c \in DOMAIN chunks[b] /\ addr[t] \in AddrType
  BY DEF MemInv, TableInv
<1>2. addr[t].offset \in Nat
  BY <1>1 DEF AddrType
<1>3. Parted(chunks[b][c].free, chunks[b][c].max_size, owners(b, c))
  BY <1>1 DEF MemInv, PartedInv
<1>4. ASSUME NEW x \in Nat, addr[t].offset <= x, x < addr[t].offset + aligned(T(t).size)
      PROVE  owners(b, c)[x] = {t} /\ ~InFree(chunks[b][c].free, x)
  <2>1. t \in owners(b, c)[x]
    BY <1>4 DEF owners, Covers
  <2>. QED
    BY <1>3, <1>4, <2>1, PartedSole
<1>. QED
  BY <1>1, <1>2, <1>3, <1>4

LEMMA ChunkExcept ==
  ASSUME NEW k \in Chunk, NEW f
  PROVE  [k EXCEPT !.free = f] = [free |-> f, max_size |-> k.max_size]
BY DEF Chunk

\* Bytes returned to a chunk: the list of every chunk stays a list of blocks.
LEMMA ReleaseType ==
  ASSUME MemInv, NEW B \in 1 .. Buffers, NEW C \in DOMAIN chunks[B],
         NEW free2, Tidy(free2),
         chunks' = [chunks EXCEPT ![B] = [chunks[B] EXCEPT ![C].free = free2]]
  PROVE  /\ chunks' \in [1 .. Buffers -> Seq(Chunk)]
         /\ \A b \in 1 .. Buffers : /\ DOMAIN chunks'[b] = DOMAIN chunks[b]
                                    /\ Len(chunks'[b]) = Len(chunks[b])
         /\ chunks'[B][C].free = free2
         /\ chunks'[B][C].max_size = chunks[B][C].max_size
         /\ \A b \in 1 .. Buffers : \A c \in DOMAIN chunks[b] :
               ~(b = B /\ c = C) => chunks'[b][c] = chunks[b][c]
<1>. DEFINE cs == chunks[B]  cs2 == [cs EXCEPT ![C].free = free2]
<1>1. chunks \in [1 .. Buffers -> Seq(Chunk)]
  BY DEF MemInv, TableInv
<1>2. cs \in Seq(Chunk) /\ cs[C] \in Chunk
  BY <1>1
<1>3. free2 \in Seq(Block)
  BY DEF Tidy
<1>4. cs2 = [cs EXCEPT ![C] = [free |-> free2, max_size |-> cs[C].max_size]]
  <2>1. [cs[C] EXCEPT !.free = free2] = [free |-> free2, max_size |-> cs[C].max_size]
    BY <1>2, ChunkExcept
  <2>. QED
    BY <2>1
<1>5. [free |-> free2, max_size |-> cs[C].max_size] \in Chunk
  BY <1>2, <1>3 DEF Chunk
<1>6. /\ cs2 \in Seq(Chunk) /\ DOMAIN cs2 = DOMAIN cs /\ Len(cs2) = Len(cs)
      /\ cs2[C].free = free2 /\ cs2[C].max_size = cs[C].max_size
      /\ \A c \in DOMAIN cs : c # C => cs2[c] = cs[c]
  BY <1>2, <1>4, <1>5
<1>7. chunks' = [chunks EXCEPT ![B] = cs2]
  OBVIOUS
<1>. HIDE DEF cs2
<1>8. /\ chunks'[B] = cs2 /\ \A b \in 1 .. Buffers : b # B => chunks'[b] = chunks[b]
      /\ chunks' \in [1 .. Buffers -> Seq(Chunk)]
  BY <1>1, <1>6, <1>7
<1>. QED
  BY <1>6, <1>8

LEMMA FreeNodeKeepsMem ==
  ASSUME MemInv, WellFormed(graph), NEW r \in Tensors(graph), allocated[r],
         FreeNode(r), UNCHANGED <<graph, addr>>
  PROVE  MemInv'
<1>1. CASE T(r).output
  BY <1>1, MemStays DEF FreeNode
<1>2. CASE ~T(r).output
  <2>. DEFINE a == addr[r]  size == aligned(T(r).size)
              old == chunks[a.buffer][a.chunk].free  free2 == Freed(old, a.offset, size)
  <2>1. /\ chunks' = [chunks EXCEPT ![a.buffer] = FreeBytes(@, a.chunk, a.offset, size)]
        /\ allocated' = [allocated EXCEPT ![r] = FALSE]
        /\ graph' = graph /\ addr' = addr
    BY <1>2 DEF FreeNode, Release
  <2>2. /\ a.buffer \in 1 .. Buffers /\ a.chunk \in DOMAIN chunks[a.buffer] /\ a.offset \in Nat
        /\ Parted(old, chunks[a.buffer][a.chunk].max_size, owners(a.buffer, a.chunk))
    BY LiveBytes
  <2>3. \A x \in Nat : a.offset <= x /\ x < a.offset + size
            => owners(a.buffer, a.chunk)[x] = {r} /\ ~InFree(old, x)
    BY LiveBytes
  <2>4. size \in Nat \ {0}
    BY TensorFacts DEF T
  <2>5. Tidy(old)
    BY <2>2 DEF Parted
  <2>6. /\ Tidy(free2)
        /\ \A x \in Nat : InFree(free2, x) <=> InFree(old, x) \/ (a.offset <= x /\ x < a.offset + size)
    BY <2>2, <2>3, <2>4, <2>5, FreedAddsTheBytes
  <2>7. /\ chunks' \in [1 .. Buffers -> Seq(Chunk)]
        /\ \A b \in 1 .. Buffers : /\ DOMAIN chunks'[b] = DOMAIN chunks[b]
                                   /\ Len(chunks'[b]) = Len(chunks[b])
        /\ chunks'[a.buffer][a.chunk].free = free2
        /\ chunks'[a.buffer][a.chunk].max_size = chunks[a.buffer][a.chunk].max_size
        /\ \A b \in 1 .. Buffers : \A c \in DOMAIN chunks[b] :
               ~(b = a.buffer /\ c = a.chunk) => chunks'[b][c] = chunks[b][c]
    <3>1. chunks' = [chunks EXCEPT ![a.buffer] = [chunks[a.buffer] EXCEPT ![a.chunk].free = free2]]
      BY <2>1 DEF FreeBytes
    <3>. HIDE DEF a, size, old, free2
    <3>. QED
      BY <2>2, <2>6, <3>1, ReleaseType
  <2>8. TableInv'
    <3>1. /\ allocated \in [Tensors(graph) -> BOOLEAN] /\ addr \in [Tensors(graph) -> AddrType]
          /\ \A b \in 1 .. Buffers : Len(chunks[b]) <= MaxChunks
          /\ \A u \in Tensors(graph) : allocated[u] =>
                /\ Owns(graph, u) /\ addr[u].buffer \in 1 .. Buffers
                /\ addr[u].chunk \in DOMAIN chunks[addr[u].buffer]
      BY DEF MemInv, TableInv
    <3>2. graph' = graph /\ addr' = addr /\ allocated' \in [Tensors(graph) -> BOOLEAN]
          /\ \A u \in Tensors(graph) : allocated'[u] => allocated[u]
      BY <2>1, <3>1
    <3>3. \A b \in 1 .. Buffers : Len(chunks'[b]) <= MaxChunks
      BY <2>7, <3>1
    <3>4. \A u \in Tensors(graph) : allocated'[u] =>
             /\ Owns(graph, u) /\ addr'[u].buffer \in 1 .. Buffers
             /\ addr'[u].chunk \in DOMAIN chunks'[addr'[u].buffer]
      BY <2>7, <3>1, <3>2
    <3>. QED
      BY <2>7, <3>1, <3>2, <3>3, <3>4 DEF TableInv, Tensors, Owns, IsView
  <2>9. ASSUME NEW b, NEW c, NEW x \in Nat
        PROVE  owners(b, c)'[x] = owners(b, c)[x] \ {r}
    <3>1. allocated \in [Tensors(graph) -> BOOLEAN]
      BY DEF MemInv, TableInv
    <3>2. \A t \in Tensors(graph) : allocated'[t] <=> allocated[t] /\ t # r
      BY <2>1, <3>1
    <3>3. Tensors(graph)' = Tensors(graph)
      BY <2>1 DEF Tensors
    <3>4. \A t : Covers(t, addr[t], b, c, x)' <=> Covers(t, addr[t], b, c, x)
      BY <2>1 DEF Covers, T
    <3>5. owners(b, c)'[x] = {t \in Tensors(graph)' : allocated'[t] /\ Covers(t, addr[t], b, c, x)'}
      BY DEF owners
    <3>6. owners(b, c)[x] = {t \in Tensors(graph) : allocated[t] /\ Covers(t, addr[t], b, c, x)}
      BY DEF owners
    <3>. QED
      BY <3>2, <3>3, <3>4, <3>5, <3>6
  <2>10. ASSUME NEW b \in 1 .. Buffers, NEW c \in DOMAIN chunks'[b]
         PROVE  Parted(chunks'[b][c].free, chunks'[b][c].max_size, owners(b, c)')
    <3>. DEFINE own == owners(b, c)  own2 == owners(b, c)'
    <3>1. Parted(chunks[b][c].free, chunks[b][c].max_size, own)
      BY <2>7, <2>10 DEF MemInv, PartedInv
    <3>2. \A x \in Nat : own2[x] = own[x] \ {r}
      BY <2>9
    <3>3. CASE b = a.buffer /\ c = a.chunk
      <4>. HIDE DEF own, own2, a, free2, old, size
      <4>1. Parted(old, chunks[b][c].max_size, own)
        BY <3>1, <3>3 DEF old
      <4>2. \A x \in Nat : a.offset <= x /\ x < a.offset + size => own[x] = {r} /\ ~InFree(old, x)
        BY <2>3, <3>3 DEF own
      <4>3. \A x \in Nat : ~(a.offset <= x /\ x < a.offset + size) => own2[x] = own[x]
        <5>1. ASSUME NEW x \in Nat, r \in own[x] PROVE a.offset <= x /\ x < a.offset + size
          BY <5>1 DEF own, owners, Covers, a, size
        <5>. QED
          BY <3>2, <5>1
      <4>4. \A x \in Nat : a.offset <= x /\ x < a.offset + size => own2[x] = {}
        BY <3>2, <4>2
      <4>5. Parted(free2, chunks[b][c].max_size, own2)
        <5>1. \A x \in Nat : InFree(free2, x) => own2[x] = {}
          BY <2>6, <4>1, <4>3, <4>4 DEF Parted
        <5>2. \A x \in Nat : \A t, u \in own2[x] : t = u
          BY <3>2, <4>1 DEF Parted
        <5>3. \A x \in Nat : (InFree(free2, x) \/ own2[x] # {}) <=> (InFree(old, x) \/ own[x] # {})
          BY <2>6, <4>2, <4>3, <4>4
        <5>. QED
          BY <2>6, <4>1, <5>1, <5>2, <5>3, PartedStays
      <4>. QED
        BY <2>7, <3>3, <4>5 DEF own2
    <3>4. CASE ~(b = a.buffer /\ c = a.chunk)
      <4>1. chunks'[b][c] = chunks[b][c]
        BY <2>7, <2>10, <3>4
      <4>2. \A x \in Nat : r \notin own[x]
        BY <3>4 DEF owners, Covers
      <4>3. \A x \in Nat : own2[x] = own[x]
        BY <3>2, <4>2
      <4>. HIDE DEF own, own2
      <4>4. Parted(chunks[b][c].free, chunks[b][c].max_size, own2)
        BY <3>1, <4>3 DEF Parted
      <4>. QED
        BY <4>1, <4>4 DEF own2
    <3>. QED
      BY <3>3, <3>4
  <2>. QED
    BY <2>8, <2>10 DEF MemInv, PartedInv
<1>. QED
  BY <1>1, <1>2

\* Where tensor t owns a byte after a step that gives it addr'[t] and takes it
\* away from the tensors of gone.
LEMMA OwnersAfter ==
  ASSUME NEW t \in Tensors(graph), NEW gone \in SUBSET Tensors(graph), graph' = graph,
         MemInv, t \notin gone, ~allocated[t],
         \A u \in Tensors(graph) : allocated'[u] <=> u = t \/ (allocated[u] /\ u \notin gone),
         \A u \in Tensors(graph) : u # t => addr'[u] = addr[u],
         NEW b, NEW c, NEW x \in Nat
  PROVE  /\ owners(b, c)'[x] = (owners(b, c)[x] \ gone)
                               \cup (IF Covers(t, addr'[t], b, c, x) THEN {t} ELSE {})
         /\ t \notin owners(b, c)[x]
<1>3. Tensors(graph)' = Tensors(graph)
  BY DEF Tensors
<1>4. \A u \in Tensors(graph) : Covers(u, addr[u], b, c, x)' <=> Covers(u, addr'[u], b, c, x)
  BY DEF Covers, T
<1>5. owners(b, c)'[x] = {u \in Tensors(graph)' : allocated'[u] /\ Covers(u, addr[u], b, c, x)'}
  BY DEF owners
<1>6. owners(b, c)[x] = {u \in Tensors(graph) : allocated[u] /\ Covers(u, addr[u], b, c, x)}
  BY DEF owners
<1>7. \A u \in Tensors(graph) : u # t => (Covers(u, addr'[u], b, c, x) <=> Covers(u, addr[u], b, c, x))
  OBVIOUS
<1>. QED
  BY <1>3, <1>4, <1>5, <1>6, <1>7

LEMMA ReuseKeepsMem ==
  ASSUME MemInv, WellFormed(graph), NEW t \in Tensors(graph), ~allocated[t], Owns(graph, t),
         Reuse(t), graph' = graph
  PROVE  MemInv'
<1>1. PICK j \in DOMAIN T(t).src :
        LET s == T(t).src[j]
        IN  /\ Reuses(t, j)
            /\ addr' = [addr EXCEPT ![t] = addr[s]]
            /\ allocated' = [allocated EXCEPT ![t] = TRUE, ![s] = FALSE]
            /\ IF Extra(t, s) > 0 THEN Release(ExtraAt(t, s), Extra(t, s)) ELSE UNCHANGED chunks
  BY DEF Reuse
<1>. DEFINE s == T(t).src[j]  b0 == addr[s].buffer  c0 == addr[s].chunk  off == addr[s].offset
            st == aligned(T(t).size)  sz == aligned(T(s).size)
            old == chunks[b0][c0].free
<1>2. /\ s \in Tensors(graph) /\ s # t /\ allocated[s]
      /\ T(t).op = "inplace" /\ T(s).layout = T(t).layout
  <2>1. s \in Tensors(graph) /\ s < t /\ t \in Nat
    BY SourceFacts, TensorFacts DEF T
  <2>2. t # s
    BY <2>1, TensorFacts
  <2>3. Reuses(t, j)
    BY <1>1
  <2>. HIDE DEF s
  <2>. QED
    BY <2>1, <2>2, <2>3 DEF Reuses, Reusable, Own, s
<1>3. st <= sz /\ st \in Nat \ {0} /\ sz \in Nat \ {0}
  BY <1>2, SourceFacts, TensorFacts DEF T
<1>4. /\ addr' = [addr EXCEPT ![t] = addr[s]]
      /\ allocated' = [allocated EXCEPT ![t] = TRUE, ![s] = FALSE]
      /\ IF sz - st > 0 THEN Release(ExtraAt(t, s), sz - st) ELSE UNCHANGED chunks
  BY <1>1 DEF Extra
<1>. HIDE DEF s
<1>5. /\ b0 \in 1 .. Buffers /\ c0 \in DOMAIN chunks[b0] /\ off \in Nat
      /\ Parted(old, chunks[b0][c0].max_size, owners(b0, c0))
  BY <1>2, LiveBytes
<1>6. \A x \in Nat : off <= x /\ x < off + sz => owners(b0, c0)[x] = {s} /\ ~InFree(old, x)
  BY <1>2, LiveBytes
<1>7. allocated \in [Tensors(graph) -> BOOLEAN] /\ addr \in [Tensors(graph) -> AddrType]
  BY DEF MemInv, TableInv
<1>8. /\ \A u \in Tensors(graph) : allocated'[u] <=> u = t \/ (allocated[u] /\ u \notin {s})
      /\ \A u \in Tensors(graph) : u # t => addr'[u] = addr[u]
      /\ addr'[t] = addr[s]
      /\ addr' \in [Tensors(graph) -> AddrType] /\ allocated' \in [Tensors(graph) -> BOOLEAN]
  BY <1>2, <1>4, <1>7
<1>9. PICK free2 : /\ Tidy(free2)
                   /\ \A x \in Nat : InFree(free2, x) <=> InFree(old, x) \/ (off + st <= x /\ x < off + sz)
                   /\ chunks' = [chunks EXCEPT ![b0] = [chunks[b0] EXCEPT ![c0].free = free2]]
  <2>1. CASE sz - st > 0
    <3>. DEFINE F == Freed(old, off + st, sz - st)
    <3>1. ExtraAt(t, s).buffer = b0 /\ ExtraAt(t, s).chunk = c0 /\ ExtraAt(t, s).offset = off + st
      <4>1. addr[s] \in AddrType
        BY <1>2, <1>7
      <4>. QED
        BY <4>1 DEF ExtraAt, AddrType
    <3>2. chunks' = [chunks EXCEPT ![b0] = [chunks[b0] EXCEPT ![c0].free = F]]
      BY <1>4, <2>1, <3>1 DEF Release, FreeBytes
    <3>3. Tidy(old) /\ off + st \in Nat /\ sz - st \in Nat \ {0}
      <4>1. Tidy(old)
        BY <1>5, PartedSole
      <4>2. off \in Nat /\ st \in Nat /\ sz \in Nat
        BY <1>3, <1>5
      <4>3. sz - st \in Nat \ {0}
        BY <2>1, <4>2
      <4>. QED
        BY <4>1, <4>2, <4>3
    <3>4. \A x \in Nat : off + st <= x /\ x < off + st + (sz - st) => ~InFree(old, x)
      BY <1>3, <1>5, <1>6, SMTT(30)
    <3>. HIDE DEF old, off, st, sz
    <3>5. /\ Tidy(F)
          /\ \A x \in Nat : InFree(F, x) <=> InFree(old, x) \/ (off + st <= x /\ x < off + st + (sz - st))
      BY <3>3, <3>4, FreedAddsTheBytes
    <3>6. off + st + (sz - st) = off + sz
      BY <1>3, <1>5
    <3>. HIDE DEF F
    <3>. QED
      BY <3>2, <3>5, <3>6
  <2>2. CASE ~(sz - st > 0)
    <3>1. chunks' = chunks /\ st = sz
      BY <1>3, <1>4, <2>2
    <3>2. chunks = [chunks EXCEPT ![b0] = [chunks[b0] EXCEPT ![c0].free = old]]
      <4>1. chunks \in [1 .. Buffers -> Seq(Chunk)]
        BY DEF MemInv, TableInv
      <4>2. chunks[b0] \in Seq(Chunk) /\ chunks[b0][c0] \in Chunk
        BY <1>5, <4>1
      <4>3. [chunks[b0][c0] EXCEPT !.free = old] = chunks[b0][c0]
        BY <4>2 DEF Chunk
      <4>4. [chunks[b0] EXCEPT ![c0].free = old] = chunks[b0]
        BY <4>2, <4>3
      <4>. QED
        BY <4>1, <4>4
    <3>3. Tidy(old)
      BY <1>5 DEF Parted
    <3>4. \A x \in Nat : InFree(old, x) <=> InFree(old, x) \/ (off + st <= x /\ x < off + sz)
      BY <1>3, <1>5, <3>1
    <3>5. chunks' = [chunks EXCEPT ![b0] = [chunks[b0] EXCEPT ![c0].free = old]]
      BY <3>1, <3>2
    <3>. HIDE DEF old, st, sz, off, b0, c0
    <3>. QED
      BY <3>3, <3>4, <3>5
  <2>. QED
    BY <2>1, <2>2
<1>. HIDE DEF b0, c0
<1>10. /\ chunks' \in [1 .. Buffers -> Seq(Chunk)]
       /\ \A b \in 1 .. Buffers : /\ DOMAIN chunks'[b] = DOMAIN chunks[b]
                                  /\ Len(chunks'[b]) = Len(chunks[b])
       /\ chunks'[b0][c0].free = free2
       /\ chunks'[b0][c0].max_size = chunks[b0][c0].max_size
       /\ \A b \in 1 .. Buffers : \A c \in DOMAIN chunks[b] :
              ~(b = b0 /\ c = c0) => chunks'[b][c] = chunks[b][c]
  BY <1>5, <1>9, ReleaseType
<1>11. TableInv'
  <2>1. ASSUME NEW u \in Tensors(graph), allocated'[u]
        PROVE  /\ Owns(graph, u)
               /\ addr'[u].buffer \in 1 .. Buffers /\ addr'[u].chunk \in DOMAIN chunks[addr'[u].buffer]
    <3>1. CASE u = t
      BY <1>5, <1>8, <3>1 DEF b0, c0
    <3>2. CASE u # t
      BY <1>8, <2>1, <3>2 DEF MemInv, TableInv
    <3>. QED
      BY <3>1, <3>2
  <2>. QED
    BY <1>8, <1>10, <2>1 DEF MemInv, TableInv, Tensors, Owns, IsView
<1>12. ASSUME NEW b, NEW c, NEW x \in Nat
       PROVE  /\ owners(b, c)'[x] = (owners(b, c)[x] \ {s})
                                    \cup (IF b = b0 /\ c = c0 /\ off <= x /\ x < off + st THEN {t} ELSE {})
              /\ t \notin owners(b, c)[x]
  <2>1. Covers(t, addr'[t], b, c, x) <=> b = b0 /\ c = c0 /\ off <= x /\ x < off + st
    BY <1>8 DEF Covers, b0, c0
  <2>2. {s} \in SUBSET Tensors(graph) /\ t \notin {s}
    BY <1>2
  <2>3. /\ owners(b, c)'[x] = (owners(b, c)[x] \ {s})
                               \cup (IF Covers(t, addr'[t], b, c, x) THEN {t} ELSE {})
        /\ t \notin owners(b, c)[x]
    BY <1>8, <2>2, OwnersAfter
  <2>. QED
    BY <2>1, <2>3
<1>13. ASSUME NEW b \in 1 .. Buffers, NEW c \in DOMAIN chunks'[b]
       PROVE  Parted(chunks'[b][c].free, chunks'[b][c].max_size, owners(b, c)')
  <2>. DEFINE own == owners(b, c)  own2 == owners(b, c)'  top == chunks[b][c].max_size
  <2>1. Parted(chunks[b][c].free, top, own)
    BY <1>10, <1>13 DEF MemInv, PartedInv
  <2>2. CASE b = b0 /\ c = c0
    <3>1. \A x \in Nat : off <= x /\ x < off + sz => own[x] = {s} /\ ~InFree(old, x)
      BY <1>6, <2>2
    <3>2. \A x \in Nat : s \in own[x] => off <= x /\ x < off + sz
      BY DEF owners, Covers
    <3>3. \A x \in Nat : own2[x] = (own[x] \ {s}) \cup (IF off <= x /\ x < off + st THEN {t} ELSE {})
      BY <1>12, <2>2
    <3>4. Parted(old, top, own)
      BY <2>1, <2>2
    <3>5. off \in Nat /\ st \in Nat /\ sz \in Nat /\ st <= sz
      BY <1>3, <1>5
    <3>. HIDE DEF own, own2, old, off, st, sz, top
    <3>6. \A x \in Nat : /\ off <= x /\ x < off + st => own2[x] = {t} /\ own[x] = {s}
                         /\ off + st <= x /\ x < off + sz => own2[x] = {} /\ own[x] = {s}
                         /\ ~(off <= x /\ x < off + sz) => own2[x] = own[x]
      <4>1. ASSUME NEW x \in Nat, off <= x, x < off + st PROVE own2[x] = {t} /\ own[x] = {s}
        BY <3>1, <3>3, <3>5, <4>1
      <4>2. ASSUME NEW x \in Nat, off + st <= x, x < off + sz PROVE own2[x] = {} /\ own[x] = {s}
        BY <3>1, <3>3, <3>5, <4>2
      <4>3. ASSUME NEW x \in Nat, ~(off <= x /\ x < off + sz) PROVE own2[x] = own[x]
        <5>1. s \notin own[x]
          BY <3>2, <4>3
        <5>2. ~(off <= x /\ x < off + st)
          BY <3>5, <4>3
        <5>. QED
          BY <3>3, <5>1, <5>2
      <4>. QED
        BY <4>1, <4>2, <4>3
    <3>7. \A x \in Nat : InFree(free2, x) => own2[x] = {}
      BY <1>9, <3>1, <3>4, <3>5, <3>6 DEF Parted
    <3>8. \A x \in Nat : \A u, v \in own2[x] : u = v
      BY <3>4, <3>5, <3>6 DEF Parted
    <3>9. \A x \in Nat : (InFree(free2, x) \/ own2[x] # {}) <=> (InFree(old, x) \/ own[x] # {})
      BY <1>9, <3>5, <3>6
    <3>10. Parted(free2, top, own2)
      BY <1>9, <3>4, <3>7, <3>8, <3>9, PartedStays
    <3>. QED
      BY <1>10, <2>2, <3>10 DEF own2, top
  <2>3. CASE ~(b = b0 /\ c = c0)
    <3>1. chunks'[b][c] = chunks[b][c]
      BY <1>10, <1>13, <2>3
    <3>2. ASSUME NEW x \in Nat PROVE s \notin own[x]
      <4>1. s \in own[x] => addr[s].buffer = b /\ addr[s].chunk = c
        BY DEF owners, Covers
      <4>. QED
        BY <2>3, <4>1 DEF b0, c0
    <3>3. ASSUME NEW x \in Nat PROVE own2[x] = own[x]
      <4>1. own2[x] = (own[x] \ {s})
                      \cup (IF b = b0 /\ c = c0 /\ off <= x /\ x < off + st THEN {t} ELSE {})
        BY <1>12
      <4>2. s \notin own[x]
        BY <3>2
      <4>. HIDE DEF own, own2
      <4>. QED
        BY <2>3, <4>1, <4>2
    <3>. HIDE DEF own, own2, top
    <3>4. Parted(chunks[b][c].free, top, own2)
      BY <2>1, <3>3 DEF Parted
    <3>. QED
      BY <3>1, <3>4 DEF own2, top
  <2>. QED
    BY <2>2, <2>3
<1>. QED
  BY <1>11, <1>13 DEF MemInv, PartedInv

\* A new chunk has one block, large enough, and no byte of it is handed out.
LEMMA NewChunkIsFree ==
  ASSUME NEW cs \in Seq(Chunk), NEW size \in Nat \ {0}, size <= Endless
  PROVE  LET new == NewChunk(cs, size)  n == Len(cs) + 1
         IN  /\ new \in Seq(Chunk) /\ Len(new) = n
             /\ \A c \in DOMAIN cs : c \in DOMAIN new /\ new[c] = cs[c]
             /\ \A c \in DOMAIN new : c \in DOMAIN cs \/ c = n
             /\ n \in DOMAIN new /\ Tidy(new[n].free) /\ new[n].max_size = 0
             /\ DOMAIN new[n].free = {1} /\ new[n].free[1].offset = 0
             /\ new[n].free[1].size >= size
<1>. DEFINE big == IF Len(cs) = MaxChunks - 1 THEN Endless ELSE Max({size, MaxChunkSize})
            B == [offset |-> 0, size |-> big]  k == [free |-> <<B>>, max_size |-> 0]
            new == NewChunk(cs, size)  n == Len(cs) + 1
<1>1. Endless \in Nat /\ MaxChunkSize \in Nat
  BY TallocrAssumption DEF TallocrAssumption
<1>2. /\ Max({size, MaxChunkSize}) \in {size, MaxChunkSize}
      /\ size <= Max({size, MaxChunkSize})
  BY <1>1, MaxOfTwo
<1>3. big \in Nat /\ big >= size
  BY <1>1, <1>2
<1>4. new = Append(cs, k)
  BY DEF NewChunk
<1>. HIDE DEF big, new
<1>5. B \in Block /\ B.offset = 0 /\ B.size = big /\ B.size > 0
  BY <1>3 DEF Block
<1>6. <<B>> \in Seq(Block) /\ DOMAIN <<B>> = {1} /\ <<B>>[1] = B
  BY <1>5
<1>. HIDE DEF B
<1>7. Tidy(<<B>>)
  BY <1>5, <1>6 DEF Tidy
<1>8. k \in Chunk /\ k.free = <<B>> /\ k.max_size = 0
  BY <1>6 DEF Chunk
<1>. HIDE DEF k
<1>9. /\ new \in Seq(Chunk) /\ Len(new) = n /\ DOMAIN new = 1 .. n
      /\ \A c \in 1 .. Len(cs) : new[c] = cs[c]
      /\ new[n] = k
  BY <1>4, <1>8
<1>10. DOMAIN cs = 1 .. Len(cs) /\ Len(cs) \in Nat
  OBVIOUS
<1>. QED
  BY <1>3, <1>5, <1>6, <1>7, <1>8, <1>9, <1>10 DEF new

\* The block an allocation is cut from is there, and large enough.
LEMMA ChosenFits ==
  ASSUME NEW cs \in Seq(Chunk), NEW size \in Nat, NEW p, Chosen(cs, size, p)
  PROVE  \E c \in DOMAIN cs : \E i \in DOMAIN cs[c].free :
            p = <<c, i>> /\ cs[c].free[i].size >= size
<1>1. p \in InnerBlocks(cs) \cup LastBlocks(cs) /\ BlockAt(cs, p).size >= size
  BY DEF Chosen, Fitting
<1>2. ASSUME NEW c \in DOMAIN cs PROVE cs[c].free \in Seq(Block)
  <2>1. cs[c] \in Chunk
    OBVIOUS
  <2>. QED
    BY <2>1 DEF Chunk
<1>3. PICK c \in DOMAIN cs : \E i \in DOMAIN cs[c].free : p = <<c, i>>
  <2>1. CASE p \in InnerBlocks(cs)
    <3>1. PICK c \in DOMAIN cs : p \in {<<c, i>> : i \in 1 .. Len(cs[c].free) - 1}
      BY <2>1 DEF InnerBlocks
    <3>2. PICK i \in 1 .. Len(cs[c].free) - 1 : p = <<c, i>>
      BY <3>1
    <3>3. i \in DOMAIN cs[c].free
      BY <1>2
    <3>. QED
      BY <3>2, <3>3
  <2>2. CASE p \in LastBlocks(cs)
    <3>1. PICK c \in DOMAIN cs : cs[c].free # <<>> /\ p = <<c, Len(cs[c].free)>>
      BY <2>2 DEF LastBlocks
    <3>2. Len(cs[c].free) \in DOMAIN cs[c].free
      BY <1>2, <3>1
    <3>. QED
      BY <3>1, <3>2
  <2>. QED
    BY <1>1, <2>1, <2>2
<1>. QED
  BY <1>1, <1>3 DEF BlockAt

LEMMA AllocateKeepsMem ==
  ASSUME MemInv, WellFormed(graph), NEW t \in Tensors(graph), ~allocated[t], Owns(graph, t),
         Allocate(t), graph' = graph
  PROVE  MemInv'
<1>. DEFINE b0 == T(t).buffer  size == aligned(T(t).size)
            full == Full(chunks[b0], size)
            cs == IF full THEN NewChunk(chunks[b0], size) ELSE chunks[b0]
<1>1. /\ b0 \in 1 .. Buffers /\ size \in Nat \ {0} /\ size <= Endless
  BY TensorFacts DEF T
<1>2. PICK p : /\ IF full THEN p = <<Len(cs), 1>> ELSE Chosen(cs, size, p)
               /\ addr' = [addr EXCEPT ![t] =
                             [buffer |-> b0, chunk |-> p[1], offset |-> BlockAt(cs, p).offset]]
               /\ chunks' = [chunks EXCEPT ![b0] = Cut(cs, p, size)]
  BY DEF Allocate
<1>3. /\ allocated' = [allocated EXCEPT ![t] = TRUE]
      /\ full => Len(chunks[b0]) < MaxChunks
  BY DEF Allocate
<1>4. /\ chunks \in [1 .. Buffers -> Seq(Chunk)] /\ chunks[b0] \in Seq(Chunk)
      /\ allocated \in [Tensors(graph) -> BOOLEAN] /\ addr \in [Tensors(graph) -> AddrType]
      /\ Len(chunks[b0]) <= MaxChunks
  BY <1>1 DEF MemInv, TableInv
<1>. HIDE DEF b0, size
<1>5. \A c, x : x \in Nat /\ c \notin DOMAIN chunks[b0] => owners(b0, c)[x] = {}
  BY DEF owners, Covers, MemInv, TableInv
<1>6. /\ cs \in Seq(Chunk) /\ Len(cs) <= MaxChunks /\ DOMAIN cs = 1 .. Len(cs)
      /\ \A c \in DOMAIN chunks[b0] : c \in DOMAIN cs
      /\ \A c \in DOMAIN cs : Parted(cs[c].free, cs[c].max_size, owners(b0, c))
      /\ \E c \in DOMAIN cs : \E i \in DOMAIN cs[c].free : p = <<c, i>> /\ cs[c].free[i].size >= size
  <2>1. \A c \in DOMAIN chunks[b0] : Parted(chunks[b0][c].free, chunks[b0][c].max_size, owners(b0, c))
    BY <1>1 DEF MemInv, PartedInv
  <2>2. CASE ~full
    <3>1. cs = chunks[b0] /\ Chosen(cs, size, p)
      BY <1>2, <2>2
    <3>. HIDE DEF cs
    <3>. QED
      BY <1>1, <1>4, <2>1, <3>1, ChosenFits
  <2>3. CASE full
    <3>. DEFINE n == Len(chunks[b0]) + 1
    <3>1. cs = NewChunk(chunks[b0], size) /\ p = <<Len(cs), 1>>
      BY <1>2, <2>3
    <3>. HIDE DEF cs
    <3>2. /\ cs \in Seq(Chunk) /\ Len(cs) = n
          /\ \A c \in DOMAIN chunks[b0] : c \in DOMAIN cs /\ cs[c] = chunks[b0][c]
          /\ \A c \in DOMAIN cs : c \in DOMAIN chunks[b0] \/ c = n
          /\ n \in DOMAIN cs /\ Tidy(cs[n].free) /\ cs[n].max_size = 0
          /\ DOMAIN cs[n].free = {1} /\ cs[n].free[1].offset = 0
          /\ cs[n].free[1].size >= size
      BY <1>1, <1>4, <3>1, NewChunkIsFree
    <3>3. n \notin DOMAIN chunks[b0] /\ n <= MaxChunks
      BY <1>3, <1>4, <2>3, TallocrAssumption DEF TallocrAssumption
    <3>4. \A x \in Nat : owners(b0, n)[x] = {}
      BY <1>5, <3>3
    <3>5. \A x, y \in Nat : y <= x /\ InFree(cs[n].free, x) => InFree(cs[n].free, y)
      <4>1. cs[n].free[1].offset = 0 /\ End(cs[n].free[1]) \in Nat
        BY <3>2, TidyBlock
      <4>2. \A x \in Nat : InFree(cs[n].free, x) <=> x < End(cs[n].free[1])
        BY <3>2, <4>1 DEF InFree, InBlock
      <4>. QED
        BY <4>1, <4>2
    <3>6. Parted(cs[n].free, cs[n].max_size, owners(b0, n))
      BY <3>2, <3>4, <3>5 DEF Parted
    <3>7. \A c \in DOMAIN cs : Parted(cs[c].free, cs[c].max_size, owners(b0, c))
      BY <2>1, <3>2, <3>6
    <3>8. n \in DOMAIN cs /\ 1 \in DOMAIN cs[n].free /\ p = <<n, 1>>
      BY <3>1, <3>2
    <3>. HIDE DEF n
    <3>. QED
      BY <3>2, <3>3, <3>7, <3>8
  <2>. QED
    BY <2>2, <2>3
<1>7. PICK c0 \in DOMAIN cs : \E i \in DOMAIN cs[c0].free : p = <<c0, i>> /\ cs[c0].free[i].size >= size
  BY <1>6
<1>8. PICK i \in DOMAIN cs[c0].free : p = <<c0, i>> /\ cs[c0].free[i].size >= size
  BY <1>7
<1>. HIDE DEF cs, full
<1>. DEFINE off == cs[c0].free[i].offset  new == Cut(cs, p, size)
<1>9. Tidy(cs[c0].free) /\ off \in Nat
  <2>1. Tidy(cs[c0].free)
    BY <1>6 DEF Parted
  <2>. QED
    BY <2>1, TidyBlock
<1>10. /\ new \in Seq(Chunk) /\ DOMAIN new = DOMAIN cs /\ Len(new) = Len(cs)
       /\ \A d \in DOMAIN cs : d # c0 => new[d] = cs[d]
       /\ Tidy(new[c0].free)
       /\ new[c0].max_size \in {cs[c0].max_size, off + size}
       /\ \A x \in Nat : off <= x /\ x < off + size => InFree(cs[c0].free, x)
       /\ \A x \in Nat : InFree(new[c0].free, x)
             <=> InFree(cs[c0].free, x) /\ ~(off <= x /\ x < off + size)
  <2>1. new = Cut(cs, <<c0, i>>, size)
    BY <1>8
  <2>2. /\ cs \in Seq(Chunk) /\ Tidy(cs[c0].free) /\ size \in Nat \ {0}
        /\ cs[c0].free[i].size >= size
    BY <1>1, <1>6, <1>8, <1>9
  <2>. HIDE DEF new
  <2>. QED
    BY <2>1, <2>2, CutTakesTheBytes
<1>. HIDE DEF new, off
<1>11. /\ chunks' \in [1 .. Buffers -> Seq(Chunk)] /\ chunks'[b0] = new
       /\ \A b \in 1 .. Buffers : b # b0 => chunks'[b] = chunks[b]
  BY <1>1, <1>2, <1>4, <1>10 DEF new
<1>12. /\ addr'[t] = [buffer |-> b0, chunk |-> c0, offset |-> off]
       /\ \A u \in Tensors(graph) : u # t => addr'[u] = addr[u]
       /\ \A u \in Tensors(graph) : allocated'[u] <=> u = t \/ (allocated[u] /\ u \notin {})
       /\ addr' \in [Tensors(graph) -> AddrType] /\ allocated' \in [Tensors(graph) -> BOOLEAN]
  <2>1. BlockAt(cs, p) = cs[c0].free[i] /\ p[1] = c0
    BY <1>8 DEF BlockAt
  <2>2. c0 \in 0 .. MaxChunks
    BY <1>6, TallocrAssumption DEF TallocrAssumption
  <2>3. [buffer |-> b0, chunk |-> c0, offset |-> off] \in AddrType
    BY <1>1, <1>9, <2>2 DEF AddrType
  <2>4. addr' = [addr EXCEPT ![t] = [buffer |-> b0, chunk |-> c0, offset |-> off]]
    BY <1>2, <2>1 DEF off
  <2>. QED
    BY <1>3, <1>4, <2>3, <2>4
<1>13. TableInv'
  <2>1. ASSUME NEW u \in Tensors(graph), allocated'[u]
        PROVE  /\ Owns(graph, u)
               /\ addr'[u].buffer \in 1 .. Buffers /\ addr'[u].chunk \in DOMAIN chunks'[addr'[u].buffer]
    <3>1. CASE u = t
      BY <1>1, <1>10, <1>11, <1>12, <3>1
    <3>2. CASE u # t
      <4>1. /\ Owns(graph, u) /\ addr'[u] = addr[u]
            /\ addr[u].buffer \in 1 .. Buffers /\ addr[u].chunk \in DOMAIN chunks[addr[u].buffer]
        BY <1>12, <2>1, <3>2 DEF MemInv, TableInv
      <4>. QED
        BY <1>6, <1>10, <1>11, <4>1
    <3>. QED
      BY <3>1, <3>2
  <2>2. \A b \in 1 .. Buffers : Len(chunks'[b]) <= MaxChunks
    BY <1>6, <1>10, <1>11 DEF MemInv, TableInv
  <2>. QED
    BY <1>11, <1>12, <2>1, <2>2 DEF TableInv, Tensors, Owns, IsView
<1>14. ASSUME NEW b, NEW c, NEW x \in Nat
       PROVE  /\ owners(b, c)'[x] = owners(b, c)[x]
                    \cup (IF b = b0 /\ c = c0 /\ off <= x /\ x < off + size THEN {t} ELSE {})
              /\ t \notin owners(b, c)[x]
  <2>1. Covers(t, addr'[t], b, c, x) <=> b = b0 /\ c = c0 /\ off <= x /\ x < off + size
    BY <1>12 DEF Covers, size
  <2>2. PICK gone \in SUBSET Tensors(graph) : gone = {}
    OBVIOUS
  <2>3. /\ t \notin gone
        /\ \A u \in Tensors(graph) : allocated'[u] <=> u = t \/ (allocated[u] /\ u \notin gone)
    BY <1>12, <2>2
  <2>4. /\ owners(b, c)'[x] = (owners(b, c)[x] \ gone)
                               \cup (IF Covers(t, addr'[t], b, c, x) THEN {t} ELSE {})
        /\ t \notin owners(b, c)[x]
    BY <1>12, <2>3, OwnersAfter
  <2>. QED
    BY <2>1, <2>2, <2>4
<1>15. ASSUME NEW b \in 1 .. Buffers, NEW c \in DOMAIN chunks'[b]
       PROVE  Parted(chunks'[b][c].free, chunks'[b][c].max_size, owners(b, c)')
  <2>. DEFINE own == owners(b, c)  own2 == owners(b, c)'
  <2>1. CASE b = b0 /\ c = c0
    <3>. DEFINE old == cs[c0].free  top == cs[c0].max_size  free2 == new[c0].free  top2 == new[c0].max_size
    <3>1. Parted(old, top, own)
      BY <1>6, <2>1
    <3>2. /\ Tidy(free2) /\ top2 \in {top, off + size}
          /\ \A x \in Nat : off <= x /\ x < off + size => InFree(old, x)
          /\ \A x \in Nat : InFree(free2, x) <=> InFree(old, x) /\ ~(off <= x /\ x < off + size)
      BY <1>10
    <3>3. \A x \in Nat : own2[x] = own[x] \cup (IF off <= x /\ x < off + size THEN {t} ELSE {})
      BY <1>14, <2>1
    <3>4. off \in Nat /\ size \in Nat \ {0}
      BY <1>1, <1>9
    <3>5. chunks'[b][c].free = free2 /\ chunks'[b][c].max_size = top2
      BY <1>11, <2>1
    <3>. HIDE DEF own, own2, old, top, free2, top2
    <3>6. \A x \in Nat : off <= x /\ x < off + size => own[x] = {} /\ own2[x] = {t}
      BY <3>1, <3>2, <3>3 DEF Parted
    <3>7. \A x \in Nat : ~(off <= x /\ x < off + size) => own2[x] = own[x]
      BY <3>3
    <3>8. \A x \in Nat : InFree(free2, x) => own2[x] = {}
      BY <3>1, <3>2, <3>7 DEF Parted
    <3>9. \A x \in Nat : \A u, v \in own2[x] : u = v
      BY <3>1, <3>6, <3>7 DEF Parted
    <3>10. \A x \in Nat : (InFree(free2, x) \/ own2[x] # {}) <=> (InFree(old, x) \/ own[x] # {})
      BY <3>2, <3>6, <3>7
    <3>11. \A x \in Nat : x < top2 => x < top \/ InFree(old, x) \/ own[x] # {}
      <4>1. ASSUME NEW x \in Nat, x < off + size PROVE InFree(old, x) \/ own[x] # {}
        <5>1. CASE off <= x
          BY <3>2, <4>1, <5>1
        <5>2. CASE ~(off <= x)
          <6>1. InFree(old, off) /\ x <= off
            BY <3>2, <3>4, <5>2
          <6>. QED
            BY <3>1, <3>4, <6>1 DEF Parted
        <5>. QED
          BY <5>1, <5>2
      <4>. QED
        BY <3>2, <4>1
    <3>12. Parted(free2, top2, own2)
      <4>1. Parted(old, top, own)
        BY <3>1
      <4>2. Tidy(free2)
        BY <3>2
      <4>. QED
        BY <3>8, <3>9, <3>10, <3>11, <4>1, <4>2, PartedStays
    <3>. QED
      BY <3>5, <3>12 DEF own2
  <2>2. CASE ~(b = b0 /\ c = c0)
    <3>1. Parted(chunks'[b][c].free, chunks'[b][c].max_size, own)
      <4>1. CASE b = b0
        <5>1. chunks'[b][c] = cs[c] /\ c \in DOMAIN cs
          BY <1>10, <1>11, <1>15, <2>2, <4>1
        <5>. QED
          BY <1>6, <4>1, <5>1
      <4>2. CASE b # b0
        BY <1>11, <1>15, <4>2 DEF MemInv, PartedInv
      <4>. QED
        BY <4>1, <4>2
    <3>2. ASSUME NEW x \in Nat PROVE own2[x] = own[x]
      <4>1. own2[x] = own[x] \cup (IF b = b0 /\ c = c0 /\ off <= x /\ x < off + size THEN {t} ELSE {})
        BY <1>14
      <4>. HIDE DEF own, own2
      <4>. QED
        BY <2>2, <4>1
    <3>. HIDE DEF own, own2
    <3>3. Parted(chunks'[b][c].free, chunks'[b][c].max_size, own2)
      BY <3>1, <3>2 DEF Parted
    <3>. QED
      BY <3>3 DEF own2
  <2>. QED
    BY <2>1, <2>2
<1>. QED
  BY <1>13, <1>15 DEF MemInv, PartedInv

LEMMA AllocateNodeKeepsMem ==
  ASSUME MemInv, WellFormed(graph), NEW t \in Tensors(graph), AllocateNode(t), graph' = graph
  PROVE  MemInv'
<1>1. CASE IsAllocated(t) \/ IsView(graph, t)
  BY <1>1, MemStays DEF AllocateNode
<1>2. CASE ~(IsAllocated(t) \/ IsView(graph, t))
  <2>1. ~allocated[t] /\ Owns(graph, t)
    BY <1>2 DEF IsAllocated, Own, Owns, T
  <2>2. Reuse(t) \/ Allocate(t)
    BY <1>2 DEF AllocateNode
  <2>. QED
    BY <2>1, <2>2, ReuseKeepsMem, AllocateKeepsMem
<1>. QED
  BY <1>1, <1>2

LEMMA NoGraphIsWellFormed == WellFormed(NoGraph)
BY DEF WellFormed, NoGraph, Tensors

MemoryInv == PlaceInv /\ (Walking => MemInv)

LEMMA StartWalkInv ==
  ASSUME NEW g, WellFormed(g), NEW who, StartWalk(g, who), graph' = g
  PROVE  MemoryInv'
<1>1. PlaceInv'
  BY DEF StartWalk, PlaceInv, Walking
<1>2. TableInv'
  <2>1. Nowhere \in AddrType
    BY GallocAssumption, TallocrAssumption DEF Nowhere, AddrType, GallocAssumption, TallocrAssumption
  <2>2. <<>> \in Seq(Chunk) /\ Len(<<>>) = 0 /\ 0 <= MaxChunks
    BY TallocrAssumption DEF TallocrAssumption
  <2>3. /\ chunks' = [b \in 1 .. Buffers |-> <<>>]
        /\ allocated' = [t \in Tensors(g) |-> FALSE] /\ addr' = [t \in Tensors(g) |-> Nowhere]
    BY DEF StartWalk
  <2>4. Tensors(graph)' = Tensors(g)
    BY DEF Tensors
  <2>. QED
    BY <2>1, <2>2, <2>3, <2>4 DEF TableInv
<1>3. PartedInv'
  BY DEF StartWalk, PartedInv
<1>. QED
  BY <1>1, <1>2, <1>3 DEF MemoryInv, MemInv

LEMMA NodeFacts ==
  ASSUME WellFormed(graph), at \in Nat
  PROVE  /\ at >= 1 /\ at <= Len(graph.tensors) => at \in Tensors(graph)
         /\ at >= 1 /\ at <= graph.leafs => at \in Tensors(graph)
         /\ graph.leafs \in Nat
<1>1. graph.leafs \in Nat /\ Len(graph.tensors) \in Nat /\ graph.leafs <= Len(graph.tensors)
      /\ Tensors(graph) = 1 .. Len(graph.tensors)
  BY DEF WellFormed, Tensors
<1>. QED
  BY <1>1

LEMMA ArgFacts ==
  ASSUME WellFormed(graph), NEW t \in Tensors(graph), arg \in Nat, arg >= 1, arg <= Len(T(t).src)
  PROVE  arg \in DOMAIN T(t).src /\ T(t).src[arg] \in Tensors(graph)
<1>1. T(t).src \in Seq(Nat)
  BY TensorFacts DEF T, TensorType
<1>2. arg \in DOMAIN T(t).src
  BY <1>1
<1>. QED
  BY <1>2, SourceFacts DEF T

LEMMA MemoryStep ==
  MemoryInv /\ [Next]_vars => MemoryInv'
<1>. SUFFICES ASSUME MemoryInv, [Next]_vars PROVE MemoryInv'
  OBVIOUS
<1>. USE DEF MemoryInv
<1>1. CASE NextGraph
  <2>1. PICK g \in Asked :
          /\ graph' = g
          /\ \/ StartWalk(g, "sched") \/ StartWalk(g, "alloc")
             \/ pc' = "place" /\ UNCHANGED walkVars
    BY <1>1 DEF NextGraph
  <2>2. WellFormed(g)
    BY <2>1 DEF Asked
  <2>3. CASE StartWalk(g, "sched") \/ StartWalk(g, "alloc")
    BY <2>1, <2>2, <2>3, StartWalkInv
  <2>4. CASE pc' = "place" /\ UNCHANGED walkVars
    BY <2>1, <2>2, <2>4 DEF PlaceInv, Walking, walkVars
  <2>. QED
    BY <2>1, <2>3, <2>4
<1>2. CASE AllocateLeaf
  <2>1. WellFormed(graph) /\ MemInv /\ at \in Tensors(graph) /\ AllocateNode(at) /\ graph' = graph
    BY <1>2, NodeFacts DEF PlaceInv, Walking, AllocateLeaf
  <2>2. MemInv'
    BY <2>1, AllocateNodeKeepsMem
  <2>. QED
    BY <1>2, <2>2 DEF PlaceInv, Walking, AllocateLeaf
<1>3. CASE EndLeafs \/ EndCount
  <2>1. MemInv /\ UNCHANGED <<graph, allocated, addr, chunks>> /\ WellFormed(graph)
    BY <1>3 DEF EndLeafs, EndCount, EndLoop, Walking, PlaceInv
  <2>2. MemInv'
    BY <2>1, MemStays
  <2>3. graph.leafs + 1 \in Nat /\ graph.leafs + 1 >= 1
    BY <2>1 DEF WellFormed
  <2>. QED
    BY <1>3, <2>2, <2>3 DEF EndLeafs, EndCount, EndLoop, Walking, PlaceInv
<1>4. CASE CountNode
  <2>1. WellFormed(graph) /\ MemInv /\ at \in Tensors(graph) /\ graph' = graph
    BY <1>4, NodeFacts DEF PlaceInv, Walking, CountNode
  <2>2. MemInv'
    <3>1. CASE T(at).input
      BY <1>4, <2>1, <3>1, AllocateNodeKeepsMem DEF CountNode
    <3>2. CASE ~T(at).input
      BY <1>4, <2>1, <3>2, MemStays DEF CountNode
    <3>. QED
      BY <3>1, <3>2
  <2>. QED
    BY <1>4, <2>2 DEF PlaceInv, Walking, CountNode
<1>5. CASE AllocateParent
  <2>1. WellFormed(graph) /\ MemInv /\ at \in Tensors(graph) /\ graph' = graph
    BY <1>5, NodeFacts DEF PlaceInv, Walking, AllocateParent
  <2>2. T(at).src[arg] \in Tensors(graph) /\ AllocateNode(T(at).src[arg])
    BY <1>5, <2>1, ArgFacts DEF PlaceInv, Walking, AllocateParent
  <2>3. MemInv'
    BY <2>1, <2>2, AllocateNodeKeepsMem
  <2>. QED
    BY <1>5, <2>3 DEF PlaceInv, Walking, AllocateParent
<1>6. CASE AllocateResult
  <2>1. WellFormed(graph) /\ MemInv /\ at \in Tensors(graph) /\ graph' = graph /\ AllocateNode(at)
    BY <1>6, NodeFacts DEF PlaceInv, Walking, AllocateResult
  <2>2. MemInv'
    BY <2>1, AllocateNodeKeepsMem
  <2>3. at \in Tensors(graph)'
    BY <2>1 DEF Tensors
  <2>. QED
    BY <1>6, <2>2, <2>3 DEF PlaceInv, Walking, AllocateResult
<1>7. CASE FreeParent
  <2>. DEFINE s == T(at).src[arg]  r == Root(graph, s)
  <2>1. WellFormed(graph) /\ MemInv /\ at \in Tensors(graph) /\ graph' = graph /\ addr' = addr
    BY <1>7 DEF PlaceInv, Walking, FreeParent
  <2>2. s \in Tensors(graph)
    BY <1>7, <2>1, ArgFacts DEF PlaceInv, Walking, FreeParent
  <2>3. r \in Tensors(graph)
    BY <2>1, <2>2, RootFacts
  <2>4. IF Dies(s) THEN FreeNode(r) ELSE UNCHANGED <<allocated, chunks>>
    BY <1>7 DEF FreeParent
  <2>5. MemInv'
    <3>1. CASE Dies(s)
      <4>1. allocated[r]
        BY <3>1 DEF Dies
      <4>. QED
        BY <2>1, <2>3, <2>4, <3>1, <4>1, FreeNodeKeepsMem
    <3>2. CASE ~Dies(s)
      BY <2>1, <2>4, <3>2, MemStays
    <3>. QED
      BY <3>1, <3>2
  <2>6. at \in Tensors(graph)'
    BY <2>1 DEF Tensors
  <2>. QED
    BY <1>7, <2>5, <2>6 DEF PlaceInv, Walking, FreeParent
<1>8. CASE NextNode
  <2>1. MemInv'
    BY <1>8, MemStays DEF NextNode, Walking
  <2>. QED
    BY <1>8, <2>1 DEF NextNode, PlaceInv, Walking
<1>9. CASE Abort \/ SavePlan \/ EndReserve \/ Place
  BY <1>9 DEF Abort, SavePlan, EndReserve, Place, PlaceInv, Walking, walkVars
<1>10. CASE ReserveBuffer
  BY <1>10 DEF ReserveBuffer, PlaceInv, Walking
<1>11. CASE ReserveFails
  <2>1. CASE caller = "alloc"
    <3>1. StartWalk(graph, "sched") /\ graph' = graph /\ chunks[at] # <<>> /\ pc = "buffers"
      BY <1>11, <2>1 DEF ReserveFails
    <3>2. graph = NoGraph \/ WellFormed(graph)
      BY DEF PlaceInv
    <3>. QED
      BY <3>1, <3>2, StartWalkInv, NoGraphIsWellFormed
  <2>2. CASE caller # "alloc"
    BY <1>11, <2>2 DEF ReserveFails, PlaceInv, Walking, walkVars
  <2>. QED
    BY <2>1, <2>2
<1>12. CASE Ended \/ UNCHANGED vars
  <2>1. UNCHANGED vars
    BY <1>12 DEF Ended
  <2>2. MemInv => MemInv'
    BY <2>1, MemStays DEF vars, walkVars
  <2>. QED
    BY <2>1, <2>2 DEF vars, walkVars, PlaceInv, Walking, Tensors
<1>. QED
  BY <1>1, <1>2, <1>3, <1>4, <1>5, <1>6, <1>7, <1>8, <1>9, <1>10, <1>11, <1>12 DEF Next

LEMMA CountOfOne ==
  ASSUME NEW S, \A t, u \in S : t = u
  PROVE  Cardinality(S) = IF S = {} THEN 0 ELSE 1
<1>1. CASE S = {}
  BY <1>1, FS_EmptySet
<1>2. CASE S # {}
  <2>1. PICK t \in S : TRUE
    BY <1>2
  <2>2. S = {t}
    BY <2>1
  <2>. QED
    BY <1>2, <2>2, FS_Singleton
<1>. QED
  BY <1>1, <1>2

LEMMA MemoryInit == Init => MemoryInv
<1>. SUFFICES ASSUME Init PROVE MemoryInv
  OBVIOUS
<1>. QED
  BY NoGraphIsWellFormed DEF Init, MemoryInv, PlaceInv, Walking

LEMMA MemoryIsCounted == MemoryInv => BytesAreCounted
<1>. SUFFICES ASSUME MemInv, NEW b \in 1 .. Buffers, NEW c \in DOMAIN chunks[b]
              PROVE  LET free == chunks[b][c].free
                     IN  /\ \A byte \in 0 .. chunks[b][c].max_size - 1 :
                               Cardinality({t \in DOMAIN addr : allocated[t] /\ Covers(t, addr[t], b, c, byte)})
                             + Cardinality({i \in DOMAIN free : free[i].offset <= byte /\ byte < End(free[i])}) = 1
                         /\ \A i \in 1 .. Len(free) - 1 : End(free[i]) < free[i + 1].offset
  BY DEF MemoryInv, BytesAreCounted
<1>. DEFINE free == chunks[b][c].free  own == owners(b, c)
<1>1. Parted(free, chunks[b][c].max_size, own) /\ DOMAIN addr = Tensors(graph)
  BY DEF MemInv, PartedInv, TableInv
<1>2. Tidy(free)
  BY <1>1 DEF Parted
<1>3. ASSUME NEW byte \in 0 .. chunks[b][c].max_size - 1
      PROVE  Cardinality({t \in DOMAIN addr : allocated[t] /\ Covers(t, addr[t], b, c, byte)})
           + Cardinality({i \in DOMAIN free : free[i].offset <= byte /\ byte < End(free[i])}) = 1
  <2>. DEFINE O == {t \in DOMAIN addr : allocated[t] /\ Covers(t, addr[t], b, c, byte)}
              F == {i \in DOMAIN free : free[i].offset <= byte /\ byte < End(free[i])}
  <2>1. byte \in Nat /\ byte < chunks[b][c].max_size
    <3>1. chunks[b][c].max_size \in Nat
      <4>1. chunks[b] \in Seq(Chunk)
        BY DEF MemInv, TableInv
      <4>2. chunks[b][c] \in Chunk
        BY <4>1
      <4>. QED
        BY <4>2 DEF Chunk
    <3>. QED
      BY <3>1
  <2>2. O = own[byte]
    BY <1>1, <2>1 DEF owners
  <2>3. F # {} <=> InFree(free, byte)
    BY DEF InFree, InBlock
  <2>4. \A t, u \in O : t = u
    BY <1>1, <2>1, <2>2 DEF Parted
  <2>5. \A i, j \in F : i = j
    <3>1. SUFFICES ASSUME NEW i \in F, NEW j \in F, i < j PROVE FALSE
      <4>1. \A i \in F : i \in Nat
        BY <1>2, TidyBlock
      <4>. QED
        BY <4>1
    <3>2. End(free[i]) < free[j].offset
      BY <1>2, <3>1 DEF Tidy
    <3>3. /\ i \in DOMAIN free /\ j \in DOMAIN free /\ byte < End(free[i]) /\ free[j].offset <= byte
      OBVIOUS
    <3>4. End(free[i]) \in Nat /\ free[j].offset \in Nat
      BY <1>2, <3>3, TidyBlock
    <3>. QED
      BY <2>1, <3>2, <3>3, <3>4
  <2>6. O = {} <=> F # {}
    BY <1>1, <2>1, <2>2, <2>3 DEF Parted
  <2>. HIDE DEF O, F
  <2>7. /\ Cardinality(O) = IF O = {} THEN 0 ELSE 1
        /\ Cardinality(F) = IF F = {} THEN 0 ELSE 1
    BY <2>4, <2>5, CountOfOne
  <2>8. Cardinality(O) + Cardinality(F) = 1
    BY <2>6, <2>7
  <2>. QED
    BY <2>8 DEF O, F
<1>4. ASSUME NEW i \in 1 .. Len(free) - 1 PROVE End(free[i]) < free[i + 1].offset
  <2>1. free \in Seq(Block)
    BY <1>2 DEF Tidy
  <2>2. i \in DOMAIN free /\ i + 1 \in DOMAIN free /\ i < i + 1
    BY <2>1
  <2>. QED
    BY <1>2, <2>2 DEF Tidy
<1>. QED
  BY <1>3, <1>4

\* No byte of a buffer is handed out twice and none is lost, for any graphs,
\* sizes, alignment, numbers of chunks and blocks: what ggml_dyn_tallocr_alloc,
\* ggml_dyn_tallocr_free_bytes and ggml_gallocr_free_extra_space keep.
THEOREM NoByteIsLost == Spec => []BytesAreCounted
<1>1. MemoryInv /\ [Next]_vars => MemoryInv'
  BY MemoryStep
<1>. QED
  BY MemoryInit, <1>1, MemoryIsCounted, PTL DEF Spec

-----------------------------------------------------------------------------
(* No value is lost.  The counters of the walk count what is still to come:  *)
(* the reads of a tensor, and its views that are still to be read.  A tensor *)
(* loses its memory when there is nothing left to come, or to the node that  *)
(* reads it last; so every tensor that a node may not write over is live     *)
(* when the node gets its memory.                                            *)

\* The arguments of the nodes that are t.
ReadsOf(t) ==
    {p \in Nat \X Nat : /\ p[1] \in Nodes(graph) /\ p[2] \in DOMAIN T(p[1]).src
                        /\ T(p[1]).src[p[2]] = t}

\* Those the walk has counted and not yet taken back.
Counted(p) ==
    \/ pc = "count" /\ p[1] < at
    \/ pc = "parents" /\ p[1] >= at
    \/ pc = "free" /\ (p[1] > at \/ (p[1] = at /\ p[2] >= arg))
Pending(t) == {p \in ReadsOf(t) : Counted(p)}

\* The views of r that the walk has counted and not yet taken back.
OpenView(v) ==
    /\ T(v).op # "none"
    /\ \/ pc = "count" /\ v < at
       \/ pc \in {"parents", "free"} /\ ~(IsRead(graph, v) /\ Pending(v) = {})
OpenViews(r) == {v \in Tensors(graph) : T(v).view = r /\ OpenView(v)}

\* The allocator has given t an address.
Placed(t) ==
    /\ Owns(graph, t)
    /\ IF t <= graph.leafs THEN pc = "leafs" => t < at
       ELSE \/ T(t).input /\ (pc \in {"parents", "free"} \/ (pc = "count" /\ t < at))
            \/ pc \in {"parents", "free"} /\ (t < at \/ (t = at /\ pc = "free"))
PlacedTensors == {t \in Tensors(graph) : Placed(t)}

LoopInv ==
    /\ pc = "leafs" => at <= graph.leafs + 1
    /\ pc # "leafs" => at >= graph.leafs + 1

CountInv ==
    /\ DOMAIN n_children = Tensors(graph)
    /\ \A t \in Tensors(graph) :
          IsFiniteSet(Pending(t)) /\ n_children[t] = Cardinality(Pending(t))

ViewInv ==
    /\ DOMAIN n_views = Tensors(graph)
    /\ \A r \in Tensors(graph) : ~T(r).external => n_views[r] = Cardinality(OpenViews(r))

PlacedInv == \A t \in Tensors(graph) : allocated[t] => Placed(t)

\* What has lost its memory is not needed any more, but by the node that has it now.
AliveInv ==
    \A t \in Tensors(graph) : Placed(t) /\ ~allocated[t] =>
       /\ pc \in {"parents", "free"} /\ t < at
       /\ ~T(t).output /\ OpenViews(t) = {}
       /\ \A p \in Pending(t) : pc = "free" /\ p[1] = at

PairInv == ValuesKept(graph, addr, PlacedTensors)

WalkInv ==
    Walking => LoopInv /\ CountInv /\ ViewInv /\ PlacedInv /\ AliveInv /\ PairInv

\* The bytes of two live tensors are apart.
LEMMA LiveAreApart ==
  ASSUME MemInv, WellFormed(graph),
         NEW t \in Tensors(graph), NEW u \in Tensors(graph), t # u, allocated[t], allocated[u]
  PROVE  ~Overlap(graph, addr, t, u)
<1>. SUFFICES ASSUME Overlap(graph, addr, t, u) PROVE FALSE
  OBVIOUS
<1>. DEFINE b == addr[t].buffer  c == addr[t].chunk  ot == addr[t].offset  ou == addr[u].offset
            x == IF ot >= ou THEN ot ELSE ou
<1>1. /\ addr[u].buffer = b /\ addr[u].chunk = c
      /\ ot < ou + T(u).size /\ ou < ot + T(t).size
  BY DEF Overlap, T
<1>2. ot \in Nat /\ ou \in Nat
  BY LiveBytes
<1>3. /\ T(t).size \in Nat \ {0} /\ aligned(T(t).size) \in Nat /\ T(t).size <= aligned(T(t).size)
      /\ T(u).size \in Nat \ {0} /\ aligned(T(u).size) \in Nat /\ T(u).size <= aligned(T(u).size)
  BY TensorFacts DEF T
<1>. HIDE DEF b, c, ot, ou
<1>4. /\ x \in Nat /\ ot <= x /\ x < ot + aligned(T(t).size)
      /\ ou <= x /\ x < ou + aligned(T(u).size)
  BY <1>1, <1>2, <1>3
<1>. HIDE DEF x
<1>5. owners(b, c)[x] = {t}
  BY <1>4, LiveBytes DEF b, c, ot
<1>6. owners(b, c)[x] = {u}
  <2>1. owners(addr[u].buffer, addr[u].chunk)[x] = {u}
    BY <1>4, LiveBytes DEF ou
  <2>. QED
    BY <1>1, <2>1
<1>. QED
  BY <1>5, <1>6

LEMMA LivePairs ==
  MemInv /\ WellFormed(graph) =>
     \A t, u \in Tensors(graph) : t # u /\ allocated[t] /\ allocated[u] => ~Overlap(graph, addr, t, u)
BY LiveAreApart

LEMMA LiveAreKept ==
  MemInv /\ WellFormed(graph) /\ (\A t \in PlacedTensors : allocated[t]) => PairInv
<1>. SUFFICES ASSUME MemInv, WellFormed(graph), \A t \in PlacedTensors : allocated[t]
              PROVE  PairInv
  OBVIOUS
<1>1. PlacedTensors \subseteq Tensors(graph)
  BY DEF PlacedTensors
<1>2. \A t, u \in PlacedTensors : t # u => ~Overlap(graph, addr, t, u)
  BY <1>1, LiveAreApart
<1>. QED
  BY <1>2 DEF PairInv, ValuesKept

LEMMA ReadFacts ==
  ASSUME WellFormed(graph), NEW t, NEW p \in ReadsOf(t)
  PROVE  /\ p[1] \in Nat /\ p[2] \in Nat /\ p = <<p[1], p[2]>> /\ graph.leafs \in Nat
         /\ p[1] \in Tensors(graph) /\ p[1] \in Nodes(graph)
         /\ p[1] >= graph.leafs + 1 /\ p[1] <= Len(graph.tensors)
         /\ p[2] \in DOMAIN T(p[1]).src /\ p[2] >= 1 /\ p[2] <= Len(T(p[1]).src)
         /\ T(p[1]).src[p[2]] = t
<1>1. /\ p \in Nat \X Nat /\ p[1] \in Nodes(graph) /\ p[2] \in DOMAIN T(p[1]).src
      /\ T(p[1]).src[p[2]] = t
  BY DEF ReadsOf
<1>2. /\ graph.leafs \in Nat /\ Len(graph.tensors) \in Nat /\ graph.leafs <= Len(graph.tensors)
      /\ Tensors(graph) = 1 .. Len(graph.tensors)
  BY DEF WellFormed, Tensors
<1>3. p[1] \in Tensors(graph) /\ p[1] >= graph.leafs + 1 /\ p[1] <= Len(graph.tensors)
  BY <1>1, <1>2 DEF Nodes
<1>4. T(p[1]).src \in Seq(Nat)
  BY <1>3, TensorFacts DEF T, TensorType
<1>5. p[2] >= 1 /\ p[2] <= Len(T(p[1]).src)
  BY <1>1, <1>4
<1>. QED
  BY <1>1, <1>2, <1>3, <1>5

LEMMA ReadsStay ==
  ASSUME graph' = graph, NEW t
  PROVE  ReadsOf(t)' = ReadsOf(t)
BY DEF ReadsOf, Nodes, T

LEMMA PendingStays ==
  ASSUME graph' = graph, NEW t, \A p \in ReadsOf(t) : Counted(p)' <=> Counted(p)
  PROVE  Pending(t)' = Pending(t)
BY ReadsStay DEF Pending

LEMMA OpenViewsStay ==
  ASSUME graph' = graph, \A v \in Tensors(graph) : OpenView(v)' <=> OpenView(v), NEW r
  PROVE  OpenViews(r)' = OpenViews(r)
<1>1. Tensors(graph)' = Tensors(graph)
  BY DEF Tensors
<1>2. \A v : T(v)' = T(v)
  BY DEF T
<1>. QED
  BY <1>1, <1>2 DEF OpenViews

\* A tensor is read while an argument is pending.
LEMMA PendingIsRead ==
  ASSUME WellFormed(graph), NEW t, Pending(t) # {}
  PROVE  IsRead(graph, t)
<1>1. PICK p \in ReadsOf(t) : TRUE
  BY DEF Pending
<1>. QED
  BY <1>1, ReadFacts DEF IsRead, T

LEMMA OpenViewsAreFinite ==
  ASSUME WellFormed(graph), NEW r
  PROVE  IsFiniteSet(OpenViews(r))
<1>1. Tensors(graph) = 1 .. Len(graph.tensors) /\ Len(graph.tensors) \in Nat
  BY DEF WellFormed, Tensors
<1>2. IsFiniteSet(Tensors(graph))
  BY <1>1, FS_Interval
<1>3. OpenViews(r) \in SUBSET Tensors(graph)
  BY DEF OpenViews
<1>. QED
  BY <1>2, <1>3, FS_Subset

\* Nothing of this changes for the walk.
LEMMA WalkStays ==
  ASSUME Walking, Walking', WalkInv, LoopInv',
         UNCHANGED <<graph, n_children, n_views, allocated, addr>>,
         \A t \in Tensors(graph) : Pending(t)' = Pending(t),
         \A v \in Tensors(graph) : OpenView(v)' <=> OpenView(v),
         \A t \in Tensors(graph) : Placed(t)' <=> Placed(t),
         \A t \in Tensors(graph) : Placed(t) /\ ~allocated[t] =>
            /\ pc' \in {"parents", "free"} /\ t < at'
            /\ \A p \in Pending(t) : pc' = "free" /\ p[1] = at'
  PROVE  WalkInv'
<1>1. Tensors(graph)' = Tensors(graph) /\ \A t : T(t)' = T(t)
  BY DEF Tensors, T
<1>2. \A r : OpenViews(r)' = OpenViews(r)
  BY OpenViewsStay
<1>3. PlacedTensors' = PlacedTensors
  BY <1>1 DEF PlacedTensors
<1>4. CountInv' /\ ViewInv' /\ PlacedInv' /\ AliveInv'
  BY <1>1, <1>2 DEF WalkInv, CountInv, ViewInv, PlacedInv, AliveInv
<1>5. PairInv'
  BY <1>3 DEF WalkInv, PairInv
<1>. QED
  BY <1>4, <1>5 DEF WalkInv

LEMMA GraphFacts ==
  ASSUME WellFormed(graph)
  PROVE  /\ graph.leafs \in Nat /\ Len(graph.tensors) \in Nat
         /\ graph.leafs <= Len(graph.tensors) /\ Tensors(graph) = 1 .. Len(graph.tensors)
         /\ Nodes(graph) = graph.leafs + 1 .. Len(graph.tensors)
         /\ \A t \in Tensors(graph) : t <= graph.leafs =>
               T(t).op = "none" /\ T(t).src = <<>>
BY DEF WellFormed, Tensors, Nodes, T

\* A tensor that is read has its reads.
LEMMA ReadIsThere ==
  ASSUME WellFormed(graph), NEW t, NEW n \in Nodes(graph), NEW j \in DOMAIN T(n).src, T(n).src[j] = t
  PROVE  <<n, j>> \in ReadsOf(t)
<1>1. n \in Tensors(graph) /\ n \in Nat
  BY GraphFacts
<1>2. T(n).src \in Seq(Nat)
  BY <1>1, TensorFacts DEF T, TensorType
<1>3. j \in Nat
  BY <1>2
<1>. QED
  BY <1>1, <1>3 DEF ReadsOf

LEMMA LoopStep ==
  ASSUME MemoryInv, WalkInv, EndLeafs \/ EndCount \/ NextNode
  PROVE  WalkInv'
<1>1. /\ Walking /\ Walking' /\ WellFormed(graph) /\ at \in Nat /\ graph' = graph
      /\ UNCHANGED <<graph, n_children, n_views, allocated, addr>>
      /\ pc = "free" => at \in Tensors(graph)
      /\ LoopInv /\ CountInv /\ AliveInv
  BY DEF EndLeafs, EndCount, NextNode, EndLoop, Walking, MemoryInv, PlaceInv, WalkInv
<1>2. \A t : T(t)' = T(t)
  BY <1>1 DEF T
<1>3. /\ graph.leafs \in Nat /\ Len(graph.tensors) \in Nat
      /\ graph.leafs <= Len(graph.tensors) /\ Tensors(graph) = 1 .. Len(graph.tensors)
  BY <1>1, GraphFacts
<1>4. CASE EndLeafs
  <2>1. /\ pc = "leafs" /\ pc' = "count" /\ at > graph.leafs /\ at' = graph.leafs + 1
        /\ at <= graph.leafs + 1
    BY <1>1, <1>4 DEF EndLeafs, EndLoop, LoopInv
  <2>2. LoopInv'
    BY <1>1, <1>3, <2>1 DEF LoopInv
  <2>3. ASSUME NEW t \in Tensors(graph) PROVE Pending(t)' = Pending(t)
    <3>1. ASSUME NEW p \in ReadsOf(t) PROVE Counted(p)' <=> Counted(p)
      BY <1>1, <2>1, <3>1, ReadFacts DEF Counted
    <3>. QED
      BY <1>1, <3>1, PendingStays
  <2>4. ASSUME NEW v \in Tensors(graph) PROVE OpenView(v)' <=> OpenView(v)
    <3>1. v < graph.leafs + 1 => T(v).op = "none"
      BY <1>1, <1>3, GraphFacts
    <3>. QED
      BY <1>2, <2>1, <3>1 DEF OpenView
  <2>5. ASSUME NEW t \in Tensors(graph) PROVE Placed(t)' <=> Placed(t)
    <3>1. t <= graph.leafs => t < at
      BY <1>1, <1>3, <2>1
    <3>2. ~(t <= graph.leafs) => ~(t < graph.leafs + 1)
      BY <1>3
    <3>. QED
      BY <1>1, <1>2, <2>1, <3>1, <3>2 DEF Placed
  <2>6. \A t \in Tensors(graph) : Placed(t) => allocated[t]
    BY <1>1, <2>1 DEF AliveInv
  <2>. QED
    BY <1>1, <2>2, <2>3, <2>4, <2>5, <2>6, WalkStays
<1>5. CASE EndCount
  <2>1. /\ pc = "count" /\ pc' = "parents" /\ at > Len(graph.tensors) /\ at' = graph.leafs + 1
    BY <1>5 DEF EndCount, EndLoop
  <2>2. LoopInv'
    BY <1>1, <1>3, <2>1 DEF LoopInv
  <2>3. ASSUME NEW t \in Tensors(graph)
        PROVE  Pending(t)' = Pending(t) /\ Pending(t) = ReadsOf(t)
    <3>1. ASSUME NEW p \in ReadsOf(t) PROVE Counted(p)' /\ Counted(p)
      <4>1. p[1] \in Nat /\ p[1] < at /\ p[1] >= graph.leafs + 1
        BY <1>1, <1>3, <2>1, <3>1, ReadFacts
      <4>. QED
        BY <2>1, <4>1 DEF Counted
    <3>. QED
      BY <1>1, <3>1, PendingStays DEF Pending
  <2>4. ASSUME NEW v \in Tensors(graph) PROVE OpenView(v)' <=> OpenView(v)
    <3>1. v < at
      BY <1>1, <1>3, <2>1
    <3>2. IsRead(graph, v) => ReadsOf(v) # {}
      BY <1>1, ReadIsThere DEF IsRead, T
    <3>3. IsRead(graph, v)' <=> IsRead(graph, v)
      BY <1>1 DEF IsRead, Nodes
    <3>. QED
      BY <1>2, <2>1, <2>3, <3>1, <3>2, <3>3 DEF OpenView
  <2>5. ASSUME NEW t \in Tensors(graph) PROVE Placed(t)' <=> Placed(t)
    <3>1. t < at
      BY <1>1, <1>3, <2>1
    <3>2. ~(t <= graph.leafs) => ~(t < graph.leafs + 1)
      BY <1>3
    <3>. QED
      BY <1>1, <1>2, <2>1, <3>1, <3>2 DEF Placed
  <2>6. \A t \in Tensors(graph) : Placed(t) => allocated[t]
    BY <1>1, <2>1 DEF AliveInv
  <2>. QED
    BY <1>1, <2>2, <2>3, <2>4, <2>5, <2>6, WalkStays
<1>6. CASE NextNode
  <2>1. /\ pc = "free" /\ pc' = "parents" /\ arg > Len(T(at).src) /\ at' = at + 1
        /\ arg \in Nat /\ Len(T(at).src) \in Nat
    <3>1. T(at).src \in Seq(Nat)
      BY <1>1, <1>6, TensorFacts DEF NextNode, T, TensorType
    <3>. QED
      BY <1>6, <3>1 DEF NextNode, MemoryInv, PlaceInv
  <2>2. LoopInv'
    BY <1>1, <1>3, <2>1 DEF LoopInv
  <2>3. ASSUME NEW t, NEW p \in ReadsOf(t)
        PROVE  /\ Counted(p)' <=> Counted(p)
               /\ Counted(p) => p[1] # at
    <3>1. p[1] \in Nat /\ p[2] \in Nat /\ p[2] <= Len(T(p[1]).src)
      BY <1>1, <2>3, ReadFacts
    <3>2. p[1] = at => ~(p[2] >= arg)
      BY <2>1, <3>1
    <3>. QED
      BY <1>1, <2>1, <3>1, <3>2 DEF Counted
  <2>4. ASSUME NEW t \in Tensors(graph) PROVE Pending(t)' = Pending(t)
    BY <1>1, <2>3, PendingStays
  <2>5. ASSUME NEW v \in Tensors(graph) PROVE OpenView(v)' <=> OpenView(v)
    <3>1. IsRead(graph, v)' <=> IsRead(graph, v)
      BY <1>1 DEF IsRead, Nodes
    <3>. QED
      BY <1>2, <2>1, <2>4, <3>1 DEF OpenView
  <2>6. ASSUME NEW t \in Tensors(graph) PROVE Placed(t)' <=> Placed(t)
    <3>1. t < at + 1 <=> t < at \/ t = at
      BY <1>1, <1>3
    <3>. QED
      BY <1>1, <1>2, <2>1, <3>1 DEF Placed
  <2>7. ASSUME NEW t \in Tensors(graph), Placed(t), ~allocated[t]
        PROVE  t < at' /\ Pending(t) = {}
    <3>1. t < at /\ \A p \in Pending(t) : p[1] = at
      BY <1>1, <2>7 DEF AliveInv
    <3>2. \A p \in Pending(t) : p[1] # at
      BY <2>3 DEF Pending
    <3>. QED
      BY <1>1, <1>3, <2>1, <3>1, <3>2
  <2>. QED
    BY <1>1, <2>1, <2>2, <2>4, <2>5, <2>6, <2>7, WalkStays
<1>. QED
  BY <1>4, <1>5, <1>6

\* An argument has its memory when its reader is reached, so that nothing is
\* given it then.
LEMMA ArgumentHasMemory ==
  ASSUME MemoryInv, WalkInv, AllocateParent
  PROVE  LET s == T(at).src[arg]
         IN  s \in Tensors(graph) /\ (IsAllocated(s) \/ IsView(graph, s))
<1>. DEFINE s == T(at).src[arg]
<1>1. /\ Walking /\ WellFormed(graph) /\ at \in Tensors(graph) /\ pc = "parents"
      /\ LoopInv /\ AliveInv
  BY NodeFacts DEF AllocateParent, Walking, MemoryInv, PlaceInv, WalkInv
<1>2. /\ arg \in DOMAIN T(at).src /\ s \in Tensors(graph) /\ s < at
      /\ at \in Nodes(graph) /\ at \in Nat
  <2>1. arg \in DOMAIN T(at).src
    BY <1>1, ArgFacts DEF AllocateParent, MemoryInv, PlaceInv
  <2>2. s \in Tensors(graph) /\ s < at
    BY <1>1, <2>1, SourceFacts DEF T
  <2>. QED
    BY <1>1, <2>1, <2>2, GraphFacts DEF LoopInv
<1>3. IsAllocated(s) \/ IsView(graph, s)
  <2>1. SUFFICES ASSUME Owns(graph, s), ~allocated[s] PROVE FALSE
    BY DEF IsAllocated, Own, Owns, T
  <2>2. <<at, arg>> \in Pending(s)
    <3>1. <<at, arg>> \in ReadsOf(s)
      BY <1>1, <1>2, ReadIsThere
    <3>. QED
      BY <1>1, <1>2, <3>1 DEF Pending, Counted
  <2>3. Placed(s)
    BY <1>1, <1>2, <2>1 DEF Placed
  <2>. QED
    BY <1>1, <1>2, <2>1, <2>2, <2>3 DEF AliveInv
<1>. QED
  BY <1>2, <1>3

LEMMA AllocateParentStep ==
  ASSUME MemoryInv, WalkInv, AllocateParent
  PROVE  WalkInv'
<1>. DEFINE s == T(at).src[arg]
<1>1. /\ Walking /\ Walking' /\ WellFormed(graph) /\ at \in Tensors(graph) /\ at' = at
      /\ UNCHANGED <<graph, n_children, n_views>> /\ pc = "parents" /\ pc' = "parents"
      /\ LoopInv /\ AliveInv /\ AllocateNode(s)
  BY NodeFacts DEF AllocateParent, Walking, MemoryInv, PlaceInv, WalkInv
<1>3. IsAllocated(s) \/ IsView(graph, s)
  BY ArgumentHasMemory
<1>4. UNCHANGED <<allocated, addr>>
  BY <1>1, <1>3 DEF AllocateNode
<1>5. \A p : Counted(p)' <=> Counted(p)
  BY <1>1 DEF Counted
<1>6. \A t \in Tensors(graph) : Pending(t)' = Pending(t)
  BY <1>1, <1>5, PendingStays
<1>7. \A v \in Tensors(graph) : OpenView(v)' <=> OpenView(v)
  BY <1>1, <1>6 DEF OpenView, T, IsRead, Nodes
<1>8. \A t \in Tensors(graph) : Placed(t)' <=> Placed(t)
  BY <1>1 DEF Placed, T
<1>9. LoopInv'
  BY <1>1 DEF LoopInv
<1>10. \A t \in Tensors(graph) : Placed(t) /\ ~allocated[t] => t < at' /\ Pending(t) = {}
  BY <1>1 DEF AliveInv
<1>. QED
  BY <1>1, <1>4, <1>6, <1>7, <1>8, <1>9, <1>10, WalkStays

\* A tensor that is no operation is given memory of its own, if it is to own any.
LEMMA GivenMemory ==
  ASSUME MemInv, NEW t \in Tensors(graph), T(t).op = "none", AllocateNode(t)
  PROVE  \A u \in Tensors(graph) : allocated'[u] = (allocated[u] \/ (u = t /\ Owns(graph, t)))
<1>1. allocated \in [Tensors(graph) -> BOOLEAN] /\ (allocated[t] => Owns(graph, t))
  BY DEF MemInv, TableInv
<1>2. CASE IsAllocated(t) \/ IsView(graph, t)
  <2>1. allocated' = allocated
    BY <1>2 DEF AllocateNode
  <2>2. Owns(graph, t) => allocated[t]
    BY <1>2 DEF IsAllocated, Own, Owns, T
  <2>. QED
    BY <1>1, <2>1, <2>2
<1>3. CASE ~(IsAllocated(t) \/ IsView(graph, t))
  <2>1. ~Reuse(t)
    BY DEF Reuse, Reuses
  <2>2. allocated' = [allocated EXCEPT ![t] = TRUE]
    BY <1>3, <2>1 DEF AllocateNode, Allocate
  <2>3. Owns(graph, t)
    BY <1>3 DEF IsAllocated, Owns, T
  <2>. QED
    BY <1>1, <2>2, <2>3
<1>. QED
  BY <1>2, <1>3

LEMMA LiveNow ==
  ASSUME MemoryInv', Walking', graph' = graph,
         \A t \in Tensors(graph) : Placed(t)' => allocated'[t]
  PROVE  PairInv' /\ AliveInv'
<1>1. Tensors(graph)' = Tensors(graph)
  BY DEF Tensors
<1>2. (\A t \in PlacedTensors : allocated[t])'
  BY <1>1 DEF PlacedTensors
<1>3. (MemInv /\ WellFormed(graph))'
  BY DEF MemoryInv, PlaceInv
<1>4. PairInv'
  BY <1>2, <1>3, LiveAreKept, PTL
<1>5. AliveInv'
  BY <1>1 DEF AliveInv
<1>. QED
  BY <1>4, <1>5

LEMMA AllocateLeafStep ==
  ASSUME MemoryInv, MemoryInv', WalkInv, AllocateLeaf
  PROVE  WalkInv'
<1>1. /\ Walking /\ Walking' /\ WellFormed(graph) /\ at \in Tensors(graph) /\ at' = at + 1
      /\ UNCHANGED <<graph, n_children, n_views>> /\ pc = "leafs" /\ pc' = "leafs"
      /\ at <= graph.leafs /\ AllocateNode(at) /\ MemInv
      /\ CountInv /\ ViewInv /\ PlacedInv /\ AliveInv
  BY NodeFacts DEF AllocateLeaf, Walking, MemoryInv, PlaceInv, WalkInv
<1>2. /\ graph.leafs \in Nat /\ Tensors(graph) = 1 .. Len(graph.tensors)
      /\ Len(graph.tensors) \in Nat /\ T(at).op = "none"
  BY <1>1, GraphFacts
<1>3. Tensors(graph)' = Tensors(graph) /\ \A t : T(t)' = T(t)
  BY <1>1 DEF Tensors, T
<1>4. \A u \in Tensors(graph) : allocated'[u] = (allocated[u] \/ (u = at /\ Owns(graph, at)))
  BY <1>1, <1>2, GivenMemory
<1>5. ASSUME NEW t \in Tensors(graph)
      PROVE  Placed(t)' <=> Placed(t) \/ (t = at /\ Owns(graph, t))
  <2>1. t < at + 1 <=> t < at \/ t = at
    BY <1>1, <1>2
  <2>2. Owns(graph, t)' <=> Owns(graph, t)
    BY <1>1
  <2>. QED
    BY <1>1, <1>3, <2>1, <2>2 DEF Placed
<1>6. \A t \in Tensors(graph) : Placed(t) => allocated[t]
  BY <1>1 DEF AliveInv
<1>7. PlacedInv'
  BY <1>1, <1>3, <1>4, <1>5 DEF PlacedInv
<1>8. PairInv' /\ AliveInv'
  BY <1>1, <1>4, <1>5, <1>6, LiveNow
<1>9. LoopInv'
  BY <1>1, <1>2 DEF LoopInv
<1>10. \A p : Counted(p)' <=> Counted(p)
  BY <1>1 DEF Counted
<1>11. CountInv'
  <2>1. \A t \in Tensors(graph) : Pending(t)' = Pending(t)
    BY <1>1, <1>10, PendingStays
  <2>. QED
    BY <1>1, <1>3, <2>1 DEF CountInv
<1>12. ViewInv'
  <2>1. \A v \in Tensors(graph) : OpenView(v)' <=> OpenView(v)
    BY <1>1 DEF OpenView
  <2>2. \A r : OpenViews(r)' = OpenViews(r)
    BY <1>1, <2>1, OpenViewsStay
  <2>. QED
    BY <1>1, <1>3, <2>2 DEF ViewInv
<1>. QED
  BY <1>7, <1>8, <1>9, <1>11, <1>12 DEF WalkInv

\* The reads of t by node n are as many as its arguments that are t.
LEMMA ReadsOfOne ==
  ASSUME WellFormed(graph), NEW t, NEW n \in Nodes(graph)
  PROVE  LET R == {p \in ReadsOf(t) : p[1] = n}
         IN  IsFiniteSet(R) /\ Cardinality(R) = TimesRead(n, t)
<1>. DEFINE J == {j \in DOMAIN T(n).src : T(n).src[j] = t}
            R == {p \in ReadsOf(t) : p[1] = n}
            f == [j \in J |-> <<n, j>>]
<1>1. IsFiniteSet(J)
  <2>1. T(n).src \in Seq(Nat)
    BY GraphFacts, TensorFacts DEF T, TensorType
  <2>2. DOMAIN T(n).src = 1 .. Len(T(n).src) /\ Len(T(n).src) \in Nat
    BY <2>1
  <2>3. IsFiniteSet(DOMAIN T(n).src)
    BY <2>2, FS_Interval
  <2>. QED
    BY <2>3, FS_Subset
<1>2. f \in Bijection(J, R)
  <2>1. \A j \in J : <<n, j>> \in R
    BY ReadIsThere
  <2>2. \A j, k \in J : f[j] = f[k] => j = k
    OBVIOUS
  <2>3. \A p \in R : \E j \in J : f[j] = p
    <3>1. SUFFICES ASSUME NEW p \in R PROVE \E j \in J : f[j] = p
      OBVIOUS
    <3>2. p[2] \in J /\ p = <<n, p[2]>>
      BY ReadFacts
    <3>. QED
      BY <3>2
  <2>. HIDE DEF J, R
  <2>4. f \in [J -> R]
    BY <2>1
  <2>5. f \in Injection(J, R)
    BY <2>2, <2>4, Fun_IsInj
  <2>6. f \in Surjection(J, R)
    BY <2>3, <2>4, Fun_IsSurj
  <2>. QED
    BY <2>5, <2>6, Fun_IsBij
<1>. HIDE DEF f
<1>3. IsFiniteSet(R) /\ Cardinality(R) = Cardinality(J)
  BY <1>1, <1>2, FS_Bijection DEF ExistsBijection
<1>. QED
  BY <1>3 DEF TimesRead

LEMMA CountNodeStep ==
  ASSUME MemoryInv, MemoryInv', WalkInv, CountNode
  PROVE  WalkInv'
<1>1. /\ Walking /\ Walking' /\ WellFormed(graph) /\ at \in Tensors(graph) /\ at' = at + 1
      /\ graph' = graph /\ pc = "count" /\ pc' = "count" /\ at >= graph.leafs + 1
      /\ MemInv /\ CountInv /\ ViewInv /\ PlacedInv /\ AliveInv
  BY NodeFacts DEF CountNode, Walking, MemoryInv, PlaceInv, WalkInv, LoopInv
<1>2. /\ graph.leafs \in Nat /\ Tensors(graph) = 1 .. Len(graph.tensors)
      /\ Len(graph.tensors) \in Nat /\ at \in Nodes(graph) /\ at \in Nat
  BY <1>1, GraphFacts
<1>3. Tensors(graph)' = Tensors(graph) /\ \A t : T(t)' = T(t)
  BY <1>1 DEF Tensors, T
<1>4. \A v \in Tensors(graph) : v < at + 1 <=> v < at \/ v = at
  BY <1>2
<1>5. /\ DOMAIN n_children = Tensors(graph) /\ DOMAIN n_views = Tensors(graph)
      /\ n_children' = [t \in Tensors(graph) |-> n_children[t] + TimesRead(at, t)]
      /\ n_views' = [t \in Tensors(graph) |->
                        IF IsView(graph, at) /\ T(at).op # "none" /\ t = T(at).view
                        THEN n_views[t] + 1 ELSE n_views[t]]
  BY <1>1 DEF CountNode, CountInv, ViewInv
<1>6. LoopInv'
  BY <1>1, <1>2 DEF LoopInv
<1>7. CountInv'
  <2>1. ASSUME NEW t \in Tensors(graph)
        PROVE  IsFiniteSet(Pending(t))' /\ n_children'[t] = Cardinality(Pending(t))'
    <3>. DEFINE R == {p \in ReadsOf(t) : p[1] = at}
    <3>1. Pending(t)' = Pending(t) \cup R
      <4>1. ASSUME NEW p \in ReadsOf(t) PROVE Counted(p)' <=> Counted(p) \/ p[1] = at
        <5>1. p[1] \in Tensors(graph)
          BY <1>1, <4>1, ReadFacts
        <5>. QED
          BY <1>1, <1>4, <5>1 DEF Counted
      <4>. QED
        BY <1>1, <4>1, ReadsStay DEF Pending
    <3>2. Pending(t) \cap R = {}
      BY <1>1, <1>2 DEF Pending, Counted
    <3>3. IsFiniteSet(R) /\ Cardinality(R) = TimesRead(at, t)
      BY <1>1, <1>2, ReadsOfOne
    <3>4. IsFiniteSet(Pending(t)) /\ n_children[t] = Cardinality(Pending(t))
      BY <1>1 DEF CountInv
    <3>. HIDE DEF R
    <3>. DEFINE P == Pending(t)
    <3>5. IsFiniteSet(P) /\ P \cap R = {} /\ n_children[t] = Cardinality(P)
      BY <3>2, <3>4
    <3>. HIDE DEF P
    <3>6. /\ IsFiniteSet(P \cup R)
          /\ Cardinality(P \cup R) = Cardinality(P) + Cardinality(R) - Cardinality(P \cap R)
      BY <3>3, <3>5, FS_Union
    <3>7. Cardinality(P \cap R) = 0 /\ Cardinality(P) \in Nat /\ Cardinality(R) \in Nat
      BY <3>3, <3>5, FS_EmptySet, FS_CardinalityType
    <3>8. n_children'[t] = Cardinality(P) + Cardinality(R)
      BY <1>5, <3>3, <3>5
    <3>9. Pending(t)' = P \cup R
      BY <3>1 DEF P
    <3>10. n_children'[t] = Cardinality(P \cup R)
      BY <3>6, <3>7, <3>8
    <3>. QED
      BY <3>6, <3>9, <3>10
  <2>. QED
    BY <1>3, <1>5, <2>1 DEF CountInv
<1>8. ViewInv'
  <2>1. ASSUME NEW r \in Tensors(graph), ~T(r).external
        PROVE  n_views'[r] = Cardinality(OpenViews(r))'
    <3>1. ASSUME NEW v \in Tensors(graph)
          PROVE  OpenView(v)' <=> OpenView(v) \/ (v = at /\ T(at).op # "none")
      BY <1>1, <1>3, <1>4 DEF OpenView
    <3>2. ~OpenView(at) /\ T(r).external' = T(r).external
      BY <1>1, <1>2, <1>3 DEF OpenView
    <3>3. IsFiniteSet(OpenViews(r)) /\ n_views[r] = Cardinality(OpenViews(r))
      BY <1>1, <2>1, OpenViewsAreFinite DEF ViewInv
    <3>4. CASE T(at).view = r /\ T(at).op # "none"
      <4>1. OpenViews(r)' = OpenViews(r) \cup {at} /\ at \notin OpenViews(r)
        BY <1>1, <1>3, <3>1, <3>2, <3>4 DEF OpenViews
      <4>2. Cardinality(OpenViews(r) \cup {at}) = Cardinality(OpenViews(r)) + 1
        BY <3>3, <4>1, FS_AddElement
      <4>3. r # 0
        BY <1>2
      <4>4. n_views'[r] = n_views[r] + 1
        BY <1>5, <3>4, <4>3 DEF IsView, T
      <4>. QED
        BY <3>3, <4>1, <4>2, <4>4
    <3>5. CASE ~(T(at).view = r /\ T(at).op # "none")
      <4>1. OpenViews(r)' = OpenViews(r)
        BY <1>1, <1>3, <3>1, <3>5 DEF OpenViews
      <4>2. n_views'[r] = n_views[r]
        BY <1>5, <3>5
      <4>. QED
        BY <3>3, <4>1, <4>2
    <3>. QED
      BY <3>4, <3>5
  <2>. QED
    BY <1>3, <1>5, <2>1 DEF ViewInv
<1>9. \A u \in Tensors(graph) :
         allocated'[u] = (allocated[u] \/ (u = at /\ T(at).input /\ Owns(graph, at)))
  <2>1. CASE T(at).input
    <3>1. T(at).op = "none"
      BY <1>1, <2>1 DEF WellFormed, T
    <3>2. AllocateNode(at)
      BY <2>1 DEF CountNode
    <3>. QED
      BY <1>1, <2>1, <3>1, <3>2, GivenMemory
  <2>2. CASE ~T(at).input
    <3>1. allocated' = allocated
      BY <2>2 DEF CountNode
    <3>2. allocated \in [Tensors(graph) -> BOOLEAN]
      BY <1>1 DEF MemInv, TableInv
    <3>. QED
      BY <2>2, <3>1, <3>2
  <2>. QED
    BY <2>1, <2>2
<1>10. ASSUME NEW t \in Tensors(graph)
       PROVE  Placed(t)' <=> Placed(t) \/ (t = at /\ T(at).input /\ Owns(graph, t))
  <2>1. Owns(graph, t)' <=> Owns(graph, t)
    BY <1>1
  <2>2. ~(at <= graph.leafs)
    BY <1>1, <1>2
  <2>. QED
    BY <1>1, <1>3, <1>4, <2>1, <2>2 DEF Placed
<1>11. \A t \in Tensors(graph) : Placed(t) => allocated[t]
  BY <1>1 DEF AliveInv
<1>12. PlacedInv'
  BY <1>1, <1>3, <1>9, <1>10 DEF PlacedInv
<1>13. PairInv' /\ AliveInv'
  BY <1>1, <1>9, <1>10, <1>11, LiveNow
<1>. QED
  BY <1>6, <1>7, <1>8, <1>12, <1>13 DEF WalkInv

\* A node that gets its address after the tensors of S.
LEMMA ValuesKeptGrows ==
  ASSUME NEW g, NEW A, NEW B, NEW S, NEW n, ValuesKept(g, A, S),
         \A t \in S : B[t] = A[t],
         ~Given(g, n),
         \A k \in S \cap Nodes(g) : ~g.tensors[k].input => ~NeededAt(g, n, k),
         \A t \in S : NeededAt(g, t, n) => ~Overlap(g, B, t, n) \/ InPlace(g, B, n, t)
  PROVE  ValuesKept(g, B, S \cup {n})
<1>1. \A t, u \in S : Overlap(g, B, t, u) => Overlap(g, A, t, u)
  BY DEF Overlap
<1>2. \A t, k \in S : InPlace(g, A, k, t) => InPlace(g, B, k, t)
  BY DEF InPlace
<1>3. ASSUME NEW t \in S \cup {n}, NEW k \in (S \cup {n}) \cap Nodes(g),
             k # t, ~g.tensors[k].input, NeededAt(g, t, k)
      PROVE  ~Overlap(g, B, t, k) \/ InPlace(g, B, k, t)
  <2>1. CASE t \in S /\ k \in S
    BY <1>1, <1>2, <1>3, <2>1 DEF ValuesKept
  <2>2. CASE t = n
    BY <1>3, <2>2
  <2>3. CASE t \in S /\ k = n
    BY <1>3, <2>3
  <2>. QED
    BY <1>3, <2>1, <2>2, <2>3
<1>4. ASSUME NEW t \in S \cup {n}, NEW u \in (S \cup {n}) \ {t}, Given(g, t), Given(g, u)
      PROVE  ~Overlap(g, B, t, u)
  BY <1>1, <1>4 DEF ValuesKept
<1>. QED
  BY <1>3, <1>4 DEF ValuesKept

\* Who is to read memory that a tensor owns is counted.
LEMMA ReadsAreOpen ==
  ASSUME WellFormed(graph), pc = "parents", at \in Nat, NEW t \in Tensors(graph), Owns(graph, t),
         NEW n \in Nodes(graph), n >= at, NEW i \in Reads(graph, n, t), OpenViews(t) = {}
  PROVE  T(n).src[i] = t /\ <<n, i>> \in Pending(t)
<1>. DEFINE v == T(n).src[i]
<1>1. n \in Tensors(graph) /\ n \in Nat /\ i \in DOMAIN T(n).src /\ Root(graph, v) = t
  BY GraphFacts DEF Reads, T
<1>2. v \in Tensors(graph)
  BY <1>1, SourceFacts DEF T
<1>3. <<n, i>> \in ReadsOf(v)
  BY <1>1, ReadIsThere
<1>4. <<n, i>> \in Pending(v)
  BY <1>1, <1>3 DEF Pending, Counted
<1>5. v = t
  <2>1. SUFFICES ASSUME v # t PROVE FALSE
    OBVIOUS
  <2>2. IsView(graph, v) /\ T(v).view = t
    BY <1>1, <2>1 DEF Root, T
  <2>3. IsRead(graph, v)
    BY <1>1 DEF IsRead, T
  <2>4. T(v).op # "none"
    BY <1>2, <2>2, <2>3 DEF WellFormed, T, IsView
  <2>5. OpenView(v)
    BY <1>4, <2>4 DEF OpenView
  <2>6. v \in OpenViews(t)
    BY <1>2, <2>2, <2>5 DEF OpenViews
  <2>. QED
    BY <2>6
<1>. QED
  BY <1>4, <1>5

\* What a node may not write over is live when the node gets its memory.
LEMMA NeededIsLive ==
  ASSUME WellFormed(graph), AliveInv, pc = "parents", at \in Nat, NEW t \in Tensors(graph), Placed(t),
         NeededAt(graph, t, at)
  PROVE  allocated[t]
<1>. SUFFICES ASSUME ~allocated[t] PROVE FALSE
  OBVIOUS
<1>1. ~T(t).output /\ OpenViews(t) = {} /\ Pending(t) = {} /\ Owns(graph, t)
  BY DEF AliveInv, Placed
<1>2. PICK n \in Nodes(graph) : n >= at /\ Reads(graph, n, t) # {}
  BY <1>1 DEF NeededAt, T
<1>3. PICK i \in Reads(graph, n, t) : TRUE
  BY <1>2
<1>. QED
  BY <1>1, <1>2, <1>3, ReadsAreOpen

\* An argument that may be overwritten is read by nobody else.
LEMMA ReusableIsRead ==
  ASSUME WellFormed(graph), CountInv, ViewInv, pc = "parents", at \in Nodes(graph), at \in Nat,
         NEW j \in DOMAIN T(at).src, NEW s, s = T(at).src[j], s \in Tensors(graph),
         Owns(graph, s), Reusable(at, s)
  PROVE  /\ OpenViews(s) = {} /\ \A p \in Pending(s) : p[1] = at
         /\ Reads(graph, at, s) = {j} /\ \A n \in Nodes(graph) : n > at => Reads(graph, n, s) = {}
<1>1. n_children[s] = 1 /\ n_views[s] = 0
  BY DEF Reusable
<1>2. OpenViews(s) = {}
  <2>1. IsFiniteSet(OpenViews(s)) /\ Cardinality(OpenViews(s)) = 0
    BY <1>1, OpenViewsAreFinite DEF ViewInv, Owns, T
  <2>. QED
    BY <2>1, FS_EmptySet
<1>3. <<at, j>> \in Pending(s)
  <2>1. <<at, j>> \in ReadsOf(s)
    BY ReadIsThere
  <2>. QED
    BY <2>1 DEF Pending, Counted
<1>4. Pending(s) = {<<at, j>>}
  <2>1. IsFiniteSet(Pending(s)) /\ Cardinality(Pending(s)) = 1
    BY <1>1 DEF CountInv
  <2>2. PICK p : Pending(s) = {p}
    BY <2>1, FS_Singleton
  <2>. QED
    BY <1>3, <2>2
<1>5. ASSUME NEW n \in Nodes(graph), n >= at, NEW i \in Reads(graph, n, s)
      PROVE  n = at /\ i = j
  BY <1>2, <1>4, <1>5, ReadsAreOpen
<1>6. j \in Reads(graph, at, s)
  BY DEF Reads, Root, Owns, T
<1>7. Reads(graph, at, s) = {j}
  BY <1>5, <1>6
<1>8. ASSUME NEW n \in Nodes(graph), n > at PROVE Reads(graph, n, s) = {}
  <2>1. n >= at /\ n # at
    BY <1>8, GraphFacts
  <2>. QED
    BY <1>5, <2>1
<1>. QED
  BY <1>2, <1>4, <1>7, <1>8

\* A node gets memory: its own, or that of an argument that dies with it.
LEMMA ResultGetsMemory ==
  ASSUME MemoryInv, MemoryInv', WalkInv, AllocateResult,
         ~IsAllocated(at), ~IsView(graph, at),
         \A t \in Tensors(graph) \ {at} : addr'[t] = addr[t],
         allocated'[at],
         \A t \in Tensors(graph) \ {at} : allocated[t] /\ ~allocated'[t] =>
            /\ ~T(t).output /\ OpenViews(t) = {} /\ \A p \in Pending(t) : p[1] = at
            /\ \A B : B = addr' => InPlace(graph, B, at, t),
         \A t \in Tensors(graph) \ {at} : allocated'[t] => allocated[t]
  PROVE  PlacedInv' /\ AliveInv' /\ PairInv'
<1>1. /\ Walking /\ Walking' /\ WellFormed(graph) /\ at \in Tensors(graph) /\ at' = at
      /\ graph' = graph /\ pc = "parents" /\ pc' = "free" /\ arg' = 1
      /\ at >= graph.leafs + 1 /\ MemInv
      /\ PlacedInv /\ AliveInv /\ PairInv
  BY NodeFacts DEF AllocateResult, Walking, MemoryInv, PlaceInv, WalkInv, LoopInv
<1>2. /\ graph.leafs \in Nat /\ Tensors(graph) = 1 .. Len(graph.tensors)
      /\ Len(graph.tensors) \in Nat /\ at \in Nodes(graph) /\ at \in Nat
  BY <1>1, GraphFacts
<1>3. Tensors(graph)' = Tensors(graph) /\ \A t : T(t)' = T(t)
  BY <1>1 DEF Tensors, T
<1>4. Owns(graph, at) /\ ~allocated[at] /\ ~Placed(at) /\ ~T(at).input
  <2>1. Owns(graph, at) /\ ~allocated[at]
    BY DEF Owns, IsAllocated, Own, T
  <2>2. ~Placed(at)
    BY <1>1, <1>2, <2>1 DEF AliveInv
  <2>. QED
    BY <1>1, <1>2, <2>1, <2>2 DEF Placed
<1>5. ASSUME NEW t \in Tensors(graph)
      PROVE  Placed(t)' <=> Placed(t) \/ t = at
  <2>1. Owns(graph, t)' <=> Owns(graph, t)
    BY <1>1
  <2>2. ~(at <= graph.leafs)
    BY <1>1, <1>2
  <2>. QED
    BY <1>1, <1>3, <1>4, <2>1, <2>2 DEF Placed
<1>6. PlacedInv'
  <2>1. ASSUME NEW t \in Tensors(graph), allocated'[t] PROVE Placed(t)'
    BY <1>1, <1>5, <2>1 DEF PlacedInv
  <2>. QED
    BY <1>3, <2>1 DEF PlacedInv
<1>7. ASSUME NEW p \in Nat \X Nat, p[2] >= 1 PROVE Counted(p)' <=> Counted(p)
  BY <1>1, <1>2, <1>7 DEF Counted
<1>8. ASSUME NEW t \in Tensors(graph) PROVE Pending(t)' = Pending(t)
  <2>1. \A p \in ReadsOf(t) : p \in Nat \X Nat /\ p[2] >= 1
    BY <1>1, ReadFacts DEF ReadsOf
  <2>. QED
    BY <1>1, <1>7, <2>1, PendingStays
<1>9. \A r : OpenViews(r)' = OpenViews(r)
  <2>1. \A v \in Tensors(graph) : OpenView(v)' <=> OpenView(v)
    BY <1>1, <1>3, <1>8 DEF OpenView, IsRead, Nodes
  <2>. QED
    BY <1>1, <2>1, OpenViewsStay
<1>10. AliveInv'
  <2>1. ASSUME NEW t \in Tensors(graph), Placed(t)', ~allocated'[t]
        PROVE  /\ t < at /\ ~T(t).output /\ OpenViews(t) = {}
               /\ \A p \in Pending(t) : p[1] = at
    <3>1. t # at /\ Placed(t)
      BY <1>5, <2>1
    <3>2. t < at
      <4>1. CASE t <= graph.leafs
        BY <1>1, <1>2, <4>1
      <4>2. CASE ~(t <= graph.leafs)
        <5>1. T(t).input \/ t < at
          BY <1>1, <3>1, <4>2 DEF Placed
        <5>2. CASE allocated[t] /\ ~(t < at)
          <6>1. \A B : B = addr' => InPlace(graph, B, at, t)
            BY <2>1, <3>1, <5>2
          <6>2. PICK B : B = addr'
            OBVIOUS
          <6>3. PICK j \in Reads(graph, at, t) : graph.tensors[at].src[j] = t
            <7>1. Cardinality(Reads(graph, at, t)) = 1
              BY <6>1, <6>2 DEF InPlace
            <7>2. Reads(graph, at, t) # {}
              BY <7>1, FS_EmptySet
            <7>. QED
              BY <6>1, <6>2, <7>2 DEF InPlace
          <6>4. j \in DOMAIN graph.tensors[at].src
            BY <6>3 DEF Reads
          <6>. QED
            BY <1>1, <5>2, <6>3, <6>4, SourceFacts
        <5>3. CASE ~allocated[t]
          BY <1>1, <3>1, <5>3 DEF AliveInv
        <5>. QED
          BY <5>2, <5>3
      <4>. QED
        BY <4>1, <4>2
    <3>3. CASE allocated[t]
      BY <2>1, <3>1, <3>2, <3>3
    <3>4. CASE ~allocated[t]
      BY <1>1, <3>1, <3>2, <3>4 DEF AliveInv
    <3>. QED
      BY <3>3, <3>4
  <2>. QED
    BY <1>1, <1>3, <1>8, <1>9, <2>1 DEF AliveInv
<1>11. PairInv'
  <2>live. (\A t, u \in Tensors(graph) : t # u /\ allocated[t] /\ allocated[u]
                                       => ~Overlap(graph, addr, t, u))'
    <3>1. (MemInv /\ WellFormed(graph))'
      BY <1>1 DEF MemoryInv, PlaceInv
    <3>. QED
      BY <3>1, LivePairs, PTL
  <2>1. PICK B : B = addr'
    OBVIOUS
  <2>2. PlacedTensors' = PlacedTensors \cup {at}
    BY <1>1, <1>3, <1>5 DEF PlacedTensors
  <2>3. ASSUME NEW k \in PlacedTensors \cap Nodes(graph), ~graph.tensors[k].input
        PROVE  ~NeededAt(graph, at, k)
    <3>1. k \in Nat /\ k >= graph.leafs + 1 /\ Placed(k)
      BY <1>2, <2>3, GraphFacts, <1>1 DEF PlacedTensors
    <3>2. k < at
      BY <1>1, <1>2, <2>3, <3>1 DEF Placed, T
    <3>3. ~Given(graph, at)
      BY <1>1, <1>2, <1>4 DEF Given, T
    <3>. QED
      BY <1>2, <3>1, <3>2, <3>3 DEF NeededAt
  <2>4. ASSUME NEW t \in PlacedTensors, NeededAt(graph, t, at)
        PROVE  ~Overlap(graph, B, t, at) \/ InPlace(graph, B, at, t)
    <3>1. t \in Tensors(graph) /\ Placed(t) /\ t # at
      BY <1>4, <2>4 DEF PlacedTensors
    <3>2. allocated[t]
      BY <1>1, <1>2, <2>4, <3>1, NeededIsLive
    <3>3. CASE allocated'[t]
      <4>3. ~Overlap(graph, addr, t, at)'
        <5>1. at \in Tensors(graph)' /\ t \in Tensors(graph)'
          BY <1>1, <1>3, <3>1
        <5>2. \A u, v \in Tensors(graph)' : u # v /\ allocated'[u] /\ allocated'[v]
                                          => ~Overlap(graph', addr', u, v)
          BY <2>live
        <5>3. ~Overlap(graph', addr', t, at)
          BY <3>1, <3>3, <5>1, <5>2
        <5>. QED
          BY <1>1, <5>3
      <4>. QED
        BY <1>1, <2>1, <4>3 DEF Overlap
    <3>4. CASE ~allocated'[t]
      BY <2>1, <3>1, <3>2, <3>4
    <3>. QED
      BY <3>3, <3>4
  <2>5. \A t \in PlacedTensors : B[t] = addr[t]
    BY <1>4, <2>1 DEF PlacedTensors
  <2>6. ~Given(graph, at)
    BY <1>1, <1>2, <1>4 DEF Given, T
  <2>7. ValuesKept(graph, addr, PlacedTensors)
    BY <1>1 DEF PairInv
  <2>8. ValuesKept(graph, B, PlacedTensors \cup {at})
    BY <2>3, <2>4, <2>5, <2>6, <2>7, ValuesKeptGrows
  <2>9. ValuesKept(graph', B, PlacedTensors')
    BY <1>1, <2>2, <2>8
  <2>10. ValuesKept(graph', addr', PlacedTensors')
    BY <2>1, <2>9
  <2>. QED
    BY <2>10 DEF PairInv
<1>. QED
  BY <1>6, <1>10, <1>11

LEMMA AllocateResultStep ==
  ASSUME MemoryInv, MemoryInv', WalkInv, AllocateResult
  PROVE  WalkInv'
<1>1. /\ Walking /\ Walking' /\ WellFormed(graph) /\ at \in Tensors(graph) /\ at' = at
      /\ UNCHANGED <<graph, n_children, n_views>> /\ pc = "parents" /\ pc' = "free" /\ arg' = 1
      /\ at >= graph.leafs + 1 /\ MemInv /\ AllocateNode(at)
      /\ LoopInv /\ CountInv /\ ViewInv /\ PlacedInv /\ AliveInv
  BY NodeFacts DEF AllocateResult, Walking, MemoryInv, PlaceInv, WalkInv, LoopInv
<1>2. /\ graph.leafs \in Nat /\ Tensors(graph) = 1 .. Len(graph.tensors)
      /\ Len(graph.tensors) \in Nat /\ at \in Nodes(graph) /\ at \in Nat
  BY <1>1, GraphFacts
<1>3. Tensors(graph)' = Tensors(graph) /\ \A t : T(t)' = T(t)
  BY <1>1 DEF Tensors, T
<1>4. ASSUME NEW t \in Tensors(graph) PROVE Pending(t)' = Pending(t)
  <2>1. ASSUME NEW p \in ReadsOf(t) PROVE Counted(p)' <=> Counted(p)
    <3>1. p[1] \in Nat /\ p[2] >= 1
      BY <1>1, <2>1, ReadFacts
    <3>. QED
      BY <1>1, <1>2, <3>1 DEF Counted
  <2>. QED
    BY <1>1, <2>1, PendingStays
<1>5. \A v \in Tensors(graph) : OpenView(v)' <=> OpenView(v)
  BY <1>1, <1>3, <1>4 DEF OpenView, IsRead, Nodes
<1>6. LoopInv'
  BY <1>1 DEF LoopInv
<1>7. CASE IsAllocated(at) \/ IsView(graph, at)
  <2>1. UNCHANGED <<allocated, addr>>
    BY <1>1, <1>7 DEF AllocateNode
  <2>2. Owns(graph, at) => Placed(at)
    BY <1>1, <1>7 DEF Owns, IsAllocated, Own, T, PlacedInv
  <2>3. ASSUME NEW t \in Tensors(graph) PROVE Placed(t)' <=> Placed(t)
    <3>1. Owns(graph, t)' <=> Owns(graph, t)
      BY <1>1
    <3>2. t = at => (Placed(t)' <=> Placed(t))
      BY <1>1, <1>2, <1>3, <2>2, <3>1 DEF Placed
    <3>3. t # at => (Placed(t)' <=> Placed(t))
      BY <1>1, <1>3, <3>1 DEF Placed
    <3>. QED
      BY <3>2, <3>3
  <2>4. \A t \in Tensors(graph) : Placed(t) /\ ~allocated[t] => t < at' /\ Pending(t) = {}
    BY <1>1 DEF AliveInv
  <2>. QED
    BY <1>1, <1>4, <1>5, <1>6, <2>1, <2>3, <2>4, WalkStays
<1>8. CASE ~(IsAllocated(at) \/ IsView(graph, at))
  <2>. DEFINE Others == Tensors(graph) \ {at}
  <2>1. /\ allocated \in [Tensors(graph) -> BOOLEAN] /\ addr \in [Tensors(graph) -> AddrType]
        /\ \A t \in Tensors(graph) : allocated[t] => Owns(graph, t)
    BY <1>1 DEF MemInv, TableInv
  <2>2. /\ \A t \in Others : addr'[t] = addr[t]
        /\ allocated'[at]
        /\ \A t \in Others : allocated'[t] => allocated[t]
        /\ \A t \in Others : allocated[t] /\ ~allocated'[t] =>
              /\ ~T(t).output /\ OpenViews(t) = {} /\ \A p \in Pending(t) : p[1] = at
              /\ \A B : B = addr' => InPlace(graph, B, at, t)
    <3>1. CASE Allocate(at)
      <4>1. allocated' = [allocated EXCEPT ![at] = TRUE]
        BY <3>1 DEF Allocate
      <4>2. PICK a : addr' = [addr EXCEPT ![at] = a]
        <5>. DEFINE b == T(at).buffer  size == aligned(T(at).size)
                    cs == IF Full(chunks[b], size) THEN NewChunk(chunks[b], size) ELSE chunks[b]
        <5>1. \E p : addr' = [addr EXCEPT ![at] =
                           [buffer |-> b, chunk |-> p[1], offset |-> BlockAt(cs, p).offset]]
          BY <3>1 DEF Allocate
        <5>. QED
          BY <5>1
      <4>. QED
        BY <1>1, <2>1, <4>1, <4>2
    <3>2. CASE Reuse(at)
      <4>1. PICK j \in DOMAIN T(at).src :
              /\ Reuses(at, j)
              /\ addr' = [addr EXCEPT ![at] = addr[T(at).src[j]]]
              /\ allocated' = [allocated EXCEPT ![at] = TRUE, ![T(at).src[j]] = FALSE]
        BY <3>2 DEF Reuse
      <4>2. PICK s : s = T(at).src[j]
        OBVIOUS
      <4>3. s \in Tensors(graph) /\ s < at /\ s # at
        BY <1>1, <1>2, <4>2, SourceFacts DEF T
      <4>4. T(at).op = "inplace" /\ Reusable(at, s)
        BY <4>1, <4>2 DEF Reuses
      <4>5. Owns(graph, s)
        BY <2>1, <4>3, <4>4 DEF Reusable, Own
      <4>6. /\ OpenViews(s) = {} /\ \A p \in Pending(s) : p[1] = at
            /\ Reads(graph, at, s) = {j}
            /\ \A n \in Nodes(graph) : n > at => Reads(graph, n, s) = {}
        BY <1>1, <1>2, <4>2, <4>3, <4>4, <4>5, ReusableIsRead
      <4>7. ASSUME NEW B, B = addr' PROVE InPlace(graph, B, at, s)
        <5>1. B[at] = addr[s] /\ B[s] = addr[s]
          BY <1>1, <2>1, <4>1, <4>2, <4>3, <4>7
        <5>2. Cardinality(Reads(graph, at, s)) = 1
          BY <4>6, FS_Singleton
        <5>3. ~T(s).output /\ T(s).layout = T(at).layout
          BY <4>4 DEF Reusable
        <5>. QED
          BY <4>2, <4>4, <4>6, <5>1, <5>2, <5>3 DEF InPlace, T
      <4>8. /\ \A t \in Others : addr'[t] = addr[t]
            /\ allocated'[at]
            /\ \A t \in Others : allocated'[t] => allocated[t]
            /\ \A t \in Others : allocated[t] /\ ~allocated'[t] => t = s
        BY <1>1, <2>1, <4>1, <4>2, <4>3
      <4>9. ~T(s).output
        BY <4>4 DEF Reusable
      <4>. QED
        BY <4>6, <4>7, <4>8, <4>9
    <3>. QED
      BY <1>1, <1>8, <3>1, <3>2 DEF AllocateNode
  <2>3. PlacedInv' /\ AliveInv' /\ PairInv'
    BY <1>8, <2>2, ResultGetsMemory
  <2>4. CountInv'
    BY <1>1, <1>3, <1>4 DEF CountInv
  <2>5. ViewInv'
    <3>1. \A r : OpenViews(r)' = OpenViews(r)
      BY <1>1, <1>5, OpenViewsStay
    <3>. QED
      BY <1>1, <1>3, <3>1 DEF ViewInv
  <2>. QED
    BY <1>6, <2>3, <2>4, <2>5 DEF WalkInv
<1>. QED
  BY <1>7, <1>8

\* A reader is taken back; a tensor that dies has neither readers nor views left.
LEMMA FreeParentStep ==
  ASSUME MemoryInv, WalkInv, FreeParent
  PROVE  WalkInv'
<1>s. PICK s, r : s = T(at).src[arg] /\ r = Root(graph, s)
  OBVIOUS
<1>1. /\ Walking /\ Walking' /\ WellFormed(graph) /\ at \in Tensors(graph)
      /\ UNCHANGED <<graph, at, addr>> /\ pc = "free" /\ pc' = "free" /\ arg' = arg + 1
      /\ at >= graph.leafs + 1 /\ MemInv /\ arg \in Nat /\ arg >= 1
      /\ LoopInv /\ CountInv /\ ViewInv /\ PlacedInv /\ AliveInv /\ PairInv
  BY DEF FreeParent, Walking, MemoryInv, PlaceInv, WalkInv, LoopInv
<1>2. /\ graph.leafs \in Nat /\ Tensors(graph) = 1 .. Len(graph.tensors)
      /\ Len(graph.tensors) \in Nat /\ at \in Nodes(graph) /\ at \in Nat
  BY <1>1, GraphFacts
<1>3. Tensors(graph)' = Tensors(graph) /\ \A t : T(t)' = T(t)
  BY <1>1 DEF Tensors, T
<1>4. arg \in DOMAIN T(at).src /\ s \in Tensors(graph) /\ s < at
  <2>1. arg \in DOMAIN T(at).src
    BY <1>1, ArgFacts DEF FreeParent
  <2>. QED
    BY <1>s, <1>1, <2>1, SourceFacts DEF T
<1>5. r \in Tensors(graph) /\ ~IsView(graph, r) /\ r < at
  <2>1. r \in Tensors(graph) /\ ~IsView(graph, r) /\ r <= s
    BY <1>s, <1>1, <1>4, RootFacts
  <2>. QED
    BY <1>2, <1>4, <2>1
<1>6. /\ DOMAIN n_children = Tensors(graph) /\ DOMAIN n_views = Tensors(graph)
      /\ n_children' = [n_children EXCEPT ![s] = @ - 1]
      /\ n_views' = IF r # s /\ n_children[s] = 1 /\ n_views[s] = 0
                    THEN [n_views EXCEPT ![r] = @ - 1] ELSE n_views
      /\ IF Dies(s) THEN FreeNode(r) ELSE UNCHANGED <<allocated, chunks>>
  BY <1>s, <1>1 DEF FreeParent, CountInv, ViewInv
<1>7. <<at, arg>> \in Pending(s) /\ IsRead(graph, s)
  <2>1. <<at, arg>> \in ReadsOf(s)
    BY <1>s, <1>1, <1>2, <1>4, ReadIsThere
  <2>2. IsRead(graph, s)
    BY <1>s, <1>2, <1>4 DEF IsRead, T
  <2>. QED
    BY <1>1, <1>2, <2>1, <2>2 DEF Pending, Counted
<1>8. ASSUME NEW t \in Tensors(graph)
      PROVE  /\ Pending(t)' = Pending(t) \ {<<at, arg>>}
             /\ t # s => <<at, arg>> \notin Pending(t)
             /\ IsFiniteSet(Pending(t)) /\ n_children[t] = Cardinality(Pending(t))
             /\ Cardinality(Pending(t)) \in Nat
  <2>1. ASSUME NEW p \in ReadsOf(t) PROVE Counted(p)' <=> Counted(p) /\ p # <<at, arg>>
    <3>1. p[1] \in Nat /\ p[2] \in Nat /\ p = <<p[1], p[2]>>
      BY <1>1, <2>1, ReadFacts
    <3>2. p # <<at, arg>> <=> p[1] # at \/ p[2] # arg
      BY <3>1
    <3>3. p[2] >= arg + 1 <=> p[2] >= arg /\ p[2] # arg
      BY <1>1, <3>1
    <3>. QED
      BY <1>1, <1>2, <3>1, <3>2, <3>3 DEF Counted
  <2>2. Pending(t)' = Pending(t) \ {<<at, arg>>}
    BY <1>1, <2>1, ReadsStay DEF Pending
  <2>3. t # s => <<at, arg>> \notin Pending(t)
    BY <1>s DEF Pending, ReadsOf
  <2>4. IsFiniteSet(Pending(t)) /\ n_children[t] = Cardinality(Pending(t))
    BY <1>1 DEF CountInv
  <2>. QED
    BY <2>2, <2>3, <2>4, FS_CardinalityType
<1>9. \A t \in Tensors(graph) \ {s} : Pending(t)' = Pending(t)
  BY <1>8
<1>10. Pending(s)' = {} <=> n_children[s] = 1
  <2>1. IsFiniteSet(Pending(s)) /\ <<at, arg>> \in Pending(s) /\ Pending(s)' = Pending(s) \ {<<at, arg>>}
        /\ n_children[s] = Cardinality(Pending(s)) /\ Cardinality(Pending(s)) \in Nat
    BY <1>4, <1>7, <1>8
  <2>2. /\ IsFiniteSet(Pending(s) \ {<<at, arg>>})
        /\ Cardinality(Pending(s) \ {<<at, arg>>}) = Cardinality(Pending(s)) - 1
    BY <2>1, FS_RemoveElement
  <2>3. Cardinality(Pending(s) \ {<<at, arg>>}) = 0 <=> Pending(s) \ {<<at, arg>>} = {}
    BY <2>2, FS_EmptySet
  <2>. QED
    BY <2>1, <2>2, <2>3
<1>11. CountInv'
  <2>1. ASSUME NEW t \in Tensors(graph)
        PROVE  IsFiniteSet(Pending(t))' /\ n_children'[t] = Cardinality(Pending(t))'
    <3>1. CASE t = s
      <4>1. /\ IsFiniteSet(Pending(s) \ {<<at, arg>>})
            /\ Cardinality(Pending(s) \ {<<at, arg>>}) = Cardinality(Pending(s)) - 1
        BY <1>4, <1>7, <1>8, FS_RemoveElement
      <4>2. n_children'[s] = n_children[s] - 1
        BY <1>4, <1>6
      <4>3. /\ Pending(s)' = Pending(s) \ {<<at, arg>>}
            /\ n_children[s] = Cardinality(Pending(s))
        BY <1>4, <1>8
      <4>4. IsFiniteSet(Pending(s))' /\ n_children'[s] = Cardinality(Pending(s))'
        BY <4>1, <4>2, <4>3
      <4>. QED
        BY <3>1, <4>4
    <3>2. CASE t # s
      <4>1. n_children'[t] = n_children[t] /\ Pending(t)' = Pending(t)
        BY <1>6, <1>9, <3>2
      <4>. QED
        BY <1>8, <4>1
    <3>. QED
      BY <3>1, <3>2
  <2>2. DOMAIN n_children' = Tensors(graph)
    BY <1>6
  <2>. QED
    BY <1>3, <2>1, <2>2 DEF CountInv
<1>12. ASSUME NEW v \in Tensors(graph)
       PROVE  OpenView(v)' <=> OpenView(v) /\ ~(v = s /\ n_children[s] = 1)
  <2>1. IsRead(graph, v)' <=> IsRead(graph, v)
    BY <1>1 DEF IsRead, Nodes
  <2>2. OpenView(v) <=> T(v).op # "none" /\ ~(IsRead(graph, v) /\ Pending(v) = {})
    BY <1>1 DEF OpenView
  <2>3. OpenView(v)' <=> T(v).op # "none" /\ ~(IsRead(graph, v) /\ Pending(v)' = {})
    BY <1>1, <1>3, <2>1 DEF OpenView
  <2>4. CASE v = s
    BY <1>7, <1>10, <2>2, <2>3, <2>4
  <2>5. CASE v # s
    BY <1>9, <2>2, <2>3, <2>5
  <2>. QED
    BY <2>4, <2>5
<1>13. ASSUME NEW x \in Tensors(graph)
       PROVE  OpenViews(x)' = IF n_children[s] = 1 /\ T(s).view = x THEN OpenViews(x) \ {s}
                              ELSE OpenViews(x)
  <2>1. OpenViews(x)' = {v \in Tensors(graph) : T(v).view = x /\ OpenView(v)'}
    BY <1>3 DEF OpenViews
  <2>2. OpenViews(x) = {v \in Tensors(graph) : T(v).view = x /\ OpenView(v)}
    BY DEF OpenViews
  <2>. QED
    BY <1>12, <2>1, <2>2
<1>14. /\ r = s => T(s).view = 0
       /\ r # s => T(s).view = r /\ n_views[s] = 0
  <2>1. r = s => T(s).view = 0
    BY <1>5 DEF IsView, T
  <2>2. ASSUME r # s PROVE T(s).view = r /\ n_views[s] = 0
    <3>1. IsView(graph, s) /\ T(s).view = r
      BY <1>s, <2>2 DEF Root, T
    <3>2. ~T(s).external /\ \A v \in Tensors(graph) : T(v).view # s
      <4>1. T(s).view # 0
        BY <3>1 DEF IsView, T
      <4>2. s # 0
        BY <1>2, <1>4
      <4>3. ASSUME NEW v \in Tensors(graph), T(v).view = s PROVE FALSE
        BY <1>1, <3>1, <4>2, <4>3 DEF WellFormed, T
      <4>4. ~T(s).external
        BY <1>1, <1>4, <4>1 DEF WellFormed, T
      <4>. QED
        BY <4>3, <4>4
    <3>3. OpenViews(s) = {}
      BY <3>2 DEF OpenViews
    <3>4. n_views[s] = Cardinality(OpenViews(s))
      BY <1>1, <1>4, <3>2 DEF ViewInv
    <3>. QED
      BY <3>1, <3>3, <3>4, FS_EmptySet
  <2>. QED
    BY <2>1, <2>2
<1>15. r # s /\ ~T(r).external => s \in OpenViews(r)
  <2>1. SUFFICES ASSUME r # s, ~T(r).external PROVE s \in OpenViews(r)
    OBVIOUS
  <2>2. T(s).view = r /\ r # 0 /\ Owns(graph, r)
    BY <1>2, <1>5, <1>14, <2>1 DEF Owns, T
  <2>3. T(s).op # "none"
    BY <1>1, <1>4, <1>7, <2>2 DEF WellFormed, T
  <2>4. OpenView(s)
    BY <1>1, <1>7, <2>3 DEF OpenView
  <2>. QED
    BY <1>4, <2>2, <2>4 DEF OpenViews
<1>16. ViewInv'
  <2>1. ASSUME NEW x \in Tensors(graph), ~T(x).external
        PROVE  n_views'[x] = Cardinality(OpenViews(x))'
    <3>1. IsFiniteSet(OpenViews(x)) /\ n_views[x] = Cardinality(OpenViews(x))
      BY <1>1, <2>1, OpenViewsAreFinite DEF ViewInv
    <3>2. CASE r # s /\ n_children[s] = 1 /\ x = r
      <4>1. s \in OpenViews(x) /\ OpenViews(x)' = OpenViews(x) \ {s}
        BY <1>13, <1>14, <1>15, <2>1, <3>2
      <4>2. Cardinality(OpenViews(x) \ {s}) = Cardinality(OpenViews(x)) - 1
        BY <3>1, <4>1, FS_RemoveElement
      <4>3. n_views'[x] = n_views[x] - 1
        BY <1>5, <1>6, <1>14, <3>2
      <4>. QED
        BY <3>1, <4>1, <4>2, <4>3
    <3>3. CASE ~(r # s /\ n_children[s] = 1 /\ x = r)
      <4>1. OpenViews(x)' = OpenViews(x)
        <5>1. ~(n_children[s] = 1 /\ T(s).view = x)
          BY <1>2, <1>14, <3>3
        <5>. QED
          BY <1>13, <5>1
      <4>2. n_views'[x] = n_views[x]
        BY <1>6, <3>3
      <4>. QED
        BY <3>1, <4>1, <4>2
    <3>. QED
      BY <3>2, <3>3
  <2>2. DOMAIN n_views' = Tensors(graph)
    BY <1>6
  <2>. QED
    BY <1>3, <2>1, <2>2 DEF ViewInv
<1>17. /\ \A t \in Tensors(graph) \ {r} : allocated'[t] = allocated[t]
       /\ allocated'[r] => allocated[r]
       /\ allocated[r] /\ ~allocated'[r] => Dies(s) /\ ~T(r).output
  <2>1. allocated \in [Tensors(graph) -> BOOLEAN]
    BY <1>1 DEF MemInv, TableInv
  <2>. QED
    BY <1>5, <1>6, <2>1 DEF FreeNode
<1>18. \A t \in Tensors(graph) : Placed(t)' <=> Placed(t)
  BY <1>1 DEF Placed, T
<1>19. PlacedInv'
  BY <1>1, <1>3, <1>17, <1>18 DEF PlacedInv
<1>20. AliveInv'
  <2>1. ASSUME NEW t \in Tensors(graph), Placed(t), ~allocated'[t]
        PROVE  /\ t < at /\ ~T(t).output /\ OpenViews(t)' = {}
               /\ \A p \in Pending(t)' : p[1] = at
    <3>1. CASE ~allocated[t]
      <4>1. t < at /\ ~T(t).output /\ OpenViews(t) = {} /\ \A p \in Pending(t) : p[1] = at
        BY <1>1, <2>1, <3>1 DEF AliveInv
      <4>. QED
        BY <1>8, <1>13, <4>1
    <3>2. CASE allocated[t]
      <4>1. t = r /\ Dies(s) /\ ~T(r).output
        BY <1>17, <2>1, <3>2
      <4>2. /\ n_children[s] = 1 /\ n_views[s] = 0 /\ ~T(r).external
            /\ r # s => n_views[r] = 1 /\ n_children[r] = 0
        BY <1>s, <2>1, <4>1 DEF Dies, Placed, Owns, T
      <4>3. IsFiniteSet(OpenViews(r)) /\ n_views[r] = Cardinality(OpenViews(r))
        BY <1>1, <1>5, <4>2, OpenViewsAreFinite DEF ViewInv
      <4>4. CASE r = s
        <5>1. OpenViews(r) = {}
          BY <4>2, <4>3, <4>4, FS_EmptySet
        <5>2. OpenViews(r)' = {}
          BY <1>5, <1>13, <5>1
        <5>3. Pending(r)' = {}
          BY <1>10, <4>2, <4>4
        <5>. QED
          BY <1>5, <4>1, <5>2, <5>3
      <4>5. CASE r # s
        <5>1. PICK v : OpenViews(r) = {v}
          BY <4>2, <4>3, <4>5, FS_Singleton
        <5>2. OpenViews(r)' = {}
          BY <1>5, <1>13, <1>14, <1>15, <4>2, <4>5, <5>1
        <5>3. Pending(r) = {}
          BY <1>5, <1>8, <4>2, <4>5, FS_EmptySet
        <5>4. Pending(r)' = {}
          BY <1>5, <1>8, <5>3
        <5>. QED
          BY <1>5, <4>1, <5>2, <5>4
      <4>. QED
        BY <4>4, <4>5
    <3>. QED
      BY <3>1, <3>2
  <2>. QED
    BY <1>1, <1>3, <1>18, <2>1 DEF AliveInv
<1>21. PairInv'
  <2>1. PlacedTensors' = PlacedTensors
    BY <1>3, <1>18 DEF PlacedTensors
  <2>. QED
    BY <1>1, <2>1 DEF PairInv
<1>22. LoopInv'
  BY <1>1 DEF LoopInv
<1>. QED
  BY <1>11, <1>16, <1>19, <1>20, <1>21, <1>22 DEF WalkInv

LEMMA StartWalkIsKept ==
  ASSUME NEW g, WellFormed(g), NEW who, StartWalk(g, who), graph' = g
  PROVE  WalkInv'
<1>1. /\ pc' = "leafs" /\ at' = 1
      /\ n_children' = [t \in Tensors(g) |-> 0] /\ n_views' = [t \in Tensors(g) |-> 0]
      /\ allocated' = [t \in Tensors(g) |-> FALSE]
  BY DEF StartWalk
<1>2. Tensors(graph)' = Tensors(g) /\ \A t \in Tensors(g) : t \in Nat /\ t >= 1
  BY TensorFacts DEF Tensors
<1>3. LoopInv'
  BY <1>1 DEF LoopInv, WellFormed
<1>4. CountInv'
  <2>1. \A t : Pending(t)' = {}
    BY <1>1 DEF Pending, Counted
  <2>. QED
    BY <1>1, <1>2, <2>1, FS_EmptySet DEF CountInv
<1>5. ViewInv'
  <2>1. \A r : OpenViews(r)' = {}
    BY <1>1 DEF OpenViews, OpenView
  <2>. QED
    BY <1>1, <1>2, <2>1, FS_EmptySet DEF ViewInv
<1>6. PlacedInv'
  BY <1>1, <1>2 DEF PlacedInv
<1>7. \A t \in Tensors(g) : ~Placed(t)'
  BY <1>1, <1>2 DEF Placed
<1>8. AliveInv'
  BY <1>2, <1>7 DEF AliveInv
<1>9. PairInv'
  <2>1. PlacedTensors' = {}
    BY <1>2, <1>7 DEF PlacedTensors
  <2>. QED
    BY <2>1 DEF PairInv, ValuesKept
<1>. QED
  BY <1>3, <1>4, <1>5, <1>6, <1>8, <1>9 DEF WalkInv

LEMMA WalkStep ==
  ASSUME MemoryInv, MemoryInv', WalkInv, [Next]_vars
  PROVE  WalkInv'
<1>1. CASE NextGraph
  <2>1. PICK g \in Asked :
          /\ graph' = g
          /\ StartWalk(g, "sched") \/ StartWalk(g, "alloc") \/ pc' = "place"
    BY <1>1 DEF NextGraph
  <2>2. WellFormed(g)
    BY <2>1 DEF Asked
  <2>. QED
    BY <2>1, <2>2, StartWalkIsKept DEF WalkInv, Walking
<1>2. CASE AllocateLeaf
  BY <1>2, AllocateLeafStep
<1>3. CASE EndLeafs \/ EndCount \/ NextNode
  BY <1>3, LoopStep
<1>4. CASE CountNode
  BY <1>4, CountNodeStep
<1>5. CASE AllocateParent
  BY <1>5, AllocateParentStep
<1>6. CASE AllocateResult
  BY <1>6, AllocateResultStep
<1>7. CASE FreeParent
  BY <1>7, FreeParentStep
<1>8. CASE Abort \/ SavePlan \/ ReserveBuffer \/ EndReserve \/ Place
  BY <1>8 DEF Abort, SavePlan, ReserveBuffer, EndReserve, Place, WalkInv, Walking
<1>9. CASE ReserveFails
  <2>1. CASE caller = "alloc"
    <3>1. StartWalk(graph, "sched") /\ graph' = graph
      BY <1>9, <2>1 DEF ReserveFails
    <3>2. WellFormed(graph)
      BY NoGraphIsWellFormed DEF MemoryInv, PlaceInv
    <3>. QED
      BY <3>1, <3>2, StartWalkIsKept
  <2>2. CASE caller # "alloc"
    BY <1>9, <2>2 DEF ReserveFails, WalkInv, Walking
  <2>. QED
    BY <2>1, <2>2
<1>10. CASE Ended \/ UNCHANGED vars
  <2>1. UNCHANGED vars
    BY <1>10 DEF Ended
  <2>2. UNCHANGED <<graph, pc, at, arg, n_children, n_views, allocated, addr>>
    BY <2>1 DEF vars, walkVars
  <2>3. CASE ~Walking
    BY <2>2, <2>3 DEF WalkInv, Walking
  <2>4. CASE Walking
    <3>1. Walking' /\ LoopInv' /\ AliveInv
      BY <2>2, <2>4 DEF WalkInv, Walking, LoopInv
    <3>2. \A t : Pending(t)' = Pending(t)
      BY <2>2 DEF Pending, ReadsOf, Counted, Nodes, T
    <3>3. \A v : OpenView(v)' <=> OpenView(v)
      BY <2>2, <3>2 DEF OpenView, IsRead, Nodes, T
    <3>4. \A t : Placed(t)' <=> Placed(t)
      BY <2>2 DEF Placed, T
    <3>5. \A t \in Tensors(graph) : Placed(t) /\ ~allocated[t] =>
             /\ pc' \in {"parents", "free"} /\ t < at'
             /\ \A p \in Pending(t) : pc' = "free" /\ p[1] = at'
      BY <2>2, <3>1 DEF AliveInv
    <3>. QED
      BY <2>2, <2>4, <3>1, <3>2, <3>3, <3>4, <3>5, WalkStays
  <2>. QED
    BY <2>3, <2>4
<1>. QED
  BY <1>1, <1>2, <1>3, <1>4, <1>5, <1>6, <1>7, <1>8, <1>9, <1>10 DEF Next

-----------------------------------------------------------------------------
(* From the walk to the addresses: what is kept of a walk is good for its    *)
(* graph, and so for every graph of the same operations that is no larger.   *)

\* The addresses of the last walk.
PlanAddr == [t \in Tensors(planned) |-> plan[t].addr]

PlanInv ==
    /\ WellFormed(planned) /\ DOMAIN plan = Tensors(planned)
    /\ \A t \in Tensors(planned) :
          IF Owns(planned, t)
          THEN plan[t].size_max = planned.tensors[t].size /\ plan[t].addr \in AddrType
          ELSE plan[t] = NoPlan
    /\ ValuesKept(planned, PlanAddr, Owned(planned))

\* Tensor t of g is no larger than the memory planned for it.
HasPlace(g, t) == plan[t] # NoPlan /\ plan[t].size_max >= g.tensors[t].size
\* ggml_gallocr_needs_realloc never looks at it.
Unread(g, t) == t <= g.leafs /\ ~IsRead(g, t)

FitInv ==
    /\ pc = "buffers" => planned = graph
    /\ pc \in {"place", "ready"} /\ SameShape(planned, graph) =>
          \A t \in Owned(graph) : HasPlace(graph, t) \/ Unread(graph, t)
    /\ pc = "ready" => \A t \in Owned(graph) : data[t] = plan[t].addr

LEMMA SameAddressesKept ==
  ASSUME NEW g, NEW A, NEW B, NEW S, ValuesKept(g, A, S), \A t \in S : B[t] = A[t]
  PROVE  ValuesKept(g, B, S)
<1>1. \A t, u \in S : Overlap(g, B, t, u) => Overlap(g, A, t, u)
  BY DEF Overlap
<1>2. \A t, k \in S : InPlace(g, A, k, t) => InPlace(g, B, k, t)
  BY DEF InPlace
<1>. QED
  BY <1>1, <1>2 DEF ValuesKept

LEMMA PlanInit == Init => PlanInv /\ FitInv
<1>. SUFFICES ASSUME Init PROVE PlanInv /\ FitInv
  OBVIOUS
<1>1. /\ graph = NoGraph /\ planned = NoGraph /\ plan = <<>> /\ pc = "ready"
      /\ Tensors(NoGraph) = {}
  BY DEF Init, NoGraph, Tensors
<1>2. Owned(NoGraph) = {}
  BY <1>1 DEF Owned
<1>3. PlanInv
  <2>1. DOMAIN plan = {}
    BY <1>1
  <2>. QED
    BY <1>1, <1>2, <2>1, NoGraphIsWellFormed DEF PlanInv, ValuesKept
<1>4. FitInv
  BY <1>1, <1>2 DEF FitInv
<1>. QED
  BY <1>3, <1>4

\* When the walk is over, all that own memory have been placed.
LEMMA SavePlanKeeps ==
  ASSUME MemoryInv, WalkInv, SavePlan
  PROVE  PlanInv'
<1>1. /\ pc = "parents" /\ at > Len(graph.tensors) /\ WellFormed(graph) /\ MemInv /\ PairInv
      /\ planned' = graph /\ at \in Nat
      /\ plan' = [t \in Tensors(graph) |->
                    IF Owns(graph, t) THEN [addr |-> addr[t], size_max |-> T(t).size] ELSE NoPlan]
  BY DEF SavePlan, MemoryInv, PlaceInv, WalkInv, Walking
<1>2. PlacedTensors = Owned(graph)
  <2>1. ASSUME NEW t \in Tensors(graph) PROVE t < at
    BY <1>1, GraphFacts
  <2>. QED
    BY <1>1, <2>1 DEF PlacedTensors, Placed, Owned
<1>3. \A t \in Tensors(graph) : addr[t] \in AddrType
  BY <1>1 DEF MemInv, TableInv
<1>4. Tensors(planned)' = Tensors(graph)
  BY <1>1 DEF Tensors
<1>5. PICK B : B = PlanAddr'
  OBVIOUS
<1>6. \A t \in Owned(graph) : B[t] = addr[t]
  <2>1. B = [t \in Tensors(graph) |-> plan'[t].addr]
    BY <1>4, <1>5 DEF PlanAddr
  <2>. QED
    BY <1>1, <2>1 DEF Owned
<1>7. ValuesKept(graph, B, Owned(graph))
  BY <1>1, <1>2, <1>6, SameAddressesKept DEF PairInv
<1>8. ValuesKept(planned', PlanAddr', Owned(planned'))
  BY <1>1, <1>5, <1>7
<1>. QED
  BY <1>1, <1>3, <1>4, <1>8 DEF PlanInv, T

LEMMA PlanStep ==
  ASSUME MemoryInv, WalkInv, PlanInv, [Next]_vars
  PROVE  PlanInv'
<1>1. CASE SavePlan
  BY <1>1, SavePlanKeeps
<1>2. CASE ~SavePlan
  <2>1. UNCHANGED <<planned, plan>>
    BY <1>2 DEF Next, vars, keptVars, NextGraph, AllocateLeaf, EndLeafs, EndCount, EndLoop, CountNode,
                AllocateParent, AllocateResult, FreeParent, NextNode, Abort, ReserveBuffer,
                ReserveFails, EndReserve, Place, Ended
  <2>2. PlanAddr' = PlanAddr
    BY <2>1 DEF PlanAddr
  <2>. QED
    BY <2>1, <2>2 DEF PlanInv
<1>. QED
  BY <1>1, <1>2

LEMMA ShapeFacts ==
  ASSUME NEW g, NEW h, SameShape(g, h), NEW t \in Tensors(g)
  PROVE  /\ t \in Tensors(h)
         /\ g.tensors[t].op = h.tensors[t].op /\ g.tensors[t].src = h.tensors[t].src
         /\ g.tensors[t].view = h.tensors[t].view /\ g.tensors[t].input = h.tensors[t].input
         /\ g.tensors[t].output = h.tensors[t].output /\ g.tensors[t].layout = h.tensors[t].layout
BY DEF SameShape

\* What a node may write over depends on the operations alone.
LEMMA ShapeIsEnough ==
  ASSUME NEW g, NEW h, SameShape(g, h), WellFormed(g), WellFormed(h)
  PROVE  /\ Nodes(g) = Nodes(h)
         /\ \A t \in Tensors(g) : Given(g, t) <=> Given(h, t)
         /\ \A n \in Nodes(g) : \A t : Reads(g, n, t) = Reads(h, n, t)
<1>1. g.leafs = h.leafs /\ Tensors(g) = Tensors(h)
  BY DEF SameShape
<1>2. Nodes(g) = Nodes(h)
  <2>1. /\ Nodes(g) = {t \in Tensors(g) : t >= g.leafs + 1}
        /\ Nodes(h) = {t \in Tensors(h) : t >= h.leafs + 1}
    BY DEF WellFormed, Nodes, Tensors
  <2>. QED
    BY <1>1, <2>1
<1>3. ASSUME NEW t \in Tensors(g) PROVE Given(g, t) <=> Given(h, t)
  BY <1>1, ShapeFacts DEF Given
<1>4. ASSUME NEW t \in Tensors(g) PROVE Root(g, t) = Root(h, t)
  BY ShapeFacts DEF Root, IsView
<1>5. ASSUME NEW n \in Nodes(g), NEW t PROVE Reads(g, n, t) = Reads(h, n, t)
  <2>1. n \in Tensors(g)
    BY DEF Nodes, Tensors, WellFormed
  <2>2. g.tensors[n].src = h.tensors[n].src
    BY <2>1, ShapeFacts
  <2>3. \A j \in DOMAIN g.tensors[n].src : g.tensors[n].src[j] \in Tensors(g)
    BY <2>1, SourceFacts
  <2>. QED
    BY <1>4, <2>2, <2>3 DEF Reads
<1>. QED
  BY <1>2, <1>3, <1>5

\* What is kept for graph h is kept for graph g of the same operations, with
\* tensors that are no larger and memory for no more of them.
LEMMA SmallerIsKept ==
  ASSUME NEW g, NEW h, SameShape(h, g), WellFormed(g), WellFormed(h), NEW A, NEW B,
         ValuesKept(h, A, Owned(h)),
         Owned(g) \subseteq Owned(h),
         \A t \in Owned(g) : /\ B[t] = A[t] /\ A[t].offset \in Nat
                             /\ g.tensors[t].size <= h.tensors[t].size
  PROVE  ValuesKept(g, B, Owned(g))
<1>. DEFINE S == Owned(g)
<1>1. S \subseteq Tensors(g) /\ S \subseteq Tensors(h)
  BY DEF Owned
<1>2. \A t \in S : g.tensors[t].size \in Nat /\ h.tensors[t].size \in Nat
  BY <1>1, TensorFacts
<1>3. ASSUME NEW t \in S, NEW u \in S, Overlap(g, B, t, u) PROVE Overlap(h, A, t, u)
  <2>. DEFINE ot == A[t].offset  ou == A[u].offset
              gt == g.tensors[t].size  gu == g.tensors[u].size
              ht == h.tensors[t].size  hu == h.tensors[u].size
  <2>1. /\ ot < ou + gu /\ ou < ot + gt /\ A[t].buffer = A[u].buffer /\ A[t].chunk = A[u].chunk
    BY <1>3 DEF Overlap
  <2>2. /\ ot \in Nat /\ ou \in Nat /\ gt \in Nat /\ gu \in Nat /\ ht \in Nat /\ hu \in Nat
        /\ gt <= ht /\ gu <= hu
    BY <1>2, <1>3
  <2>. HIDE DEF ot, ou, gt, gu, ht, hu
  <2>3. ot < ou + hu /\ ou < ot + ht
    BY <2>1, <2>2
  <2>. QED
    BY <2>1, <2>3 DEF ot, ou, ht, hu, Overlap
<1>4. /\ Nodes(g) = Nodes(h)
      /\ \A t \in Tensors(h) : Given(h, t) <=> Given(g, t)
      /\ \A n \in Nodes(h) : \A t : Reads(h, n, t) = Reads(g, n, t)
  BY ShapeIsEnough
<1>5. ASSUME NEW t \in S, NEW k \in S \cap Nodes(g), NeededAt(g, t, k) PROVE NeededAt(h, t, k)
  BY <1>1, <1>4, <1>5, ShapeFacts DEF NeededAt
<1>6. ASSUME NEW t \in S, NEW k \in S \cap Nodes(g), InPlace(h, A, k, t) PROVE InPlace(g, B, k, t)
  <2>1. /\ h.tensors[k].op = g.tensors[k].op /\ h.tensors[k].layout = g.tensors[k].layout
        /\ h.tensors[k].src = g.tensors[k].src
        /\ h.tensors[t].layout = g.tensors[t].layout /\ h.tensors[t].output = g.tensors[t].output
    BY <1>1, ShapeFacts
  <2>2. Reads(h, k, t) = Reads(g, k, t) /\ \A n \in Nodes(g) : Reads(h, n, t) = Reads(g, n, t)
    BY <1>4
  <2>. QED
    BY <1>4, <1>6, <2>1, <2>2 DEF InPlace
<1>7. ASSUME NEW t \in S, NEW k \in S \cap Nodes(g), k # t, ~g.tensors[k].input, NeededAt(g, t, k)
      PROVE  ~Overlap(g, B, t, k) \/ InPlace(g, B, k, t)
  <2>1. ~h.tensors[k].input /\ k \in Owned(h) \cap Nodes(h) /\ t \in Owned(h)
    BY <1>1, <1>4, <1>7, ShapeFacts
  <2>2. NeededAt(h, t, k)
    BY <1>5, <1>7
  <2>3. ~Overlap(h, A, t, k) \/ InPlace(h, A, k, t)
    BY <1>7, <2>1, <2>2 DEF ValuesKept
  <2>. QED
    BY <1>3, <1>6, <1>7, <2>3
<1>8. ASSUME NEW t \in S, NEW u \in S \ {t}, Given(g, t), Given(g, u)
      PROVE  ~Overlap(g, B, t, u)
  <2>1. Given(h, t) /\ Given(h, u) /\ t \in Owned(h) /\ u \in Owned(h) \ {t}
    BY <1>1, <1>4, <1>8
  <2>. QED
    BY <1>3, <1>8, <2>1 DEF ValuesKept
<1>. QED
  BY <1>7, <1>8 DEF ValuesKept

\* A graph that needs no new walk finds room for each of its tensors that is looked at.
LEMMA NoNeedFits ==
  ASSUME PlanInv, NEW g, WellFormed(g), ~NeedsRealloc(g), SameShape(planned, g), NEW t \in Owned(g)
  PROVE  HasPlace(g, t) \/ Unread(g, t)
<1>1. t \in Tensors(g) /\ Owns(g, t)
  BY DEF Owned
<1>2. CASE t \in Nodes(g)
  <2>1. StillFits(g, t, plan[t])
    BY <1>2 DEF NeedsRealloc
  <2>. QED
    BY <1>1, <2>1 DEF StillFits, HasPlace
<1>3. CASE t \notin Nodes(g) /\ ~IsRead(g, t)
  BY <1>1, <1>3 DEF Nodes, WellFormed, Tensors, Unread
<1>4. CASE IsRead(g, t)
  <2>1. IsRead(g, t)
    BY <1>4
  <2>node. PICK k \in Nodes(g) : \E j \in DOMAIN g.tensors[k].src : g.tensors[k].src[j] = t
    BY <2>1 DEF IsRead
  <2>2. PICK j \in DOMAIN g.tensors[k].src : g.tensors[k].src[j] = t
    BY <2>node
  <2>3. StillFits(g, g.tensors[k].src[j], SrcPlan(k, j))
    BY <2>2 DEF NeedsRealloc
  <2>4. planned.tensors[k].src = g.tensors[k].src
    <3>1. k \in Tensors(planned)
      BY <2>2 DEF SameShape, Nodes, WellFormed, Tensors
    <3>. QED
      BY <3>1, ShapeFacts
  <2>5. SrcPlan(k, j) = plan[t]
    BY <2>2, <2>4 DEF SrcPlan
  <2>. QED
    BY <1>1, <2>2, <2>3, <2>5 DEF StillFits, HasPlace
<1>. QED
  BY <1>2, <1>3, <1>4

\* The graph of the last walk fits.
LEMMA PlannedFits ==
  ASSUME PlanInv, planned = graph, NEW t \in Owned(graph)
  PROVE  HasPlace(graph, t)
<1>1. t \in Tensors(planned) /\ Owns(planned, t) /\ WellFormed(planned)
  BY DEF Owned, PlanInv
<1>2. plan[t].size_max = T(t).size /\ T(t).size \in Nat \ {0}
  BY <1>1, TensorFacts DEF PlanInv, T
<1>. QED
  BY <1>2 DEF NoPlan, HasPlace, T

\* If the unread leafs fit, all tensors do.
LEMMA AllHavePlace ==
  ASSUME MemoryInv, FitInv, UnreadFit, pc \in {"place", "ready"}, SameShape(planned, graph),
         NEW t \in Owned(graph)
  PROVE  HasPlace(graph, t)
<1>1. WellFormed(graph) /\ t \in Tensors(graph) /\ Owns(graph, t)
  BY NoGraphIsWellFormed DEF MemoryInv, PlaceInv, Owned
<1>2. CASE Unread(graph, t)
  <2>1. t \in 1 .. graph.leafs
    BY <1>1, <1>2, GraphFacts DEF Unread
  <2>. QED
    BY <1>1, <1>2, <2>1 DEF UnreadFit, Unread, StillFits, HasPlace
<1>. QED
  BY <1>2 DEF FitInv

LEMMA FitStep ==
  ASSUME MemoryInv, PlanInv, FitInv, [Next]_vars
  PROVE  FitInv'
<1>1. CASE NextGraph
  <2>1. PICK g \in Asked :
          /\ graph' = g
          /\ \/ StartWalk(g, "sched") \/ StartWalk(g, "alloc")
             \/ ~NeedsRealloc(g) /\ pc' = "place"
    BY <1>1 DEF NextGraph
  <2>2. WellFormed(g)
    BY <2>1 DEF Asked
  <2>3. CASE StartWalk(g, "sched") \/ StartWalk(g, "alloc")
    BY <2>3 DEF StartWalk, FitInv
  <2>4. CASE ~NeedsRealloc(g) /\ pc' = "place"
    <3>1. UNCHANGED <<planned, plan>>
      BY <1>1 DEF NextGraph, keptVars
    <3>2. SameShape(planned, g) =>
             \A t \in Owned(g) : HasPlace(g, t) \/ Unread(g, t)
      BY <2>2, <2>4, NoNeedFits
    <3>. QED
      BY <2>1, <2>4, <3>1, <3>2 DEF FitInv, HasPlace
  <2>. QED
    BY <2>1, <2>3, <2>4
<1>2. CASE SavePlan
  BY <1>2 DEF SavePlan, FitInv
<1>3. CASE ReserveBuffer
  BY <1>3 DEF ReserveBuffer, FitInv
<1>4. CASE ReserveFails \/ EndReserve
  <2>1. UNCHANGED <<graph, planned, plan>> /\ planned = graph
    BY <1>4 DEF ReserveFails, EndReserve, keptVars, FitInv
  <2>2. pc' \in {"leafs", "place"}
    BY <1>4 DEF ReserveFails, EndReserve, StartWalk
  <2>3. \A t \in Owned(graph) : HasPlace(graph, t)
    BY <2>1, PlannedFits
  <2>. QED
    BY <2>1, <2>2, <2>3 DEF FitInv, HasPlace
<1>5. CASE Place
  <2>1. UNCHANGED <<graph, planned, plan>> /\ pc = "place"
    BY <1>5 DEF Place, keptVars
  <2>2. CASE pc' = "ready" /\ data' = [t \in Tensors(graph) |->
                                          IF Owns(graph, t) THEN plan[t].addr ELSE Nowhere]
    <3>1. \A t \in Owned(graph) : data'[t] = plan[t].addr
      BY <2>2 DEF Owned
    <3>. QED
      BY <2>1, <2>2, <3>1 DEF FitInv, HasPlace
  <2>3. CASE pc' = "crashed"
    BY <2>3 DEF FitInv
  <2>. QED
    BY <1>5, <2>2, <2>3 DEF Place
<1>6. CASE \/ AllocateLeaf \/ EndLeafs \/ CountNode \/ EndCount \/ AllocateParent \/ AllocateResult
           \/ FreeParent \/ NextNode \/ Abort
  BY <1>6 DEF FitInv, AllocateLeaf, EndLeafs, EndCount, EndLoop, CountNode,
              AllocateParent, AllocateResult, FreeParent, NextNode, Abort
<1>7. CASE Ended \/ UNCHANGED vars
  <2>1. UNCHANGED <<graph, planned, plan, pc, data>>
    BY <1>7 DEF Ended, vars, keptVars
  <2>. QED
    BY <2>1 DEF FitInv, HasPlace
<1>. QED
  BY <1>1, <1>2, <1>3, <1>4, <1>5, <1>6, <1>7 DEF Next

LEMMA PlacedIsKept == MemoryInv /\ PlanInv /\ FitInv => ValuesSurvive
<1>. SUFFICES ASSUME MemoryInv, PlanInv, FitInv, pc = "ready", SameShape(planned, graph),
                     UnreadFit
              PROVE  ValuesKept(graph, data, Owned(graph))
  BY DEF ValuesSurvive
<1>1. WellFormed(graph) /\ WellFormed(planned)
  BY NoGraphIsWellFormed DEF MemoryInv, PlaceInv, PlanInv
<1>2. ASSUME NEW t \in Owned(graph)
      PROVE  /\ t \in Owned(planned)
             /\ data[t] = PlanAddr[t] /\ PlanAddr[t].offset \in Nat
             /\ graph.tensors[t].size <= planned.tensors[t].size
  <2>1. plan[t] # NoPlan /\ plan[t].size_max >= T(t).size /\ data[t] = plan[t].addr
    BY AllHavePlace DEF FitInv, HasPlace, T
  <2>2. t \in Tensors(graph) /\ t \in Tensors(planned)
    BY DEF Owned, SameShape
  <2>3. Owns(planned, t) /\ plan[t].size_max = planned.tensors[t].size /\ plan[t].addr \in AddrType
    BY <2>1, <2>2 DEF PlanInv
  <2>4. graph.tensors[t].size \in Nat /\ planned.tensors[t].size \in Nat
    BY <1>1, <2>2, TensorFacts
  <2>. QED
    BY <2>1, <2>2, <2>3, <2>4 DEF Owned, PlanAddr, AddrType, T
<1>3. Owned(graph) \subseteq Owned(planned)
  BY <1>2
<1>4. ValuesKept(planned, PlanAddr, Owned(planned))
  BY DEF PlanInv
<1>. QED
  BY <1>1, <1>2, <1>3, <1>4, SmallerIsKept

\* Computing a graph loses no value, for any graphs, sizes, alignment, numbers of
\* chunks and blocks: no node writes over what a later node, a view or the caller
\* is still to read, whether the addresses were found for this graph or for an
\* earlier one of the same operations, as long as the leafs that no node reads have
\* not outgrown that one's (ggml_gallocr_needs_realloc, ggml_gallocr_free_node,
\* ggml_gallocr_allocate_node and the loops that count readers and views).
THEOREM NoValueIsLost == Spec => []ValuesSurvive
<1>. DEFINE IInv == MemoryInv /\ WalkInv /\ PlanInv /\ FitInv
<1>1. Init => IInv
  <2>1. Init => ~Walking
    BY DEF Init, Walking
  <2>. QED
    BY <2>1, MemoryInit, PlanInit DEF WalkInv
<1>2. IInv /\ [Next]_vars => IInv'
  BY MemoryStep, WalkStep, PlanStep, FitStep
<1>3. IInv => ValuesSurvive
  BY PlacedIsKept
<1>. QED
  BY <1>1, <1>2, <1>3, PTL DEF Spec

-----------------------------------------------------------------------------
(* The lists of free blocks stay short, and the chunks large enough.         *)

LEMMA SizeExcept ==
  ASSUME NEW k \in Block, NEW n
  PROVE  [k EXCEPT !.size = @ + n] = [offset |-> k.offset, size |-> k.size + n]
BY DEF Block

LEMMA JoinedIsNoLonger ==
  ASSUME NEW free \in Seq(Block), NEW i \in DOMAIN free
  PROVE  Joined(free, i) \in Seq(Block) /\ Len(Joined(free, i)) <= Len(free)
<1>1. CASE i < Len(free) /\ End(free[i]) = free[i + 1].offset
  <2>. DEFINE B == [offset |-> free[i].offset, size |-> free[i].size + free[i + 1].size]
              g == [free EXCEPT ![i] = B]
  <2>1. /\ i \in Nat /\ i + 1 \in 1 .. Len(free) /\ i + 1 \in DOMAIN free
        /\ free[i] \in Block /\ free[i + 1] \in Block
    BY <1>1
  <2>2. B \in Block
    <3>1. free[i].offset \in Nat /\ free[i].size \in Nat /\ free[i + 1].size \in Nat
      BY <2>1, BlockType
    <3>2. free[i].size + free[i + 1].size \in Nat
      BY <3>1
    <3>. QED
      BY <3>1, <3>2 DEF Block
  <2>b. [free[i] EXCEPT !.size = @ + free[i + 1].size] = B
    BY <2>1, SizeExcept
  <2>. HIDE DEF B
  <2>3. g \in Seq(Block) /\ Len(g) = Len(free)
    BY <2>2
  <2>4. Joined(free, i) = RemoveAt(g, i + 1)
    BY <1>1, <2>b DEF Joined
  <2>. HIDE DEF g
  <2>5. RemoveAt(g, i + 1) \in Seq(Block) /\ Len(RemoveAt(g, i + 1)) = Len(g) - 1
    BY <2>1, <2>3, RemoveAtIs
  <2>. QED
    BY <2>3, <2>4, <2>5
<1>2. CASE ~(i < Len(free) /\ End(free[i]) = free[i + 1].offset)
  BY <1>2 DEF Joined
<1>. QED
  BY <1>1, <1>2

\* ggml_dyn_tallocr_free_bytes adds a block only if the bytes touch none.
LEMMA FreedAddsABlock ==
  ASSUME NEW free \in Seq(Block), NEW offset \in Nat, NEW size \in Nat
  PROVE  /\ Touching(free, offset, size) = {} => Len(Freed(free, offset, size)) = Len(free) + 1
         /\ Touching(free, offset, size) # {} => Len(Freed(free, offset, size)) <= Len(free)
<1>. DEFINE touching == Touching(free, offset, size)  i == Min(touching)
            block == [offset |-> offset, size |-> size]
<1>1. DOMAIN free = 1 .. Len(free) /\ Len(free) \in Nat /\ touching \in SUBSET DOMAIN free
  BY DEF Touching
<1>2. CASE touching = {}
  <2>. DEFINE K == {k \in 1 .. Len(free) + 1 : k = Len(free) + 1 \/ free[k].offset >= offset}
  <2>1. K \in SUBSET Nat /\ Len(free) + 1 \in K
    BY <1>1
  <2>2. InsertPos(free, offset) \in K
    BY <2>1, MinOfNats DEF InsertPos
  <2>3. InsertPos(free, offset) \in 1 .. Len(free) + 1 /\ block \in Block
    BY <2>2 DEF Block
  <2>. HIDE DEF block
  <2>4. Len(InsertAt(free, InsertPos(free, offset), block)) = Len(free) + 1
    BY <2>3, InsertAtIs
  <2>. QED
    BY <1>2, <2>4 DEF Freed, block
<1>3. CASE touching # {}
  <2>1. i \in touching /\ i \in DOMAIN free /\ i \in Nat
    <3>1. touching \in SUBSET Nat
      BY <1>1
    <3>. QED
      BY <1>1, <1>3, <3>1, MinOfNats
  <2>. HIDE DEF i
  <2>2. free[i] \in Block /\ free[i].offset \in Nat /\ free[i].size \in Nat
    BY <2>1, BlockType
  <2>3. CASE End(free[i]) = offset
    <3>. DEFINE B == [offset |-> free[i].offset, size |-> free[i].size + size]  g == [free EXCEPT ![i] = B]
    <3>1. B \in Block
      BY <2>2 DEF Block
    <3>b. [free[i] EXCEPT !.size = @ + size] = B
      BY <2>2, SizeExcept
    <3>. HIDE DEF B
    <3>2. g \in Seq(Block) /\ Len(g) = Len(free) /\ DOMAIN g = DOMAIN free
      BY <2>1, <3>1
    <3>3. Freed(free, offset, size) = Joined(g, i)
      BY <1>3, <2>3, <3>b DEF Freed, i
    <3>. HIDE DEF g
    <3>. QED
      BY <1>3, <2>1, <3>2, <3>3, JoinedIsNoLonger
  <2>4. CASE End(free[i]) # offset
    <3>. DEFINE B == [offset |-> offset, size |-> free[i].size + size]  g == [free EXCEPT ![i] = B]
    <3>1. B \in Block
      BY <2>2 DEF Block
    <3>. HIDE DEF B
    <3>2. g \in Seq(Block) /\ Len(g) = Len(free) /\ DOMAIN g = DOMAIN free
      BY <2>1, <3>1
    <3>3. Freed(free, offset, size) = IF i > 1 THEN Joined(g, i - 1) ELSE g
      BY <1>3, <2>4 DEF Freed, i, B
    <3>. HIDE DEF g
    <3>4. i > 1 => i - 1 \in DOMAIN g
      BY <1>1, <2>1, <3>2
    <3>5. i > 1 => Len(Joined(g, i - 1)) <= Len(g)
      BY <3>2, <3>4, JoinedIsNoLonger
    <3>. QED
      BY <1>1, <1>3, <3>2, <3>3, <3>5
  <2>. QED
    BY <2>3, <2>4
<1>. QED
  BY <1>2, <1>3

ListInv ==
    \A b \in 1 .. Buffers : \A c \in DOMAIN chunks[b] : Len(chunks[b][c].free) <= MaxFreeBlocks

\* What the chunks have is no less: the same chunks, the bytes that were free.
NoneLost ==
    \A b \in 1 .. Buffers :
       /\ DOMAIN chunks'[b] = DOMAIN chunks[b] /\ Len(chunks'[b]) = Len(chunks[b])
       /\ \A c \in DOMAIN chunks[b] :
             /\ chunks'[b][c].max_size = chunks[b][c].max_size
             /\ \A x \in Nat : InFree(chunks[b][c].free, x) => InFree(chunks'[b][c].free, x)

\* Bytes that are not free can be returned.
LEMMA ReleaseKeeps ==
  ASSUME MemInv, ListInv, NEW a, NEW size \in Nat \ {0}, Release(a, size),
         a.buffer \in 1 .. Buffers, a.chunk \in DOMAIN chunks[a.buffer], a.offset \in Nat,
         \A x \in Nat : a.offset <= x /\ x < a.offset + size
                        => ~InFree(chunks[a.buffer][a.chunk].free, x)
  PROVE  ListInv' /\ NoneLost
<1>. DEFINE B == a.buffer  C == a.chunk  old == chunks[B][C].free  new == Freed(old, a.offset, size)
<1>1. chunks' = [chunks EXCEPT ![B] = FreeBytes(@, C, a.offset, size)] /\ HasRoom(a, size)
  BY DEF Release
<1>2. Tidy(old) /\ old \in Seq(Block)
  BY PartedSole DEF MemInv, PartedInv, Tidy
<1>3. Tidy(new) /\ \A x \in Nat : InFree(old, x) => InFree(new, x)
  BY <1>2, FreedAddsTheBytes
<1>4. Len(new) <= MaxFreeBlocks
  <2>1. Len(old) <= MaxFreeBlocks /\ Len(old) \in Nat /\ MaxFreeBlocks \in Nat
    BY <1>2, TallocrAssumption DEF ListInv, TallocrAssumption
  <2>2. Touching(old, a.offset, size) # {} \/ Len(old) < MaxFreeBlocks
    BY <1>1 DEF HasRoom, HasRoomToFree
  <2>3. Len(new) \in Nat
    BY <1>3 DEF Tidy
  <2>. HIDE DEF old
  <2>4. /\ Touching(old, a.offset, size) = {} => Len(new) = Len(old) + 1
        /\ Touching(old, a.offset, size) # {} => Len(new) <= Len(old)
    BY <1>2, FreedAddsABlock
  <2>. HIDE DEF new
  <2>. QED
    BY <2>1, <2>2, <2>3, <2>4
<1>5. /\ chunks' = [chunks EXCEPT ![B] = [chunks[B] EXCEPT ![C].free = new]]
      /\ B \in 1 .. Buffers /\ C \in DOMAIN chunks[B] /\ old = chunks[B][C].free
  BY <1>1 DEF FreeBytes
<1>. HIDE DEF new, B, C, old
<1>6. /\ \A b \in 1 .. Buffers : /\ DOMAIN chunks'[b] = DOMAIN chunks[b]
                                 /\ Len(chunks'[b]) = Len(chunks[b])
      /\ chunks'[B][C].free = new
      /\ chunks'[B][C].max_size = chunks[B][C].max_size
      /\ \A b \in 1 .. Buffers : \A c \in DOMAIN chunks[b] :
            ~(b = B /\ c = C) => chunks'[b][c] = chunks[b][c]
  BY <1>3, <1>5, ReleaseType, ZenonT(30)
<1>7. ListInv'
  <2>1. ASSUME NEW b \in 1 .. Buffers, NEW c \in DOMAIN chunks[b]
        PROVE  Len(chunks'[b][c].free) <= MaxFreeBlocks
    <3>1. CASE b = B /\ c = C
      BY <1>4, <1>6, <3>1
    <3>2. CASE ~ (b = B /\ c = C)
      <4>1. chunks'[b][c] = chunks[b][c]
        BY <1>6, <3>2
      <4>. QED
        BY <4>1 DEF ListInv
    <3>. QED
      BY <3>1, <3>2
  <2>. QED
    BY <1>6, <2>1 DEF ListInv
<1>8. NoneLost
  BY <1>3, <1>5, <1>6 DEF NoneLost
<1>. QED
  BY <1>7, <1>8

\* The memory of what the walk has placed lies in a chunk, below its highest address.
Within(a, size, cs) ==
    /\ a.buffer \in 1 .. Buffers /\ a.chunk \in DOMAIN cs[a.buffer]
    /\ a.offset + size <= cs[a.buffer][a.chunk].max_size
HeldInv ==
    \A t \in Tensors(graph) : addr[t] # Nowhere => Within(addr[t], aligned(T(t).size), chunks)

\* The last chunk is free from its highest address to its end.
FreeAbove(k) == \A x \in Nat : k.max_size <= x /\ x < Endless => InFree(k.free, x)
LastInv ==
    \A b \in 1 .. Buffers : Len(chunks[b]) = MaxChunks => FreeAbove(chunks[b][MaxChunks])

\* No chunk is gone or smaller.
NoneSmaller ==
    \A b \in 1 .. Buffers : \A c \in DOMAIN chunks[b] :
       c \in DOMAIN chunks'[b] /\ chunks[b][c].max_size <= chunks'[b][c].max_size

\* None has grown by more than n bytes.
SizeOf(b, c) == IF c \in DOMAIN chunks[b] THEN chunks[b][c].max_size ELSE 0
GrownBy(n) ==
    \A b \in 1 .. Buffers : \A c \in DOMAIN chunks'[b] : chunks'[b][c].max_size <= SizeOf(b, c) + n

LEMMA ChunkFacts ==
  ASSUME MemInv, NEW b \in 1 .. Buffers
  PROVE  /\ chunks[b] \in Seq(Chunk) /\ DOMAIN chunks[b] = 1 .. Len(chunks[b])
         /\ Len(chunks[b]) \in Nat /\ Len(chunks[b]) <= MaxChunks
         /\ \A c \in DOMAIN chunks[b] :
               /\ chunks[b][c].max_size \in Nat /\ Tidy(chunks[b][c].free)
               /\ chunks[b][c].free \in Seq(Block) /\ Len(chunks[b][c].free) \in Nat
         /\ \A c : SizeOf(b, c) \in Nat
<1>1. chunks[b] \in Seq(Chunk) /\ Len(chunks[b]) <= MaxChunks
  BY DEF MemInv, TableInv
<1>2. ASSUME NEW c \in DOMAIN chunks[b]
      PROVE  /\ chunks[b][c].max_size \in Nat /\ Tidy(chunks[b][c].free)
             /\ chunks[b][c].free \in Seq(Block) /\ Len(chunks[b][c].free) \in Nat
  <2>1. chunks[b][c] \in Chunk
    BY <1>1
  <2>2. Tidy(chunks[b][c].free)
    BY PartedSole DEF MemInv, PartedInv
  <2>. QED
    BY <2>1, <2>2 DEF Chunk, Tidy
<1>. QED
  BY <1>1, <1>2 DEF SizeOf

LEMMA CutIsNoLonger ==
  ASSUME NEW cs \in Seq(Chunk), NEW c \in DOMAIN cs, cs[c].free \in Seq(Block),
         NEW i \in DOMAIN cs[c].free, NEW size \in Nat, cs[c].free[i].size >= size
  PROVE  LET new == Cut(cs, <<c, i>>, size)
         IN  /\ Len(new[c].free) <= Len(cs[c].free)
             /\ cs[c].max_size <= new[c].max_size
             /\ cs[c].free[i].offset + size <= new[c].max_size
<1>. DEFINE free == cs[c].free  block == free[i]
            B == [offset |-> block.offset + size, size |-> block.size - size]
            list == IF block.size = size THEN RemoveAt(free, i) ELSE [free EXCEPT ![i] = B]
            top == Max({cs[c].max_size, block.offset + size})
            new == Cut(cs, <<c, i>>, size)
<1>1. /\ cs[c].max_size \in Nat /\ block.offset \in Nat /\ block.size \in Nat
  <2>1. cs[c] \in Chunk
    OBVIOUS
  <2>2. free \in Seq(Block) /\ i \in DOMAIN free
    OBVIOUS
  <2>3. block.offset \in Nat /\ block.size \in Nat
    BY <2>2, BlockType
  <2>. QED
    BY <2>1, <2>3 DEF Chunk
<1>2. new = [cs EXCEPT ![c] = [free |-> list, max_size |-> top]]
  BY DEF Cut, BlockAt
<1>3. cs[c].max_size <= top /\ block.offset + size <= top
  <2>0. block.offset \in Nat /\ size \in Nat
    BY <1>1
  <2>. HIDE DEF block
  <2>1. block.offset + size \in Nat
    BY <2>0
  <2>. QED
    BY <1>1, <2>1, MaxOfTwo
<1>4. Len(list) <= Len(free)
  <2>. DEFINE r == RemoveAt(free, i)
  <2>1. free \in Seq(Block) /\ i \in 1 .. Len(free)
    OBVIOUS
  <2>2. Len(r) = Len(free) - 1
    BY <2>1, RemoveAtIs
  <2>3. Len([free EXCEPT ![i] = B]) = Len(free)
    OBVIOUS
  <2>. HIDE DEF r, B
  <2>4. Len(free) \in Nat
    BY <2>1
  <2>. QED
    BY <2>2, <2>3, <2>4 DEF r
<1>. HIDE DEF list, top, new
<1>5. new[c].free = list /\ new[c].max_size = top
  BY <1>2
<1>. QED
  BY <1>3, <1>4, <1>5 DEF new

\* A free block begins no higher than the highest address handed out.
LEMMA BlockIsBelow ==
  ASSUME MemInv, HeldInv, WellFormed(graph), NEW b \in 1 .. Buffers, NEW c \in DOMAIN chunks[b],
         NEW i \in DOMAIN chunks[b][c].free
  PROVE  chunks[b][c].free[i].offset <= chunks[b][c].max_size
<1>. DEFINE free == chunks[b][c].free  top == chunks[b][c].max_size  off == free[i].offset
            x == off - 1
<1>1. /\ Parted(free, top, owners(b, c)) /\ Tidy(free) /\ top \in Nat
  BY ChunkFacts DEF MemInv, PartedInv
<1>2. off \in Nat /\ off < End(free[i]) /\ End(free[i]) \in Nat
  BY <1>1, TidyBlock
<1>3. CASE off = 0
  BY <1>1, <1>3
<1>4. CASE off # 0
  <2>1. x \in Nat /\ x < off
    BY <1>2, <1>4
  <2>2. InFree(free, off)
    BY <1>2 DEF InFree, InBlock
  <2>3. ~InFree(free, x)
    <3>1. SUFFICES ASSUME NEW k \in DOMAIN free, InBlock(free[k], x) PROVE FALSE
      BY DEF InFree
    <3>2. /\ k \in Nat /\ i \in Nat /\ free[k].offset \in Nat /\ End(free[k]) \in Nat
          /\ \A j, l \in DOMAIN free : j < l => End(free[j]) < free[l].offset
      BY <1>1, TidyBlock DEF Tidy
    <3>3. free[k].offset <= x /\ x < End(free[k])
      BY <3>1 DEF InBlock
    <3>4. CASE k < i
      BY <1>2, <2>1, <3>2, <3>3, <3>4
    <3>5. CASE k = i
      BY <1>2, <2>1, <3>3, <3>5
    <3>6. CASE i < k
      BY <1>2, <2>1, <3>2, <3>3, <3>6
    <3>. QED
      BY <3>2, <3>4, <3>5, <3>6
  <2>4. owners(b, c)[x] # {}
    BY <1>1, <1>2, <2>1, <2>2, <2>3 DEF Parted
  <2>5. PICK t \in Tensors(graph) : allocated[t] /\ Covers(t, addr[t], b, c, x)
    BY <2>1, <2>4 DEF owners
  <2>6. addr[t].buffer = b /\ addr[t].chunk = c /\ x < addr[t].offset + aligned(T(t).size)
    BY <2>5 DEF Covers
  <2>7. addr[t] # Nowhere /\ addr[t].offset \in Nat
    BY <2>5, <2>6 DEF Nowhere, MemInv, TableInv, AddrType
  <2>8. addr[t].offset + aligned(T(t).size) <= top
    BY <2>6, <2>7 DEF HeldInv, Within
  <2>9. aligned(T(t).size) \in Nat
    BY TensorFacts DEF T
  <2>10. x < top
    BY <1>1, <2>1, <2>6, <2>7, <2>8, <2>9
  <2>. QED
    BY <1>1, <1>2, <2>10
<1>. QED
  BY <1>3, <1>4

\* Memory of its own for a tensor: the chunks grow by its size at most.
LEMMA AllocateBounds ==
  ASSUME MemInv, ListInv, HeldInv, LastInv, WellFormed(graph),
         NEW t \in Tensors(graph), Allocate(t)
  PROVE  /\ ListInv' /\ LastInv' /\ NoneSmaller /\ GrownBy(aligned(T(t).size))
         /\ \E a : /\ addr' = [addr EXCEPT ![t] = a] /\ a # Nowhere
                   /\ Within(a, aligned(T(t).size), chunks')
<1>. DEFINE b0 == T(t).buffer  size == aligned(T(t).size)  old == chunks[b0]
            full == Full(old, size)
            cs == IF full THEN NewChunk(old, size) ELSE old
<1>1. b0 \in 1 .. Buffers /\ size \in Nat \ {0} /\ size <= Endless
  BY TensorFacts DEF T
<1>2. PICK p : /\ IF full THEN p = <<Len(cs), 1>> ELSE Chosen(cs, size, p)
               /\ addr' = [addr EXCEPT ![t] =
                             [buffer |-> b0, chunk |-> p[1], offset |-> BlockAt(cs, p).offset]]
               /\ chunks' = [chunks EXCEPT ![b0] = Cut(cs, p, size)]
  BY DEF Allocate
<1>3. full => Len(old) < MaxChunks
  BY DEF Allocate
<1>4. /\ old \in Seq(Chunk) /\ DOMAIN old = 1 .. Len(old) /\ Len(old) \in Nat
      /\ \A c \in DOMAIN old : /\ old[c].max_size \in Nat /\ Tidy(old[c].free)
                               /\ Len(old[c].free) <= MaxFreeBlocks
      /\ \A c \in DOMAIN old : \A i \in DOMAIN old[c].free : old[c].free[i].offset <= old[c].max_size
      /\ Len(old) = MaxChunks => FreeAbove(old[MaxChunks])
      /\ chunks \in [1 .. Buffers -> Seq(Chunk)]
  BY <1>1, ChunkFacts, BlockIsBelow DEF ListInv, LastInv, MemInv, TableInv
<1>. HIDE DEF b0, size, old
<1>5. MaxChunks \in Nat \ {0} /\ MaxFreeBlocks \in Nat \ {0} /\ Endless \in Nat
  BY TallocrAssumption DEF TallocrAssumption
<1>6. /\ cs \in Seq(Chunk) /\ DOMAIN cs = 1 .. Len(cs) /\ Len(cs) \in Nat
      /\ \A c \in DOMAIN old : c \in DOMAIN cs /\ cs[c] = old[c]
      /\ \A c \in DOMAIN cs : /\ Tidy(cs[c].free) /\ Len(cs[c].free) <= MaxFreeBlocks
                              /\ cs[c].max_size \in Nat
                              /\ cs[c].max_size = IF c \in DOMAIN old THEN old[c].max_size ELSE 0
      /\ Len(cs) = MaxChunks => FreeAbove(cs[MaxChunks])
      /\ \E c \in DOMAIN cs : \E i \in DOMAIN cs[c].free :
            p = <<c, i>> /\ cs[c].free[i].size >= size /\ cs[c].free[i].offset <= cs[c].max_size
  <2>1. CASE ~full
    <3>1. cs = old /\ Chosen(cs, size, p)
      BY <1>2, <2>1
    <3>. HIDE DEF cs
    <3>2. PICK c \in DOMAIN cs : \E i \in DOMAIN cs[c].free : p = <<c, i>> /\ cs[c].free[i].size >= size
      BY <1>1, <1>4, <3>1, ChosenFits
    <3>. QED
      BY <1>4, <3>1, <3>2
  <2>2. CASE full
    <3>. DEFINE n == Len(old) + 1
    <3>1. cs = NewChunk(old, size) /\ p = <<Len(cs), 1>>
      BY <1>2, <2>2
    <3>2. n = MaxChunks => cs[n] = [free |-> <<[offset |-> 0, size |-> Endless]>>, max_size |-> 0]
      <4>1. n = MaxChunks => Len(old) = MaxChunks - 1
        BY <1>4, <1>5
      <4>2. ASSUME NEW k PROVE Append(old, k)[n] = k
        BY <1>4
      <4>. QED
        BY <3>1, <4>1, <4>2 DEF NewChunk
    <3>. HIDE DEF cs
    <3>3. /\ cs \in Seq(Chunk) /\ Len(cs) = n
          /\ \A c \in DOMAIN old : c \in DOMAIN cs /\ cs[c] = old[c]
          /\ \A c \in DOMAIN cs : c \in DOMAIN old \/ c = n
          /\ n \in DOMAIN cs /\ Tidy(cs[n].free) /\ cs[n].max_size = 0
          /\ DOMAIN cs[n].free = {1} /\ cs[n].free[1].offset = 0
          /\ cs[n].free[1].size >= size
      BY <1>1, <1>4, <3>1, NewChunkIsFree
    <3>4. n \notin DOMAIN old /\ DOMAIN cs = 1 .. Len(cs) /\ n \in Nat
      BY <1>4, <3>3
    <3>5. Len(cs[n].free) = 1
      <4>1. cs[n].free \in Seq(Block)
        BY <3>3 DEF Tidy
      <4>2. PICK l \in Nat : l = Len(cs[n].free) /\ DOMAIN cs[n].free = 1 .. l
        BY <4>1
      <4>3. 1 .. l = {1}
        BY <3>3, <4>2
      <4>4. l = 1
        BY <4>3
      <4>. QED
        BY <4>2, <4>4
    <3>6. n = MaxChunks => FreeAbove(cs[n])
      <4>1. SUFFICES ASSUME n = MaxChunks, NEW x \in Nat, x < Endless PROVE InFree(cs[n].free, x)
        BY DEF FreeAbove
      <4>. DEFINE e == [offset |-> 0, size |-> Endless]
      <4>2. cs[n].free = <<e>>
        BY <3>2, <4>1
      <4>3. InBlock(e, x)
        BY <1>5, <4>1 DEF InBlock, End
      <4>. HIDE DEF e
      <4>. QED
        BY <4>2, <4>3 DEF InFree
    <3>. HIDE DEF n
    <3>7. ASSUME NEW c \in DOMAIN cs
          PROVE  /\ Tidy(cs[c].free) /\ Len(cs[c].free) <= MaxFreeBlocks
                 /\ cs[c].max_size \in Nat
                 /\ cs[c].max_size = IF c \in DOMAIN old THEN old[c].max_size ELSE 0
      <4>1. CASE c \in DOMAIN old
        BY <1>4, <3>3, <4>1
      <4>2. CASE c = n
        <5>1. 1 <= MaxFreeBlocks
          BY <1>5
        <5>2. Tidy(cs[n].free) /\ Len(cs[n].free) = 1 /\ cs[n].max_size = 0 /\ n \notin DOMAIN old
          BY <3>3, <3>4, <3>5
        <5>. QED
          BY <4>2, <5>1, <5>2
      <4>. QED
        BY <3>3, <4>1, <4>2
    <3>8. n \in DOMAIN cs /\ 1 \in DOMAIN cs[n].free /\ p = <<n, 1>> /\ cs[n].free[1].offset <= cs[n].max_size
      BY <3>1, <3>3
    <3>. QED
      BY <3>3, <3>4, <3>6, <3>7, <3>8
  <2>. QED
    BY <2>1, <2>2
<1>7. PICK c \in DOMAIN cs : \E i \in DOMAIN cs[c].free :
         p = <<c, i>> /\ cs[c].free[i].size >= size /\ cs[c].free[i].offset <= cs[c].max_size
  BY <1>6
<1>8. PICK i \in DOMAIN cs[c].free :
         p = <<c, i>> /\ cs[c].free[i].size >= size /\ cs[c].free[i].offset <= cs[c].max_size
  BY <1>7
<1>. HIDE DEF cs, full
<1>. DEFINE off == cs[c].free[i].offset  new == Cut(cs, <<c, i>>, size)
<1>9. /\ cs \in Seq(Chunk) /\ Tidy(cs[c].free) /\ cs[c].free \in Seq(Block)
      /\ size \in Nat \ {0} /\ size \in Nat /\ cs[c].free[i].size >= size
      /\ off \in Nat
  <2>1. Tidy(cs[c].free)
    BY <1>6
  <2>. QED
    BY <1>1, <1>6, <1>8, <2>1, TidyBlock DEF Tidy
<1>10. /\ new \in Seq(Chunk) /\ DOMAIN new = DOMAIN cs /\ Len(new) = Len(cs)
       /\ \A d \in DOMAIN cs : d # c => new[d] = cs[d]
       /\ Tidy(new[c].free)
       /\ new[c].max_size \in {cs[c].max_size, off + size}
       /\ \A x \in Nat : InFree(new[c].free, x)
             <=> InFree(cs[c].free, x) /\ ~(off <= x /\ x < off + size)
  <2>. HIDE DEF new
  <2>. QED
    BY <1>9, CutTakesTheBytes, SMTT(40) DEF new
<1>11. /\ Len(new[c].free) <= Len(cs[c].free) /\ cs[c].max_size <= new[c].max_size
       /\ off + size <= new[c].max_size
  BY <1>9, CutIsNoLonger
<1>12. p = <<c, i>> /\ p[1] = c /\ off <= cs[c].max_size
  BY <1>8
<1>13. BlockAt(cs, p).offset = off
  BY <1>12 DEF BlockAt
<1>14. /\ chunks'[b0] = new /\ \A b \in 1 .. Buffers : b # b0 => chunks'[b] = chunks[b]
       /\ addr' = [addr EXCEPT ![t] = [buffer |-> b0, chunk |-> c, offset |-> off]]
  <2>. HIDE DEF off
  <2>1. chunks' = [chunks EXCEPT ![b0] = new]
    BY <1>2, <1>12
  <2>. HIDE DEF new
  <2>. QED
    BY <1>1, <1>2, <1>4, <1>12, <1>13, <2>1
<1>. HIDE DEF new, off
<1>15. /\ new[c].max_size \in Nat /\ new[c].max_size <= cs[c].max_size + size
       /\ Len(new[c].free) \in Nat /\ Len(cs[c].free) \in Nat
  <2>1. cs[c].max_size \in Nat
    BY <1>6
  <2>2. Len(new[c].free) \in Nat /\ Len(cs[c].free) \in Nat
    BY <1>6, <1>10 DEF Tidy
  <2>. QED
    BY <1>9, <1>10, <1>12, <2>1, <2>2
<1>16. ListInv'
  <2>1. ASSUME NEW d \in DOMAIN cs PROVE Len(new[d].free) <= MaxFreeBlocks
    <3>1. CASE d = c
      <4>1. /\ Len(new[c].free) <= Len(cs[c].free) /\ Len(cs[c].free) <= MaxFreeBlocks
            /\ Len(new[c].free) \in Nat /\ Len(cs[c].free) \in Nat
        BY <1>6, <1>11, <1>15
      <4>. QED
        BY <1>5, <3>1, <4>1
    <3>2. CASE d # c
      BY <1>6, <1>10, <3>2
    <3>. QED
      BY <3>1, <3>2
  <2>. QED
    BY <1>10, <1>14, <2>1 DEF ListInv
<1>17. LastInv'
  <2>1. SUFFICES ASSUME Len(new) = MaxChunks PROVE FreeAbove(new[MaxChunks])
    BY <1>14 DEF LastInv
  <2>2. FreeAbove(cs[MaxChunks]) /\ MaxChunks \in DOMAIN cs
    BY <1>5, <1>6, <1>10, <2>1
  <2>3. CASE MaxChunks = c
    <3>1. SUFFICES ASSUME NEW x \in Nat, new[c].max_size <= x, x < Endless PROVE InFree(new[c].free, x)
      BY <2>3 DEF FreeAbove
    <3>2. cs[c].max_size <= x /\ ~(x < off + size)
      <4>1. /\ cs[c].max_size \in Nat /\ new[c].max_size \in Nat
            /\ cs[c].max_size <= new[c].max_size /\ off + size <= new[c].max_size
        BY <1>6, <1>11, <1>15
      <4>2. off \in Nat /\ size \in Nat /\ new[c].max_size <= x
        BY <1>9, <3>1
      <4>. QED
        BY <4>1, <4>2
    <3>. QED
      BY <1>10, <2>2, <2>3, <3>1, <3>2 DEF FreeAbove
  <2>4. CASE MaxChunks # c
    BY <1>10, <2>2, <2>4
  <2>. QED
    BY <2>3, <2>4
<1>18. NoneSmaller
  <2>1. ASSUME NEW d \in DOMAIN old PROVE d \in DOMAIN new /\ old[d].max_size <= new[d].max_size
    <3>1. d \in DOMAIN cs /\ cs[d] = old[d] /\ cs[d].max_size \in Nat
      BY <1>6
    <3>2. CASE d = c
      BY <1>10, <1>11, <3>1, <3>2
    <3>3. CASE d # c
      BY <1>10, <3>1, <3>3
    <3>. QED
      BY <3>2, <3>3
  <2>2. \A b \in 1 .. Buffers : \A d \in DOMAIN chunks[b] : chunks[b][d].max_size <= chunks[b][d].max_size
    BY ChunkFacts
  <2>. QED
    BY <1>14, <2>1, <2>2 DEF NoneSmaller, old
<1>19. GrownBy(size)
  <2>1. ASSUME NEW d \in DOMAIN new PROVE new[d].max_size <= SizeOf(b0, d) + size
    <3>1. d \in DOMAIN cs /\ cs[d].max_size \in Nat /\ cs[d].max_size = SizeOf(b0, d)
      BY <1>6, <1>10 DEF SizeOf, old
    <3>2. CASE d = c
      BY <1>15, <3>1, <3>2
    <3>3. CASE d # c
      BY <1>9, <1>10, <3>1, <3>3
    <3>. QED
      BY <3>2, <3>3
  <2>2. ASSUME NEW b \in 1 .. Buffers, b # b0, NEW d \in DOMAIN chunks[b]
        PROVE  chunks[b][d].max_size <= SizeOf(b, d) + size
    <3>1. SizeOf(b, d) = chunks[b][d].max_size /\ SizeOf(b, d) \in Nat
      BY ChunkFacts DEF SizeOf
    <3>. QED
      BY <1>9, <3>1
  <2>. QED
    BY <1>14, <2>1, <2>2 DEF GrownBy
<1>20. Within([buffer |-> b0, chunk |-> c, offset |-> off], size, chunks')
  BY <1>1, <1>10, <1>11, <1>14 DEF Within
<1>21. [buffer |-> b0, chunk |-> c, offset |-> off] # Nowhere
  BY <1>1 DEF Nowhere
<1>. QED
  BY <1>14, <1>16, <1>17, <1>18, <1>19, <1>20, <1>21 DEF size

LEMMA NoneLostKeeps ==
  ASSUME MemInv, LastInv, NoneLost
  PROVE  LastInv' /\ NoneSmaller /\ \A n \in Nat : GrownBy(n)
<1>1. NoneSmaller
  <2>1. \A b \in 1 .. Buffers : \A c \in DOMAIN chunks[b] : chunks[b][c].max_size <= chunks[b][c].max_size
    BY ChunkFacts
  <2>. QED
    BY <2>1 DEF NoneSmaller, NoneLost
<1>2. ASSUME NEW n \in Nat PROVE GrownBy(n)
  <2>1. SUFFICES ASSUME NEW b \in 1 .. Buffers, NEW c \in DOMAIN chunks'[b]
                 PROVE  chunks'[b][c].max_size <= SizeOf(b, c) + n
    BY DEF GrownBy
  <2>2. c \in DOMAIN chunks[b] /\ chunks'[b][c].max_size = chunks[b][c].max_size
    BY DEF NoneLost
  <2>3. SizeOf(b, c) = chunks[b][c].max_size /\ SizeOf(b, c) \in Nat
    BY <2>2, ChunkFacts DEF SizeOf
  <2>. QED
    BY <2>2, <2>3
<1>3. LastInv'
  <2>1. SUFFICES ASSUME NEW b \in 1 .. Buffers, Len(chunks'[b]) = MaxChunks
                 PROVE  FreeAbove(chunks'[b][MaxChunks])
    BY DEF LastInv, FreeAbove
  <2>2. Len(chunks[b]) = MaxChunks /\ FreeAbove(chunks[b][MaxChunks])
    BY <2>1 DEF NoneLost, LastInv
  <2>3. MaxChunks \in DOMAIN chunks[b]
    BY <2>2, ChunkFacts, TallocrAssumption DEF TallocrAssumption
  <2>. QED
    BY <2>2, <2>3 DEF NoneLost, FreeAbove
<1>. QED
  BY <1>1, <1>2, <1>3

LEMMA ChunksStay ==
  ASSUME MemInv, UNCHANGED chunks
  PROVE  NoneLost /\ (ListInv => ListInv')
BY DEF NoneLost, ListInv

\* A tensor written over its argument lies where the argument lay.
LEMMA ReuseBounds ==
  ASSUME MemInv, ListInv, HeldInv, WellFormed(graph), NEW t \in Tensors(graph), Reuse(t)
  PROVE  /\ ListInv' /\ NoneLost
         /\ \E a : /\ addr' = [addr EXCEPT ![t] = a] /\ a # Nowhere
                   /\ Within(a, aligned(T(t).size), chunks')
<1>1. PICK j \in DOMAIN T(t).src :
        LET s == T(t).src[j]
        IN  /\ Reuses(t, j)
            /\ addr' = [addr EXCEPT ![t] = addr[s]]
            /\ IF Extra(t, s) > 0 THEN Release(ExtraAt(t, s), Extra(t, s)) ELSE UNCHANGED chunks
  BY DEF Reuse
<1>. DEFINE s == T(t).src[j]  b0 == addr[s].buffer  c0 == addr[s].chunk  off == addr[s].offset
            st == aligned(T(t).size)  sz == aligned(T(s).size)
<1>2. s \in Tensors(graph) /\ allocated[s] /\ T(t).op = "inplace" /\ T(s).layout = T(t).layout
  BY <1>1, SourceFacts DEF Reuses, Reusable, Own, T
<1>3. st \in Nat \ {0} /\ sz \in Nat /\ st <= sz
  <2>1. st \in Nat \ {0} /\ sz \in Nat
    BY <1>2, TensorFacts DEF T
  <2>2. st <= sz
    BY <1>2, SourceFacts DEF T
  <2>. QED
    BY <2>1, <2>2
<1>4. /\ b0 \in 1 .. Buffers /\ c0 \in DOMAIN chunks[b0] /\ off \in Nat
      /\ \A x \in Nat : off <= x /\ x < off + sz => ~InFree(chunks[b0][c0].free, x)
      /\ addr[s] \in AddrType
  BY <1>2, LiveBytes DEF MemInv, TableInv
<1>5. addr[s] # Nowhere /\ Within(addr[s], sz, chunks)
  <2>1. addr[s] # Nowhere
    <3>1. addr[s].buffer # 0
      <4>1. addr[s].buffer \in 1 .. Buffers
        BY <1>4
      <4>2. \A x \in 1 .. Buffers : x # 0
        OBVIOUS
      <4>. HIDE DEF s, b0, c0, off, st, sz
      <4>. QED
        BY <4>1, <4>2
    <3>2. Nowhere.buffer = 0
      BY DEF Nowhere
    <3>. QED
      BY <3>1, <3>2
  <2>. QED
    BY <1>2, <2>1 DEF HeldInv
<1>6. ListInv' /\ NoneLost
  <2>1. CASE Extra(t, s) > 0
    <3>. DEFINE a == ExtraAt(t, s)  size == sz - st
    <3>1. /\ Release(a, size) /\ size \in Nat \ {0}
      <4>1. Extra(t, s) = size
        BY DEF Extra
      <4>. HIDE DEF st, sz
      <4>. QED
        BY <1>1, <1>3, <2>1, <4>1
    <3>2. /\ a.buffer = b0 /\ a.chunk = c0 /\ a.offset = off + st
      BY <1>4 DEF ExtraAt, AddrType
    <3>. HIDE DEF a
    <3>3. /\ a.buffer \in 1 .. Buffers /\ a.chunk \in DOMAIN chunks[a.buffer] /\ a.offset \in Nat
          /\ \A x \in Nat : a.offset <= x /\ x < a.offset + size
                            => ~InFree(chunks[a.buffer][a.chunk].free, x)
      <4>. HIDE DEF b0, c0, off, st, sz
      <4>1. \A x \in Nat : off + st <= x /\ x < off + st + (sz - st) => off <= x /\ x < off + sz
        BY <1>3, <1>4
      <4>. QED
        BY <1>3, <1>4, <3>2, <4>1
    <3>. HIDE DEF size
    <3>. QED
      BY <3>1, <3>3, ReleaseKeeps
  <2>2. CASE ~(Extra(t, s) > 0)
    BY <1>1, <2>2, ChunksStay
  <2>. QED
    BY <2>1, <2>2
<1>7. Within(addr[s], st, chunks')
  <2>1. /\ c0 \in DOMAIN chunks'[b0] /\ chunks'[b0][c0].max_size = chunks[b0][c0].max_size
    BY <1>4, <1>6 DEF NoneLost
  <2>2. off + sz <= chunks[b0][c0].max_size /\ chunks[b0][c0].max_size \in Nat
    <3>1. chunks[b0][c0].max_size \in Nat
      BY <1>4, ChunkFacts
    <3>. HIDE DEF sz
    <3>. QED
      BY <1>5, <3>1 DEF Within
  <2>3. off + st <= chunks[b0][c0].max_size
    <3>. HIDE DEF off, st, sz, b0, c0
    <3>. QED
      BY <1>3, <1>4, <2>2
  <2>4. off + st <= chunks'[b0][c0].max_size
    BY <2>1, <2>3
  <2>. HIDE DEF st
  <2>. QED
    BY <1>4, <2>1, <2>4, Zenon DEF Within
<1>. QED
  BY <1>1, <1>5, <1>6, <1>7

LEMMA FreeNodeBounds ==
  ASSUME MemInv, ListInv, WellFormed(graph), NEW r \in Tensors(graph), allocated[r], FreeNode(r)
  PROVE  ListInv' /\ NoneLost
<1>1. CASE T(r).output
  BY <1>1, ChunksStay DEF FreeNode
<1>2. CASE ~T(r).output
  <2>1. Release(addr[r], aligned(T(r).size))
    BY <1>2 DEF FreeNode
  <2>2. aligned(T(r).size) \in Nat \ {0}
    BY TensorFacts DEF T
  <2>3. /\ addr[r].buffer \in 1 .. Buffers /\ addr[r].chunk \in DOMAIN chunks[addr[r].buffer]
        /\ addr[r].offset \in Nat
        /\ \A x \in Nat : addr[r].offset <= x /\ x < addr[r].offset + aligned(T(r).size)
                          => ~InFree(chunks[addr[r].buffer][addr[r].chunk].free, x)
    BY LiveBytes
  <2>. QED
    BY <2>1, <2>2, <2>3, ReleaseKeeps
<1>. QED
  BY <1>1, <1>2

\* What ggml_gallocr_allocate_node does to the chunks and to the address of t.
LEMMA AllocateNodeBounds ==
  ASSUME MemInv, ListInv, HeldInv, LastInv, WellFormed(graph),
         NEW t \in Tensors(graph), AllocateNode(t)
  PROVE  /\ ListInv' /\ LastInv' /\ NoneSmaller
         /\ IF IsAllocated(t) \/ IsView(graph, t)
            THEN UNCHANGED <<addr, allocated, chunks>>
            ELSE /\ GrownBy(aligned(T(t).size))
                 /\ \E a : /\ addr' = [addr EXCEPT ![t] = a] /\ a # Nowhere
                           /\ Within(a, aligned(T(t).size), chunks')
<1>0. aligned(T(t).size) \in Nat
  BY TensorFacts DEF T
<1>1. CASE IsAllocated(t) \/ IsView(graph, t)
  <2>1. UNCHANGED <<addr, allocated, chunks>>
    BY <1>1 DEF AllocateNode
  <2>. QED
    BY <1>1, <2>1, ChunksStay, NoneLostKeeps
<1>2. CASE ~(IsAllocated(t) \/ IsView(graph, t)) /\ Reuse(t)
  BY <1>0, <1>2, ReuseBounds, NoneLostKeeps
<1>3. CASE ~(IsAllocated(t) \/ IsView(graph, t)) /\ Allocate(t)
  BY <1>3, AllocateBounds
<1>. QED
  BY <1>1, <1>2, <1>3 DEF AllocateNode

\* Only the buffer that t goes to may get its first chunk.
LEMMA OthersStayEmpty ==
  ASSUME MemInv, ListInv, HeldInv, WellFormed(graph), NEW t \in Tensors(graph),
         AllocateNode(t), ~(IsAllocated(t) \/ IsView(graph, t)),
         NEW b \in 1 .. Buffers, NEW c \in DOMAIN chunks'[b]
  PROVE  c \in DOMAIN chunks[b] \/ addr'[t].buffer = b
<1>1. CASE Reuse(t)
  BY <1>1, ReuseBounds DEF NoneLost
<1>2. CASE Allocate(t)
  <2>1. PICK p, x : /\ addr' = [addr EXCEPT ![t] =
                                  [buffer |-> T(t).buffer, chunk |-> p, offset |-> x]]
                    /\ \E new : chunks' = [chunks EXCEPT ![T(t).buffer] = new]
    BY <1>2 DEF Allocate
  <2>2. t \in DOMAIN addr
    BY DEF MemInv, TableInv
  <2>3. addr'[t].buffer = T(t).buffer
    BY <2>1, <2>2
  <2>4. T(t).buffer # b => chunks'[b] = chunks[b]
    BY <2>1 DEF MemInv, TableInv
  <2>. QED
    BY <2>3, <2>4
<1>. QED
  BY <1>1, <1>2 DEF AllocateNode

\* What is placed has an address.
AddrInv == \A t \in Tensors(graph) : Placed(t) <=> addr[t] # Nowhere

\* A chunk is no larger than what has been placed could make it.
HandedInv ==
    \A b \in 1 .. Buffers : \A c \in DOMAIN chunks[b] :
       Len(graph.tensors) * chunks[b][c].max_size <= Cardinality(PlacedTensors) * Endless

\* Where there are chunks there is, or was, a tensor.
UsedInv ==
    \A b \in 1 .. Buffers : \A c \in DOMAIN chunks[b] : \E t \in Tensors(graph) : addr[t].buffer = b

SpanInv == Walking => ListInv /\ HeldInv /\ LastInv /\ AddrInv /\ HandedInv /\ UsedInv

LEMMA OneMore ==
  ASSUME NEW n \in Nat, NEW N \in Nat, NEW E \in Nat, NEW m \in Nat, NEW s \in Nat,
         n * m <= N * E, n * s <= E
  PROVE  n * (m + s) <= (N + 1) * E
<1>1. n * (m + s) = n * m + n * s /\ (N + 1) * E = N * E + E
  OBVIOUS
<1>2. n * m \in Nat /\ n * s \in Nat /\ N * E \in Nat
  OBVIOUS
<1>. QED
  BY <1>1, <1>2

LEMMA PlacedAreFinite ==
  ASSUME WellFormed(graph)
  PROVE  /\ IsFiniteSet(PlacedTensors) /\ Cardinality(PlacedTensors) \in Nat
         /\ IsFiniteSet(Tensors(graph)) /\ Cardinality(Tensors(graph)) = Len(graph.tensors)
         /\ PlacedTensors \in SUBSET Tensors(graph)
<1>1. Tensors(graph) = 1 .. Len(graph.tensors) /\ Len(graph.tensors) \in Nat
  BY GraphFacts
<1>2. IsFiniteSet(Tensors(graph)) /\ Cardinality(Tensors(graph)) = Len(graph.tensors)
  BY <1>1, FS_Interval
<1>3. PlacedTensors \in SUBSET Tensors(graph)
  BY DEF PlacedTensors
<1>. QED
  BY <1>2, <1>3, FS_Subset, FS_CardinalityType

LEMMA ChunkFactsNext ==
  ASSUME MemInv', NEW b \in 1 .. Buffers, NEW c \in DOMAIN chunks'[b]
  PROVE  chunks'[b][c].max_size \in Nat
<1>1. chunks' \in [1 .. Buffers -> Seq(Chunk)]
  BY DEF MemInv, TableInv
<1>2. chunks'[b][c] \in Chunk
  BY <1>1
<1>. QED
  BY <1>2 DEF Chunk

\* Nothing is given memory.
LEMMA SpanStays ==
  ASSUME MemInv, SpanInv, Walking, UNCHANGED <<graph, addr>>, ListInv', NoneLost,
         \A t \in Tensors(graph) : Placed(t)' <=> Placed(t)
  PROVE  SpanInv'
<1>1. Tensors(graph)' = Tensors(graph) /\ \A t : T(t)' = T(t)
  BY DEF Tensors, T
<1>2. HeldInv /\ LastInv /\ AddrInv /\ HandedInv /\ UsedInv
  BY DEF SpanInv
<1>3. LastInv'
  BY <1>2, NoneLostKeeps
<1>4. HeldInv'
  <2>1. SUFFICES ASSUME NEW t \in Tensors(graph), addr[t] # Nowhere
                 PROVE  Within(addr[t], aligned(T(t).size), chunks')
    BY <1>1 DEF HeldInv, Within
  <2>2. Within(addr[t], aligned(T(t).size), chunks)
    BY <1>2, <2>1 DEF HeldInv
  <2>. QED
    BY <2>2 DEF Within, NoneLost
<1>5. AddrInv'
  BY <1>1, <1>2 DEF AddrInv
<1>6. PlacedTensors' = PlacedTensors
  BY <1>1 DEF PlacedTensors
<1>7. HandedInv'
  BY <1>2, <1>6 DEF HandedInv, NoneLost
<1>8. UsedInv'
  BY <1>1, <1>2 DEF UsedInv, NoneLost
<1>. QED
  BY <1>3, <1>4, <1>5, <1>7, <1>8 DEF SpanInv

\* A tensor is given memory, if it is to own any and has none.
LEMMA SpanGrows ==
  ASSUME MemoryInv, MemInv', WalkInv, SpanInv, Walking, graph' = graph,
         NEW t \in Tensors(graph), AllocateNode(t), Placed(t) => allocated[t],
         \A u \in Tensors(graph) : Placed(u)' <=> Placed(u) \/ (u = t /\ Owns(graph, t))
  PROVE  SpanInv'
<1>1. Tensors(graph)' = Tensors(graph) /\ \A u : T(u)' = T(u)
  BY DEF Tensors, T
<1>2. MemInv /\ WellFormed(graph) /\ PlacedInv /\ ListInv /\ HeldInv /\ LastInv /\ AddrInv /\ HandedInv
      /\ UsedInv
  BY DEF MemoryInv, PlaceInv, WalkInv, SpanInv
<1>3. CASE IsAllocated(t) \/ IsView(graph, t)
  <2>1. UNCHANGED <<addr, allocated, chunks>>
    BY <1>3 DEF AllocateNode
  <2>2. Owns(graph, t) => Placed(t)
    BY <1>2, <1>3 DEF Owns, IsAllocated, Own, T, PlacedInv
  <2>3. \A u \in Tensors(graph) : Placed(u)' <=> Placed(u)
    BY <2>2
  <2>. QED
    BY <1>2, <2>1, <2>3, ChunksStay, SpanStays
<1>4. CASE ~(IsAllocated(t) \/ IsView(graph, t))
  <2>. DEFINE size == aligned(T(t).size)  n == Len(graph.tensors)  P == PlacedTensors
  <2>1. ListInv' /\ LastInv' /\ NoneSmaller /\ GrownBy(size)
    BY <1>2, <1>4, AllocateNodeBounds
  <2>2. PICK a : addr' = [addr EXCEPT ![t] = a] /\ a # Nowhere /\ Within(a, size, chunks')
    BY <1>2, <1>4, AllocateNodeBounds
  <2>3. Owns(graph, t) /\ ~Placed(t)
    BY <1>4 DEF IsAllocated, Own, Owns, T
  <2>4. addr \in [Tensors(graph) -> AddrType]
    BY <1>2 DEF MemInv, TableInv
  <2>5. addr'[t] = a /\ \A u \in Tensors(graph) : u # t => addr'[u] = addr[u]
    BY <2>2, <2>4
  <2>6. AddrInv'
    BY <1>1, <1>2, <2>2, <2>3, <2>5 DEF AddrInv
  <2>7. HeldInv'
    <3>1. SUFFICES ASSUME NEW u \in Tensors(graph), addr'[u] # Nowhere
                   PROVE  Within(addr'[u], aligned(T(u).size), chunks')
      BY <1>1 DEF HeldInv, Within
    <3>2. CASE u = t
      BY <2>2, <2>5, <3>2
    <3>3. CASE u # t
      <4>1. Within(addr[u], aligned(T(u).size), chunks) /\ addr'[u] = addr[u]
        BY <1>2, <2>5, <3>1, <3>3 DEF HeldInv
      <4>2. addr[u].offset \in Nat /\ aligned(T(u).size) \in Nat
        BY <1>2, <2>4, TensorFacts DEF AddrType, T
      <4>. DEFINE b == addr[u].buffer  c == addr[u].chunk  top == addr[u].offset + aligned(T(u).size)
      <4>3. b \in 1 .. Buffers /\ c \in DOMAIN chunks[b] /\ top <= chunks[b][c].max_size
        BY <4>1 DEF Within
      <4>4. /\ c \in DOMAIN chunks'[b] /\ chunks[b][c].max_size <= chunks'[b][c].max_size
            /\ chunks[b][c].max_size \in Nat
        BY <1>2, <2>1, <4>3, ChunkFacts DEF NoneSmaller
      <4>5. chunks'[b][c].max_size \in Nat
        BY <4>3, <4>4, ChunkFactsNext
      <4>6. top \in Nat
        BY <4>2
      <4>. HIDE DEF b, c, top
      <4>7. top <= chunks'[b][c].max_size
        BY <4>3, <4>4, <4>5, <4>6
      <4>. QED
        BY <4>1, <4>3, <4>4, <4>7 DEF Within, b, c, top
    <3>. QED
      BY <3>2, <3>3
  <2>8. /\ IsFiniteSet(P) /\ Cardinality(P) \in Nat /\ P \in SUBSET Tensors(graph) /\ t \notin P
    BY <1>2, <2>3, PlacedAreFinite DEF PlacedTensors
  <2>9. PlacedTensors' = P \cup {t}
    BY <1>1, <2>3 DEF PlacedTensors
  <2>. HIDE DEF P
  <2>10. Cardinality(PlacedTensors') = Cardinality(P) + 1
    BY <2>8, <2>9, FS_AddElement
  <2>11. HandedInv'
    <3>1. SUFFICES ASSUME NEW b \in 1 .. Buffers, NEW c \in DOMAIN chunks'[b]
                   PROVE  n * chunks'[b][c].max_size <= (Cardinality(P) + 1) * Endless
      BY <2>10 DEF HandedInv
    <3>2. /\ n \in Nat /\ size \in Nat /\ n * size <= Endless /\ Endless \in Nat
      BY <1>2, GraphFacts, TensorFacts, TallocrAssumption DEF TallocrAssumption, WellFormed, T
    <3>3. SizeOf(b, c) \in Nat /\ chunks'[b][c].max_size <= SizeOf(b, c) + size
      BY <1>2, <2>1, ChunkFacts DEF GrownBy
    <3>4. n * SizeOf(b, c) <= Cardinality(P) * Endless
      <4>1. CASE c \in DOMAIN chunks[b]
        BY <1>2, <4>1 DEF HandedInv, SizeOf, P
      <4>2. CASE c \notin DOMAIN chunks[b]
        BY <2>8, <3>2, <4>2 DEF SizeOf
      <4>. QED
        BY <4>1, <4>2
    <3>. HIDE DEF n, size
    <3>5. n * (SizeOf(b, c) + size) <= (Cardinality(P) + 1) * Endless
      BY <2>8, <3>2, <3>3, <3>4, OneMore
    <3>6. chunks'[b][c].max_size \in Nat
      BY <3>1, ChunkFactsNext
    <3>7. ASSUME NEW x \in Nat, NEW y \in Nat, x <= y PROVE n * x <= n * y
      BY <3>2, <3>7
    <3>8. n * chunks'[b][c].max_size <= n * (SizeOf(b, c) + size)
      BY <3>2, <3>3, <3>6, <3>7
    <3>. QED
      BY <2>8, <3>2, <3>3, <3>5, <3>6, <3>8
  <2>12. UsedInv'
    <3>1. ASSUME NEW b \in 1 .. Buffers, NEW c \in DOMAIN chunks'[b]
          PROVE  \E u \in Tensors(graph) : addr'[u].buffer = b
      <4>1. CASE addr'[t].buffer = b
        BY <4>1
      <4>2. CASE c \in DOMAIN chunks[b]
        <5>1. PICK u \in Tensors(graph) : addr[u].buffer = b
          BY <1>2, <4>2 DEF UsedInv
        <5>2. addr[u] # Nowhere
          <6>1. b # 0
            OBVIOUS
          <6>. QED
            BY <5>1, <6>1 DEF Nowhere
        <5>3. u # t
          BY <1>2, <2>3, <5>2 DEF AddrInv
        <5>. QED
          BY <2>5, <5>1, <5>3
      <4>. QED
        BY <1>2, <1>4, <3>1, <4>1, <4>2, OthersStayEmpty
    <3>. QED
      BY <1>1, <3>1 DEF UsedInv
  <2>. QED
    BY <2>1, <2>6, <2>7, <2>11, <2>12 DEF SpanInv
<1>. QED
  BY <1>3, <1>4

LEMMA StartWalkSpan ==
  ASSUME NEW g, WellFormed(g), NEW who, StartWalk(g, who), graph' = g
  PROVE  SpanInv'
<1>1. /\ pc' = "leafs" /\ at' = 1 /\ chunks' = [b \in 1 .. Buffers |-> <<>>]
      /\ addr' = [t \in Tensors(g) |-> Nowhere] /\ Tensors(graph)' = Tensors(g)
  BY DEF StartWalk, Tensors
<1>2. ListInv' /\ HandedInv' /\ UsedInv'
  BY <1>1 DEF ListInv, HandedInv, UsedInv
<1>3. LastInv'
  <2>1. \A b \in 1 .. Buffers : Len(chunks'[b]) = 0
    BY <1>1
  <2>. QED
    BY <2>1, TallocrAssumption DEF LastInv, TallocrAssumption
<1>4. HeldInv'
  BY <1>1 DEF HeldInv
<1>5. AddrInv'
  <2>1. ASSUME NEW t \in Tensors(g) PROVE ~Placed(t)'
    <3>1. t \in Nat /\ t >= 1
      BY TensorFacts
    <3>2. ~(t < 1)
      BY <3>1
    <3>. QED
      BY <1>1, <3>2 DEF Placed
  <2>. QED
    BY <1>1, <2>1 DEF AddrInv
<1>. QED
  BY <1>2, <1>3, <1>4, <1>5 DEF SpanInv

LEMMA SpanLoops ==
  ASSUME MemoryInv, WalkInv, SpanInv, EndLeafs \/ EndCount \/ NextNode
  PROVE  SpanInv'
<1>1. /\ Walking /\ WellFormed(graph) /\ at \in Nat /\ MemInv /\ ListInv /\ LoopInv
      /\ UNCHANGED <<graph, addr, chunks>>
  BY DEF EndLeafs, EndCount, NextNode, EndLoop, Walking, MemoryInv, PlaceInv, WalkInv, SpanInv
<1>2. /\ graph.leafs \in Nat /\ Len(graph.tensors) \in Nat
      /\ graph.leafs <= Len(graph.tensors) /\ Tensors(graph) = 1 .. Len(graph.tensors)
  BY <1>1, GraphFacts
<1>3. ASSUME NEW t \in Tensors(graph) PROVE Placed(t)' <=> Placed(t)
  <2>0. Owns(graph, t)' = Owns(graph, t) /\ T(t)' = T(t)
    BY <1>1 DEF Owns, IsView, T
  <2>1. CASE EndLeafs
    <3>1. /\ pc = "leafs" /\ pc' = "count" /\ at > graph.leafs /\ at' = graph.leafs + 1
      BY <1>1, <2>1 DEF EndLeafs, EndLoop
    <3>2. t <= graph.leafs => t < at
      BY <1>1, <1>2, <3>1
    <3>3. ~(t <= graph.leafs) => ~(t < graph.leafs + 1)
      BY <1>2
    <3>. QED
      BY <1>1, <2>0, <3>1, <3>2, <3>3 DEF Placed
  <2>2. CASE EndCount
    <3>1. /\ pc = "count" /\ pc' = "parents" /\ at > Len(graph.tensors) /\ at' = graph.leafs + 1
      BY <1>1, <2>2 DEF EndCount, EndLoop
    <3>2. t < at
      BY <1>1, <1>2, <3>1
    <3>3. ~(t <= graph.leafs) => ~(t < graph.leafs + 1)
      BY <1>2
    <3>. QED
      BY <1>1, <2>0, <3>1, <3>2, <3>3 DEF Placed
  <2>3. CASE NextNode
    <3>1. pc = "free" /\ pc' = "parents" /\ at' = at + 1
      BY <2>3 DEF NextNode
    <3>2. t < at + 1 <=> t < at \/ t = at
      BY <1>1, <1>2
    <3>. QED
      BY <1>1, <2>0, <3>1, <3>2 DEF Placed
  <2>. QED
    BY <2>1, <2>2, <2>3
<1>. QED
  BY <1>1, <1>3, ChunksStay, SpanStays

LEMMA SpanStep ==
  ASSUME MemoryInv, MemoryInv', WalkInv, SpanInv, [Next]_vars
  PROVE  SpanInv'
<1>1. CASE NextGraph
  <2>1. PICK g \in Asked :
          /\ graph' = g
          /\ StartWalk(g, "sched") \/ StartWalk(g, "alloc") \/ pc' = "place"
    BY <1>1 DEF NextGraph
  <2>2. WellFormed(g)
    BY <2>1 DEF Asked
  <2>. QED
    BY <2>1, <2>2, StartWalkSpan DEF SpanInv, Walking
<1>2. CASE AllocateLeaf
  <2>1. /\ Walking /\ WellFormed(graph) /\ at \in Tensors(graph) /\ at' = at + 1 /\ MemInv'
        /\ graph' = graph /\ pc = "leafs" /\ pc' = "leafs" /\ at <= graph.leafs /\ AllocateNode(at)
        /\ AliveInv
    BY <1>2, NodeFacts DEF AllocateLeaf, Walking, MemoryInv, PlaceInv, WalkInv
  <2>2. Placed(at) => allocated[at]
    BY <2>1 DEF AliveInv
  <2>3. ASSUME NEW t \in Tensors(graph)
        PROVE  Placed(t)' <=> Placed(t) \/ (t = at /\ Owns(graph, at))
    <3>1. t < at + 1 <=> t < at \/ t = at
      BY <2>1, GraphFacts
    <3>2. (Owns(graph, t)' <=> Owns(graph, t)) /\ T(t)' = T(t)
      BY <2>1 DEF T
    <3>. QED
      BY <2>1, <3>1, <3>2 DEF Placed
  <2>. QED
    BY <2>1, <2>2, <2>3, SpanGrows
<1>3. CASE EndLeafs \/ EndCount \/ NextNode
  BY <1>3, SpanLoops
<1>4. CASE CountNode
  <2>1. /\ Walking /\ WellFormed(graph) /\ at \in Tensors(graph) /\ at' = at + 1 /\ MemInv /\ MemInv'
        /\ graph' = graph /\ pc = "count" /\ pc' = "count" /\ at >= graph.leafs + 1
        /\ AliveInv /\ ListInv
    BY <1>4, NodeFacts DEF CountNode, Walking, MemoryInv, PlaceInv, WalkInv, LoopInv, SpanInv
  <2>2. ASSUME NEW t \in Tensors(graph)
        PROVE  Placed(t)' <=> Placed(t) \/ (t = at /\ T(at).input /\ Owns(graph, at))
    <3>1. t < at + 1 <=> t < at \/ t = at
      BY <2>1, GraphFacts
    <3>2. (Owns(graph, t)' <=> Owns(graph, t)) /\ T(t)' = T(t)
      BY <2>1 DEF T
    <3>3. ~(at <= graph.leafs)
      BY <2>1, GraphFacts
    <3>. QED
      BY <2>1, <3>1, <3>2, <3>3 DEF Placed
  <2>3. CASE T(at).input
    <3>1. AllocateNode(at)
      BY <1>4, <2>3 DEF CountNode
    <3>2. Placed(at) => allocated[at]
      BY <2>1 DEF AliveInv
    <3>. QED
      BY <2>1, <2>2, <2>3, <3>1, <3>2, SpanGrows
  <2>4. CASE ~T(at).input
    <3>1. UNCHANGED <<addr, chunks>>
      BY <1>4, <2>4 DEF CountNode
    <3>. QED
      BY <2>1, <2>2, <2>4, <3>1, ChunksStay, SpanStays
  <2>. QED
    BY <2>3, <2>4
<1>5. CASE AllocateParent
  <2>1. /\ Walking /\ MemInv /\ ListInv /\ graph' = graph /\ pc' = pc /\ at' = at
        /\ AllocateNode(T(at).src[arg])
    BY <1>5 DEF AllocateParent, Walking, MemoryInv, SpanInv
  <2>2. UNCHANGED <<addr, chunks>>
    BY <1>5, <2>1, ArgumentHasMemory DEF AllocateNode
  <2>3. \A t \in Tensors(graph) : Placed(t)' <=> Placed(t)
    BY <2>1 DEF Placed, T
  <2>. QED
    BY <2>1, <2>2, <2>3, ChunksStay, SpanStays
<1>6. CASE AllocateResult
  <2>1. /\ Walking /\ WellFormed(graph) /\ at \in Tensors(graph) /\ at' = at /\ MemInv'
        /\ graph' = graph /\ pc = "parents" /\ pc' = "free" /\ at >= graph.leafs + 1
        /\ AllocateNode(at) /\ AliveInv
    BY <1>6, NodeFacts DEF AllocateResult, Walking, MemoryInv, PlaceInv, WalkInv, LoopInv
  <2>2. Placed(at) => allocated[at]
    <3>1. ~(at < at)
      BY <2>1, GraphFacts
    <3>. QED
      BY <2>1, <3>1 DEF AliveInv
  <2>3. ASSUME NEW t \in Tensors(graph)
        PROVE  Placed(t)' <=> Placed(t) \/ (t = at /\ Owns(graph, at))
    <3>1. (Owns(graph, t)' <=> Owns(graph, t)) /\ T(t)' = T(t)
      BY <2>1 DEF T
    <3>2. ~(at <= graph.leafs)
      BY <2>1, GraphFacts
    <3>. QED
      BY <2>1, <3>1, <3>2 DEF Placed
  <2>. QED
    BY <2>1, <2>2, <2>3, SpanGrows
<1>7. CASE FreeParent
  <2>s. PICK s, r : s = T(at).src[arg] /\ r = Root(graph, s)
    OBVIOUS
  <2>1. /\ Walking /\ WellFormed(graph) /\ at \in Tensors(graph) /\ MemInv /\ ListInv
        /\ UNCHANGED <<graph, at, addr, pc>> /\ pc = "free"
        /\ IF Dies(s) THEN FreeNode(r) ELSE UNCHANGED <<allocated, chunks>>
    BY <1>7, <2>s DEF FreeParent, Walking, MemoryInv, PlaceInv, SpanInv
  <2>2. ListInv' /\ NoneLost
    <3>1. CASE Dies(s)
      <4>1. s \in Tensors(graph)
        BY <1>7, <2>s, <2>1, ArgFacts DEF PlaceInv, Walking, FreeParent, MemoryInv
      <4>2. r \in Tensors(graph) /\ allocated[r]
        BY <2>s, <2>1, <3>1, <4>1, RootFacts DEF Dies
      <4>. QED
        BY <2>1, <3>1, <4>2, FreeNodeBounds
    <3>2. CASE ~Dies(s)
      BY <2>1, <3>2, ChunksStay
    <3>. QED
      BY <3>1, <3>2
  <2>3. \A t \in Tensors(graph) : Placed(t)' <=> Placed(t)
    BY <2>1 DEF Placed, T
  <2>. QED
    BY <2>1, <2>2, <2>3, SpanStays
<1>8. CASE Abort \/ SavePlan \/ ReserveBuffer \/ EndReserve \/ Place
  BY <1>8 DEF Abort, SavePlan, ReserveBuffer, EndReserve, Place, SpanInv, Walking
<1>9. CASE ReserveFails
  <2>1. CASE caller = "alloc"
    <3>1. StartWalk(graph, "sched") /\ graph' = graph
      BY <1>9, <2>1 DEF ReserveFails
    <3>2. WellFormed(graph)
      BY NoGraphIsWellFormed DEF MemoryInv, PlaceInv
    <3>. QED
      BY <3>1, <3>2, StartWalkSpan
  <2>2. CASE caller # "alloc"
    BY <1>9, <2>2 DEF ReserveFails, SpanInv, Walking
  <2>. QED
    BY <2>1, <2>2
<1>10. CASE Ended \/ UNCHANGED vars
  <2>1. UNCHANGED <<graph, pc, at, addr, chunks>>
    BY <1>10 DEF Ended, vars, walkVars
  <2>2. CASE ~Walking
    BY <2>1, <2>2 DEF SpanInv, Walking
  <2>3. CASE Walking
    <3>1. MemInv /\ ListInv
      BY <2>3 DEF MemoryInv, SpanInv
    <3>2. \A t \in Tensors(graph) : Placed(t)' <=> Placed(t)
      BY <2>1 DEF Placed, T
    <3>. QED
      BY <2>1, <2>3, <3>1, <3>2, ChunksStay, SpanStays
  <2>. QED
    BY <2>2, <2>3
<1>. QED
  BY <1>1, <1>2, <1>3, <1>4, <1>5, <1>6, <1>7, <1>8, <1>9, <1>10 DEF Next

LEMMA SpanInit == Init => SpanInv
BY DEF Init, SpanInv, Walking

-----------------------------------------------------------------------------
(* The last chunk.                                                           *)

\* Free bytes that follow one another lie in one block.
LEMMA FreeRange ==
  ASSUME NEW free, Tidy(free), NEW lo \in Nat, NEW hi \in Nat, lo < hi,
         \A x \in Nat : lo <= x /\ x < hi => InFree(free, x)
  PROVE  \E i \in DOMAIN free : free[i].offset <= lo /\ hi <= End(free[i])
<1>1. PICK i \in DOMAIN free : InBlock(free[i], lo)
  BY DEF InFree
<1>2. /\ free[i].offset <= lo /\ lo < End(free[i])
      /\ i \in Nat /\ End(free[i]) \in Nat
  BY <1>1, TidyBlock DEF InBlock
<1>3. hi <= End(free[i])
  <2>1. SUFFICES ASSUME End(free[i]) < hi PROVE FALSE
    BY <1>2
  <2>2. PICK k \in DOMAIN free : InBlock(free[k], End(free[i]))
    BY <1>2, <2>1 DEF InFree
  <2>3. /\ free[k].offset <= End(free[i]) /\ End(free[i]) < End(free[k])
        /\ k \in Nat /\ free[k].offset \in Nat /\ End(free[k]) \in Nat
        /\ free[i].offset \in Nat /\ free[i].offset < End(free[i])
    BY <2>2, TidyBlock DEF InBlock
  <2>4. \A j, l \in DOMAIN free : j < l => End(free[j]) < free[l].offset
    BY DEF Tidy
  <2>5. CASE k < i
    BY <1>2, <2>3, <2>4, <2>5
  <2>6. CASE k = i
    BY <1>2, <2>3, <2>6
  <2>7. CASE i < k
    BY <1>2, <2>3, <2>4, <2>7
  <2>. QED
    BY <1>2, <2>3, <2>5, <2>6, <2>7
<1>. QED
  BY <1>2, <1>3

LEMMA RoomInTheLast ==
  ASSUME NEW n \in Nat, NEW N \in Nat, NEW E \in Nat, NEW m \in Nat, NEW s \in Nat,
         N < n, n * m <= N * E, n * s <= E
  PROVE  m + s <= E
<1>1. n * (m + s) <= (N + 1) * E
  BY OneMore
<1>2. (N + 1) * E <= n * E
  <2>1. n = (N + 1) + (n - (N + 1)) /\ n - (N + 1) \in Nat
    OBVIOUS
  <2>2. \A d \in Nat : ((N + 1) + d) * E = (N + 1) * E + d * E /\ d * E \in Nat
    OBVIOUS
  <2>3. (N + 1) * E \in Nat
    OBVIOUS
  <2>. QED
    BY <2>1, <2>2, <2>3
<1>3. SUFFICES ASSUME E < m + s PROVE FALSE
  OBVIOUS
<1>4. PICK d \in Nat : m + s = E + 1 + d
  <2>1. m + s - E - 1 \in Nat
    BY <1>3
  <2>. QED
    BY <2>1
<1>5. n * (m + s) = n * E + n + n * d /\ n * d \in Nat /\ n * E \in Nat /\ n > 0
  BY <1>4
<1>6. (N + 1) * E \in Nat
  OBVIOUS
<1>. QED
  BY <1>1, <1>2, <1>5, <1>6

LEMMA SpanSuffices ==
  ASSUME MemoryInv, WalkInv, SpanInv
  PROVE  LastChunkSuffices
<1>1. SUFFICES ASSUME pc \in {"leafs", "count", "parents"}, at \in Tensors(graph),
                      Owns(graph, at), ~Own(at),
                      Full(chunks[T(at).buffer], aligned(T(at).size)),
                      ~(Len(chunks[T(at).buffer]) < MaxChunks)
               PROVE  FALSE
  BY DEF LastChunkSuffices
<1>. DEFINE b == T(at).buffer  size == aligned(T(at).size)  n == Len(graph.tensors)
<1>2. /\ WellFormed(graph) /\ MemInv /\ AliveInv /\ LastInv /\ HandedInv
  BY <1>1 DEF MemoryInv, PlaceInv, WalkInv, SpanInv, Walking
<1>3. b \in 1 .. Buffers /\ size \in Nat \ {0} /\ n \in Nat /\ n * size <= Endless /\ Endless \in Nat
  BY <1>1, <1>2, GraphFacts, TensorFacts, TallocrAssumption DEF TallocrAssumption, WellFormed, T
<1>4. MaxChunks \in DOMAIN chunks[b] /\ Len(chunks[b]) = MaxChunks
  BY <1>1, <1>2, <1>3, ChunkFacts, TallocrAssumption DEF TallocrAssumption
<1>. DEFINE k == chunks[b][MaxChunks]
<1>5. /\ k.max_size \in Nat /\ Tidy(k.free) /\ k.free \in Seq(Block) /\ FreeAbove(k)
  BY <1>2, <1>3, <1>4, ChunkFacts DEF LastInv
<1>6. Cardinality(PlacedTensors) < n /\ Cardinality(PlacedTensors) \in Nat
  <2>1. ~Placed(at)
    <3>1. ~(at < at)
      BY <1>1, <1>2, GraphFacts
    <3>. QED
      BY <1>1, <1>2, <3>1 DEF AliveInv, Own
  <2>2. /\ IsFiniteSet(PlacedTensors) /\ Cardinality(PlacedTensors) \in Nat
        /\ IsFiniteSet(Tensors(graph)) /\ Cardinality(Tensors(graph)) = n
        /\ PlacedTensors \in SUBSET Tensors(graph) /\ at \notin PlacedTensors
    BY <1>2, <2>1, PlacedAreFinite DEF PlacedTensors
  <2>3. Cardinality(PlacedTensors \cup {at}) = Cardinality(PlacedTensors) + 1
    BY <2>2, FS_AddElement
  <2>4. PlacedTensors \cup {at} \in SUBSET Tensors(graph)
    BY <1>1, <2>2
  <2>5. Cardinality(PlacedTensors \cup {at}) <= n
    BY <2>2, <2>4, FS_Subset
  <2>. QED
    BY <1>3, <2>2, <2>3, <2>5
<1>7. n * k.max_size <= Cardinality(PlacedTensors) * Endless
  BY <1>2, <1>3, <1>4 DEF HandedInv
<1>. HIDE DEF n, size
<1>8. k.max_size + size <= Endless
  BY <1>3, <1>5, <1>6, <1>7, RoomInTheLast
<1>t. PICK m \in Nat : m = k.max_size /\ m + size <= Endless
  BY <1>5, <1>8
<1>9. PICK i \in DOMAIN k.free : k.free[i].offset <= k.max_size /\ Endless <= End(k.free[i])
  <2>1. k.max_size < Endless
    BY <1>3, <1>t
  <2>. QED
    BY <1>3, <1>5, <2>1, FreeRange DEF FreeAbove
<1>10. k.free[i].size >= size
  <2>1. /\ k.free[i].offset \in Nat /\ k.free[i].size \in Nat
        /\ End(k.free[i]) = k.free[i].offset + k.free[i].size
    BY <1>5, BlockType
  <2>2. k.free[i].offset <= m /\ Endless <= End(k.free[i])
    BY <1>t, <1>9
  <2>. HIDE DEF k
  <2>. QED
    BY <1>3, <1>t, <2>1, <2>2
<1>11. <<MaxChunks, i>> \in InnerBlocks(chunks[b]) \cup LastBlocks(chunks[b])
  <2>1. i \in 1 .. Len(k.free) /\ Len(k.free) \in Nat /\ k.free # <<>>
    <3>1. k.free \in Seq(Block) /\ i \in DOMAIN k.free
      BY <1>5
    <3>. HIDE DEF k
    <3>. QED
      BY <3>1
  <2>2. CASE i = Len(k.free)
    BY <1>4, <2>1, <2>2 DEF LastBlocks
  <2>3. CASE i # Len(k.free)
    <3>1. i \in 1 .. Len(k.free) - 1
      BY <2>1, <2>3
    <3>. QED
      BY <1>4, <3>1 DEF InnerBlocks
  <2>. QED
    BY <2>2, <2>3
<1>12. <<MaxChunks, i>> \in Fitting(chunks[b], InnerBlocks(chunks[b]) \cup LastBlocks(chunks[b]), size)
  BY <1>10, <1>11 DEF Fitting, BlockAt
<1>. QED
  BY <1>1, <1>12 DEF Full, size

\* What the walk knows, and what is kept of it.
GallocInv == MemoryInv /\ WalkInv /\ SpanInv /\ PlanInv /\ FitInv

LEMMA GallocInvInit == Init => GallocInv
<1>1. Init => ~Walking
  BY DEF Init, Walking
<1>. QED
  BY <1>1, MemoryInit, SpanInit, PlanInit DEF WalkInv, GallocInv

LEMMA GallocInvStep == GallocInv /\ [Next]_vars => GallocInv'
<1>. SUFFICES ASSUME GallocInv, [Next]_vars PROVE GallocInv'
  OBVIOUS
<1>1. MemoryInv' /\ MemoryInv /\ WalkInv /\ SpanInv /\ PlanInv /\ FitInv
  BY MemoryStep DEF GallocInv
<1>2. WalkInv' /\ PlanInv' /\ FitInv'
  BY <1>1, WalkStep, PlanStep, FitStep
<1>3. SpanInv'
  BY <1>1, SpanStep
<1>. QED
  BY <1>1, <1>2, <1>3 DEF GallocInv

\* No allocation finds all chunks in use and none to add, for any graphs whose
\* tensors fit into half of the address space together, any chunk sizes and any
\* number of chunks: what the comment in ggml_dyn_tallocr_alloc counts on.
THEOREM LastChunkIsEnough == Spec => []LastChunkSuffices
<1>1. GallocInv => LastChunkSuffices
  BY SpanSuffices DEF GallocInv
<1>. QED
  BY <1>1, GallocInvInit, GallocInvStep, PTL DEF Spec

-----------------------------------------------------------------------------
(* The state is well typed, and what was planned fits.                       *)

TypeInv ==
    /\ DOMAIN n_children = DOMAIN addr /\ DOMAIN n_views = DOMAIN addr
    /\ DOMAIN allocated = DOMAIN addr
    /\ \A t \in DOMAIN addr : /\ n_children[t] \in Nat /\ n_views[t] \in Int
                              /\ allocated[t] \in BOOLEAN /\ addr[t] \in AddrType
    /\ chunks \in [1 .. Buffers -> Seq(Chunk)]
    /\ \A b \in 1 .. Buffers : Len(chunks[b]) <= MaxChunks
    /\ ListInv
    /\ bufs \in [1 .. Buffers -> Seq(Int)]
    /\ caller \in {"alloc", "sched"} /\ n_buffers \in 1 .. Buffers
    /\ graphs \in 0 .. MaxGraphs /\ failures \in 0 .. MaxFailures

LEMMA TypeInit == Init => TypeInv
<1>. SUFFICES ASSUME Init PROVE TypeInv
  OBVIOUS
<1>1. DOMAIN n_children = {} /\ DOMAIN n_views = {} /\ DOMAIN allocated = {} /\ DOMAIN addr = {}
  BY DEF Init
<1>2. /\ <<>> \in Seq(Chunk) /\ Len(<<>>) = 0 /\ 0 <= MaxChunks
      /\ 0 \in 0 .. MaxGraphs /\ 0 \in 0 .. MaxFailures
  BY TallocrAssumption, GallocAssumption DEF TallocrAssumption, GallocAssumption
<1>3. NoBuffer \in Seq(Int)
  BY DEF NoBuffer
<1>4. /\ chunks = [b \in 1 .. Buffers |-> <<>>] /\ bufs = [b \in 1 .. Buffers |-> NoBuffer]
      /\ caller = "alloc" /\ n_buffers \in 1 .. Buffers /\ graphs = 0 /\ failures = 0
  BY DEF Init
<1>5. ListInv
  BY <1>4 DEF ListInv
<1>. QED
  BY <1>1, <1>2, <1>3, <1>4, <1>5 DEF TypeInv

\* The counters of the views are integers.
LEMMA ViewsStayNumbers ==
  ASSUME GallocInv, TypeInv, [Next]_vars, Walking'
  PROVE  \A t \in DOMAIN n_views' : n_views'[t] \in Int
<1>1. CASE NextGraph \/ ReserveFails
  <2>1. PICK g, who : StartWalk(g, who)
    BY <1>1 DEF NextGraph, ReserveFails, Walking
  <2>2. n_views' = [t \in Tensors(g) |-> 0]
    BY <2>1 DEF StartWalk
  <2>. QED
    BY <2>2
<1>2. CASE CountNode
  <2>1. DOMAIN n_views = Tensors(graph)
    BY <1>2 DEF CountNode, GallocInv, WalkInv, Walking, ViewInv
  <2>2. n_views' = [t \in Tensors(graph) |->
                      IF IsView(graph, at) /\ T(at).op # "none" /\ t = T(at).view
                      THEN n_views[t] + 1 ELSE n_views[t]]
    BY <1>2 DEF CountNode
  <2>3. \A t \in Tensors(graph) : n_views[t] \in Int
    BY <2>1 DEF TypeInv
  <2>. QED
    BY <2>2, <2>3
<1>3. CASE FreeParent
  <2>1. PICK r : n_views' = [n_views EXCEPT ![r] = @ - 1] \/ n_views' = n_views
    BY <1>3 DEF FreeParent
  <2>2. \A t \in DOMAIN n_views : n_views[t] \in Int
    BY DEF TypeInv
  <2>. QED
    BY <2>1, <2>2
<1>4. CASE ~(NextGraph \/ ReserveFails \/ CountNode \/ FreeParent)
  <2>1. n_views' = n_views
    BY <1>4 DEF Next, vars, walkVars, AllocateLeaf, EndLeafs, EndCount, EndLoop,
                AllocateParent, AllocateResult, NextNode, Abort, SavePlan, ReserveBuffer,
                EndReserve, Place, Ended
  <2>. QED
    BY <2>1 DEF TypeInv
<1>. QED
  BY <1>1, <1>2, <1>3, <1>4

LEMMA TypeStep ==
  ASSUME GallocInv, GallocInv', TypeInv, [Next]_vars
  PROVE  TypeInv'
<1>1. /\ (DOMAIN n_children = DOMAIN addr)' /\ (DOMAIN n_views = DOMAIN addr)'
      /\ (DOMAIN allocated = DOMAIN addr)'
      /\ \A t \in DOMAIN addr' : /\ n_children'[t] \in Nat /\ n_views'[t] \in Int
                                 /\ allocated'[t] \in BOOLEAN /\ addr'[t] \in AddrType
      /\ chunks' \in [1 .. Buffers -> Seq(Chunk)]
      /\ \A b \in 1 .. Buffers : Len(chunks'[b]) <= MaxChunks
      /\ ListInv'
  <2>1. CASE Walking'
    <3>1. MemInv' /\ CountInv' /\ ViewInv' /\ ListInv'
      BY <2>1 DEF GallocInv, MemoryInv, WalkInv, SpanInv
    <3>2. /\ chunks' \in [1 .. Buffers -> Seq(Chunk)]
          /\ \A b \in 1 .. Buffers : Len(chunks'[b]) <= MaxChunks
          /\ allocated' \in [Tensors(graph)' -> BOOLEAN]
          /\ addr' \in [Tensors(graph)' -> AddrType]
      BY <3>1 DEF MemInv, TableInv
    <3>3. DOMAIN n_children' = Tensors(graph)' /\ DOMAIN n_views' = Tensors(graph)'
      BY <3>1 DEF CountInv, ViewInv
    <3>4. \A t \in Tensors(graph)' : n_children'[t] \in Nat
      <4>1. ASSUME NEW t \in Tensors(graph)' PROVE n_children'[t] \in Nat
        <5>1. IsFiniteSet(Pending(t)') /\ n_children'[t] = Cardinality(Pending(t)')
          BY <3>1 DEF CountInv
        <5>. QED
          BY <5>1, FS_CardinalityType
      <4>. QED
        BY <4>1
    <3>5. \A t \in Tensors(graph)' : n_views'[t] \in Int
      BY <2>1, <3>3, ViewsStayNumbers
    <3>. QED
      BY <3>1, <3>2, <3>3, <3>4, <3>5
  <2>2. CASE ~Walking'
    <3>1. UNCHANGED <<n_children, n_views, allocated, addr, chunks>>
      BY <2>2 DEF Next, vars, walkVars, NextGraph, AllocateLeaf, EndLeafs, EndCount, EndLoop, CountNode,
                  AllocateParent, AllocateResult, FreeParent, NextNode, Abort, SavePlan, ReserveBuffer,
                  ReserveFails, EndReserve, Place, Ended, StartWalk, Walking
    <3>. QED
      BY <3>1 DEF TypeInv, ListInv
  <2>. QED
    BY <2>1, <2>2
<1>2. bufs' \in [1 .. Buffers -> Seq(Int)]
  <2>1. CASE ReserveBuffer
    <3>1. ASSUME NEW b \in 1 .. Buffers
          PROVE  [c \in DOMAIN chunks[b] |-> chunks[b][c].max_size] \in Seq(Int)
      <4>1. chunks[b] \in Seq(Chunk)
        BY DEF TypeInv
      <4>2. \A c \in DOMAIN chunks[b] : chunks[b][c].max_size \in Int
        <5>1. ASSUME NEW c \in DOMAIN chunks[b] PROVE chunks[b][c] \in Chunk
          BY <4>1
        <5>. QED
          BY <5>1 DEF Chunk
      <4>3. DOMAIN chunks[b] = 1 .. Len(chunks[b]) /\ Len(chunks[b]) \in Nat
        BY <4>1
      <4>. QED
        BY <4>2, <4>3
    <3>2. \/ bufs' = bufs
          \/ bufs' = [bufs EXCEPT ![at] = [c \in DOMAIN chunks[at] |-> chunks[at][c].max_size]]
      BY <2>1 DEF ReserveBuffer
    <3>3. bufs \in [1 .. Buffers -> Seq(Int)]
      BY DEF TypeInv
    <3>. DEFINE new == [c \in DOMAIN chunks[at] |-> chunks[at][c].max_size]
    <3>4. at \in 1 .. Buffers => new \in Seq(Int)
      BY <3>1
    <3>. HIDE DEF new
    <3>5. bufs' = bufs \/ bufs' = [bufs EXCEPT ![at] = new]
      BY <3>2 DEF new
    <3>. QED
      BY <3>3, <3>4, <3>5
  <2>2. CASE ReserveFails
    <3>1. NoBuffer \in Seq(Int)
      BY DEF NoBuffer
    <3>. QED
      BY <2>2, <3>1 DEF ReserveFails, TypeInv
  <2>3. CASE ~(ReserveBuffer \/ ReserveFails)
    <3>1. bufs' = bufs
      BY <2>3 DEF Next, vars, keptVars, NextGraph, AllocateLeaf, EndLeafs, EndCount, EndLoop, CountNode,
                  AllocateParent, AllocateResult, FreeParent, NextNode, Abort, SavePlan,
                  EndReserve, Place, Ended
    <3>. QED
      BY <3>1 DEF TypeInv
  <2>. QED
    BY <2>1, <2>2, <2>3
<1>3. /\ caller' \in {"alloc", "sched"} /\ n_buffers' \in 1 .. Buffers
      /\ graphs' \in 0 .. MaxGraphs /\ failures' \in 0 .. MaxFailures
  <2>1. CASE NextGraph
    BY <2>1, GallocAssumption DEF NextGraph, StartWalk, TypeInv, GallocAssumption, keptVars
  <2>2. CASE ReserveFails
    BY <2>2, GallocAssumption DEF ReserveFails, StartWalk, TypeInv, GallocAssumption
  <2>3. CASE ~(NextGraph \/ ReserveFails)
    <3>1. UNCHANGED <<caller, n_buffers, graphs, failures>>
      BY <2>3 DEF Next, vars, keptVars, AllocateLeaf, EndLeafs, EndCount, EndLoop, CountNode,
                  AllocateParent, AllocateResult, FreeParent, NextNode, Abort, SavePlan,
                  ReserveBuffer, EndReserve, Place, Ended
    <3>. QED
      BY <3>1 DEF TypeInv
  <2>. QED
    BY <2>1, <2>2, <2>3
<1>. QED
  BY <1>1, <1>2, <1>3 DEF TypeInv

LEMMA TypeIsOK == GallocInv /\ TypeInv => TypeOK
<1>. SUFFICES ASSUME GallocInv, TypeInv PROVE TypeOK
  OBVIOUS
<1>1. /\ graph = NoGraph \/ WellFormed(graph)
      /\ pc \in {"ready", "leafs", "count", "parents", "free", "buffers", "place",
                 "aborted", "crashed"}
      /\ at \in Nat /\ arg \in Nat /\ DOMAIN plan = Tensors(planned)
  BY DEF GallocInv, MemoryInv, PlaceInv, PlanInv
<1>2. \A b \in 1 .. Buffers :
         /\ chunks[b] \in Seq(Chunk) /\ Len(chunks[b]) <= MaxChunks
         /\ \A c \in DOMAIN chunks[b] : Len(chunks[b][c].free) <= MaxFreeBlocks
         /\ bufs[b] \in Seq(Int)
  BY DEF TypeInv, ListInv
<1>. QED
  BY <1>1, <1>2 DEF TypeInv, TypeOK

\* The state is well typed, for any graphs, sizes and bounds: the counters never
\* fall below 0, no buffer has more chunks and no chunk more free blocks than there
\* is room for in the arrays of ggml_dyn_tallocr.
THEOREM AllocatorIsTyped == Spec => []TypeOK
<1>. DEFINE IInv == GallocInv /\ TypeInv
<1>1. Init => IInv
  BY GallocInvInit, TypeInit
<1>2. IInv /\ [Next]_vars => IInv'
  BY GallocInvStep, TypeStep
<1>3. IInv => TypeOK
  BY TypeIsOK
<1>. QED
  BY <1>1, <1>2, <1>3, PTL DEF Spec

-----------------------------------------------------------------------------
(* Room in the buffers.                                                    *)

\* The bytes planned for tensor t are in a buffer that was got from a backend.
FitsPlanned(t) ==
    LET a == plan[t].addr
    IN  /\ a.buffer \in 1 .. Buffers /\ bufs[a.buffer] # NoBuffer
        /\ a.chunk \in DOMAIN bufs[a.buffer]
        /\ a.offset + aligned(planned.tensors[t].size) <= bufs[a.buffer][a.chunk]

\* The buffer of some tensor was refused.
Refused == \E b \in 1 .. Buffers : bufs[b] = NoBuffer /\ \E t \in Owned(planned) : plan[t].addr.buffer = b

\* There is room for what the last walk planned: buffers are made large enough one
\* after the other, and stay.  If one is refused the graph is not computed.
RoomInv ==
    /\ pc = "buffers" =>
          /\ at >= 1
          /\ \A t \in Owned(planned) : Within(plan[t].addr, aligned(planned.tensors[t].size), chunks)
          /\ \A b \in 1 .. Buffers : b < at => ~Outgrown(b)
          /\ \A b \in 1 .. Buffers : \A c \in DOMAIN chunks[b] :
                \E t \in Owned(planned) : plan[t].addr.buffer = b
    /\ pc # "buffers" =>
          \/ \A t \in Owned(planned) : FitsPlanned(t)
          \/ pc # "ready" /\ graph = planned /\ failures > 0 /\ Refused

LEMMA RoomInit == Init => RoomInv
BY DEF Init, RoomInv, Owned, Tensors, NoGraph

LEMMA SavePlanWithin ==
  ASSUME GallocInv, SavePlan, NEW t \in Owned(planned')
  PROVE  Within(plan'[t].addr, aligned(planned'.tensors[t].size), chunks)
<1>1. /\ pc = "parents" /\ at > Len(graph.tensors) /\ at \in Nat /\ WellFormed(graph)
      /\ HeldInv /\ AddrInv
      /\ planned' = graph
      /\ plan' = [u \in Tensors(graph) |->
                    IF Owns(graph, u) THEN [addr |-> addr[u], size_max |-> T(u).size] ELSE NoPlan]
  BY DEF SavePlan, GallocInv, MemoryInv, PlaceInv, SpanInv, Walking
<1>2. t \in Tensors(graph) /\ Owns(graph, t)
  BY <1>1 DEF Owned
<1>3. t < at
  BY <1>1, <1>2, GraphFacts
<1>4. Placed(t)
  BY <1>1, <1>2, <1>3 DEF Placed
<1>5. addr[t] # Nowhere
  BY <1>1, <1>2, <1>4 DEF AddrInv
<1>6. Within(addr[t], aligned(T(t).size), chunks)
  BY <1>1, <1>2, <1>5 DEF HeldInv
<1>7. plan'[t].addr = addr[t] /\ planned'.tensors[t] = T(t)
  BY <1>1, <1>2 DEF T
<1>. QED
  BY <1>6, <1>7

LEMMA SavePlanUses ==
  ASSUME GallocInv, SavePlan, NEW b \in 1 .. Buffers, NEW c \in DOMAIN chunks[b]
  PROVE  \E t \in Owned(planned') : plan'[t].addr.buffer = b
<1>1. /\ WellFormed(graph) /\ AddrInv /\ UsedInv /\ planned' = graph
      /\ plan' = [u \in Tensors(graph) |->
                    IF Owns(graph, u) THEN [addr |-> addr[u], size_max |-> T(u).size] ELSE NoPlan]
  BY DEF SavePlan, GallocInv, MemoryInv, PlaceInv, SpanInv, Walking
<1>2. PICK t \in Tensors(graph) : addr[t].buffer = b
  BY <1>1 DEF UsedInv
<1>3. addr[t] # Nowhere
  <2>1. b # 0
    OBVIOUS
  <2>. QED
    BY <1>2, <2>1 DEF Nowhere
<1>4. Owns(graph, t)
  BY <1>1, <1>3 DEF AddrInv, Placed
<1>5. plan'[t].addr = addr[t] /\ t \in Owned(planned')
  BY <1>1, <1>4 DEF Owned
<1>. QED
  BY <1>2, <1>5

\* A buffer that no chunk has outgrown has the room of its chunks.
LEMMA RoomIsThere ==
  ASSUME PlanInv, TypeInv, NEW t \in Owned(planned),
         Within(plan[t].addr, aligned(planned.tensors[t].size), chunks),
         ~Outgrown(plan[t].addr.buffer)
  PROVE  FitsPlanned(t)
<1>. DEFINE b == plan[t].addr.buffer  c == plan[t].addr.chunk  off == plan[t].addr.offset
            size == aligned(planned.tensors[t].size)  most == chunks[b][c].max_size
<1>1. WellFormed(planned) /\ t \in Tensors(planned) /\ plan[t].addr \in AddrType
  BY DEF PlanInv, Owned
<1>2. size \in Nat \ {0}
  BY <1>1, TensorFacts
<1>3. off \in Nat
  BY <1>1 DEF AddrType
<1>4. b \in 1 .. Buffers /\ c \in DOMAIN chunks[b] /\ off + size <= most
  BY DEF Within
<1>5. bufs[b] # NoBuffer /\ most <= (IF c \in DOMAIN bufs[b] THEN bufs[b][c] ELSE 0)
  <2>1. chunks[b] \in Seq(Chunk) /\ bufs[b] \in Seq(Int)
    BY <1>4 DEF TypeInv
  <2>2. chunks[b][c] \in Chunk
    BY <1>4, <2>1
  <2>3. most \in Int
    BY <2>2 DEF Chunk
  <2>4. c \in DOMAIN bufs[b] => bufs[b][c] \in Int
    BY <2>1
  <2>5. bufs[b] # NoBuffer /\ ~(most > (IF c \in DOMAIN bufs[b] THEN bufs[b][c] ELSE 0))
    BY <1>4 DEF Outgrown
  <2>. HIDE DEF most, b, c
  <2>. QED
    BY <2>3, <2>4, <2>5
<1>6. most \in Int
  <2>0. chunks[b] \in Seq(Chunk)
    BY <1>4 DEF TypeInv
  <2>1. chunks[b][c] \in Chunk
    BY <1>4, <2>0
  <2>. QED
    BY <2>1 DEF Chunk
<1>7. c \in DOMAIN bufs[b] /\ off + size <= bufs[b][c]
  <2>1. c \in DOMAIN bufs[b] => bufs[b][c] \in Int
    <3>1. bufs \in [1 .. Buffers -> Seq(Int)]
      BY DEF TypeInv
    <3>2. bufs[b] \in Seq(Int)
      BY <1>4, <3>1
    <3>. HIDE DEF b, c
    <3>. QED
      BY <3>2
  <2>. HIDE DEF most, b, c, off, size
  <2>. QED
    BY <1>2, <1>3, <1>4, <1>5, <1>6, <2>1
<1>. QED
  BY <1>4, <1>5, <1>7 DEF FitsPlanned

\* A buffer that has been reserved is as large as the walk needs it.
LEMMA ReservedIsEnough ==
  ASSUME TypeInv, ReserveBuffer, MemoryInv, at \in 1 .. Buffers,
         NEW b \in 1 .. Buffers, b < at => ~Outgrown(b), b < at + 1
  PROVE  ~Outgrown(b)'
<1>1. /\ bufs \in [1 .. Buffers -> Seq(Int)] /\ chunks' = chunks /\ at \in Nat
      /\ bufs' = IF Outgrown(at)
                 THEN [bufs EXCEPT ![at] = [c \in DOMAIN chunks[at] |-> chunks[at][c].max_size]]
                 ELSE bufs
  BY DEF TypeInv, ReserveBuffer, MemoryInv, PlaceInv
<1>2. CASE b = at /\ Outgrown(at)
  <2>. DEFINE new == [c \in DOMAIN chunks[at] |-> chunks[at][c].max_size]
  <2>1. bufs'[b] = new
    BY <1>1, <1>2
  <2>2. chunks[b] \in Seq(Chunk)
    BY DEF TypeInv
  <2>3. ASSUME NEW c \in DOMAIN chunks[b] PROVE chunks[b][c].max_size \in Nat
    <3>1. chunks[b][c] \in Chunk
      BY <2>2
    <3>. QED
      BY <3>1 DEF Chunk
  <2>4. new # NoBuffer
    <3>1. CASE 1 \in DOMAIN chunks[at]
      <4>1. new[1] \in Nat
        BY <3>1, <1>2, <2>3
      <4>2. NoBuffer[1] = -1
        BY DEF NoBuffer
      <4>. QED
        BY <4>1, <4>2
    <3>2. CASE 1 \notin DOMAIN chunks[at]
      BY <3>2 DEF NoBuffer
    <3>. QED
      BY <3>1, <3>2
  <2>5. ASSUME NEW c \in DOMAIN chunks[b]
        PROVE  ~(chunks[b][c].max_size > (IF c \in DOMAIN new THEN new[c] ELSE 0))
    <3>1. c \in DOMAIN new /\ new[c] = chunks[b][c].max_size
      BY <1>2
    <3>. QED
      BY <2>3, <3>1
  <2>. HIDE DEF new
  <2>. QED
    BY <1>1, <2>1, <2>4, <2>5 DEF Outgrown
<1>3. CASE ~(b = at /\ Outgrown(at))
  <2>1. ~Outgrown(b)
    BY <1>1, <1>3
  <2>2. bufs'[b] = bufs[b]
    <3>1. CASE Outgrown(at)
      <4>1. b # at
        BY <1>3, <3>1
      <4>. QED
        BY <1>1, <3>1, <4>1
    <3>2. CASE ~Outgrown(at)
      BY <1>1, <3>2
    <3>. QED
      BY <3>1, <3>2
  <2>. QED
    BY <1>1, <2>1, <2>2 DEF Outgrown
<1>. QED
  BY <1>2, <1>3

\* What is kept, of the same sizes in the same buffers, is kept.
LEMMA PlanStays ==
  ASSUME UNCHANGED <<planned, plan, bufs>>
  PROVE  /\ Owned(planned)' = Owned(planned)
         /\ \A t : FitsPlanned(t)' <=> FitsPlanned(t)
         /\ Refused' <=> Refused
BY DEF Owned, FitsPlanned, Refused, Owns, IsView, Tensors

LEMMA RoomStep ==
  ASSUME GallocInv, TypeInv, RoomInv, [Next]_vars
  PROVE  RoomInv'
<1>0. failures \in Nat /\ Buffers \in Nat \ {0} /\ at \in Nat
  BY GallocAssumption DEF TypeInv, GallocAssumption, GallocInv, MemoryInv, PlaceInv
<1>1. CASE SavePlan
  <2>1. pc' = "buffers" /\ at' = 1 /\ chunks' = chunks
    BY <1>1 DEF SavePlan
  <2>2. \A t \in Owned(planned') :
           Within(plan'[t].addr, aligned(planned'.tensors[t].size), chunks)
    BY <1>1, SavePlanWithin
  <2>3. \A b \in 1 .. Buffers : \A c \in DOMAIN chunks[b] :
           \E t \in Owned(planned') : plan'[t].addr.buffer = b
    BY <1>1, SavePlanUses
  <2>4. \A t \in Owned(planned)' :
           Within(plan[t].addr, aligned(planned.tensors[t].size), chunks)'
    BY <2>1, <2>2 DEF Owned, Within, Owns, IsView, Tensors
  <2>5. \A b \in 1 .. Buffers : \A c \in DOMAIN chunks'[b] :
           \E t \in Owned(planned)' : plan'[t].addr.buffer = b
    BY <2>1, <2>3 DEF Owned, Owns, IsView, Tensors
  <2>6. \A b \in 1 .. Buffers : ~(b < at')
    BY <2>1
  <2>. QED
    BY <2>1, <2>4, <2>5, <2>6 DEF RoomInv
<1>2. CASE ReserveBuffer
  <2>1. /\ pc = "buffers" /\ pc' = "buffers" /\ at \in 1 .. Buffers /\ at' = at + 1
        /\ UNCHANGED <<chunks, planned, plan>>
    BY <1>0, <1>2 DEF ReserveBuffer, RoomInv
  <2>2. /\ \A t \in Owned(planned)' :
              Within(plan[t].addr, aligned(planned.tensors[t].size), chunks)'
        /\ \A b \in 1 .. Buffers : \A c \in DOMAIN chunks'[b] :
              \E t \in Owned(planned)' : plan'[t].addr.buffer = b
    BY <2>1 DEF RoomInv, Owned, Within, Owns, IsView, Tensors
  <2>3. ASSUME NEW b \in 1 .. Buffers, b < at' PROVE ~Outgrown(b)'
    <3>1. b < at => ~Outgrown(b)
      BY <2>1 DEF RoomInv
    <3>2. b < at + 1
      BY <2>1, <2>3
    <3>. QED
      BY <1>2, <2>1, <3>1, <3>2, ReservedIsEnough DEF GallocInv
  <2>4. at' >= 1
    BY <1>0, <2>1
  <2>. QED
    BY <2>1, <2>2, <2>3, <2>4 DEF RoomInv
<1>3. CASE EndReserve
  <2>1. /\ pc = "buffers" /\ pc' = "place" /\ at > Buffers
        /\ UNCHANGED <<chunks, planned, plan, bufs>>
    BY <1>3 DEF EndReserve, keptVars, walkVars
  <2>2. ASSUME NEW t \in Owned(planned) PROVE FitsPlanned(t)
    <3>1. Within(plan[t].addr, aligned(planned.tensors[t].size), chunks)
      BY <2>1 DEF RoomInv
    <3>2. plan[t].addr.buffer \in 1 .. Buffers
      BY <3>1 DEF Within
    <3>3. plan[t].addr.buffer < at
      BY <1>0, <2>1, <3>2
    <3>4. ~Outgrown(plan[t].addr.buffer)
      BY <2>1, <3>2, <3>3 DEF RoomInv
    <3>. QED
      BY <3>1, <3>4, RoomIsThere DEF GallocInv
  <2>. QED
    BY <2>1, <2>2, PlanStays DEF RoomInv
<1>4. CASE ReserveFails
  <2>1. /\ pc = "buffers" /\ at \in 1 .. Buffers /\ chunks[at] # <<>> /\ failures' = failures + 1
        /\ bufs' = [bufs EXCEPT ![at] = NoBuffer]
        /\ UNCHANGED <<graph, planned, plan>> /\ pc' \in {"leafs", "place"}
    BY <1>0, <1>4 DEF ReserveFails, StartWalk, RoomInv
  <2>2. planned = graph
    BY <2>1 DEF GallocInv, FitInv
  <2>3. bufs'[at] = NoBuffer
    BY <2>1 DEF TypeInv
  <2>4. 1 \in DOMAIN chunks[at]
    <3>1. chunks[at] \in Seq(Chunk)
      BY <2>1 DEF TypeInv
    <3>. QED
      BY <2>1, <3>1
  <2>5. \E t \in Owned(planned) : plan[t].addr.buffer = at
    BY <2>1, <2>4 DEF RoomInv
  <2>6. Refused'
    BY <2>1, <2>3, <2>5 DEF Refused, Owned, Owns, IsView, Tensors
  <2>7. failures' > 0
    BY <1>0, <2>1
  <2>. QED
    BY <2>1, <2>2, <2>6, <2>7 DEF RoomInv
<1>5. CASE NextGraph
  <2>1. /\ pc = "ready" /\ pc' # "buffers" /\ UNCHANGED <<planned, plan, bufs>>
    BY <1>5 DEF NextGraph, StartWalk, keptVars
  <2>2. \A t \in Owned(planned) : FitsPlanned(t)
    BY <2>1 DEF RoomInv
  <2>. QED
    BY <2>1, <2>2, PlanStays DEF RoomInv
<1>6. CASE Place
  <2>1. /\ pc = "place" /\ pc' \in {"ready", "crashed"} /\ UNCHANGED <<graph, planned, plan, bufs, failures>>
    BY <1>6 DEF Place, keptVars
  <2>2. CASE \A t \in Owned(planned) : FitsPlanned(t)
    BY <2>1, <2>2, PlanStays DEF RoomInv
  <2>3. CASE graph = planned /\ failures > 0 /\ Refused
    <3>1. PICK t \in Owned(graph) : ~Fits(t)
      BY <2>3 DEF Refused, Fits
    <3>2. pc' = "crashed"
      BY <1>6, <3>1 DEF Place, Owned
    <3>. QED
      BY <2>1, <2>3, <3>2, PlanStays DEF RoomInv
  <2>. QED
    BY <2>1, <2>2, <2>3 DEF RoomInv
<1>7. CASE ~(SavePlan \/ ReserveBuffer \/ EndReserve \/ ReserveFails \/ NextGraph \/ Place)
  <2>1. /\ UNCHANGED <<graph, planned, plan, bufs, failures>>
        /\ \/ pc # "buffers" /\ pc' # "buffers" /\ pc' # "ready"
           \/ UNCHANGED <<pc, at, chunks>>
    BY <1>7 DEF Next, vars, walkVars, keptVars, AllocateLeaf, EndLeafs, EndCount, EndLoop,
                CountNode, AllocateParent, AllocateResult, FreeParent, NextNode, Abort, Ended
  <2>2. CASE pc # "buffers" /\ pc' # "buffers" /\ pc' # "ready"
    BY <2>1, <2>2, PlanStays DEF RoomInv
  <2>3. CASE UNCHANGED <<pc, at, chunks>>
    BY <2>1, <2>3 DEF RoomInv, Owned, FitsPlanned, Refused, Owns, IsView, Tensors, Within, Outgrown
  <2>. QED
    BY <2>1, <2>2, <2>3
<1>. QED
  BY <1>1, <1>2, <1>3, <1>4, <1>5, <1>6, <1>7

LEMMA PlaceFits ==
  ASSUME GallocInv, TypeInv, \A u \in Owned(planned) : FitsPlanned(u),
         pc = "place", SameShape(planned, graph), UnreadFit,
         NEW t \in Tensors(graph), Owns(graph, t)
  PROVE  Fits(t)
<1>. DEFINE b == plan[t].addr.buffer  c == plan[t].addr.chunk  off == plan[t].addr.offset
            need == T(t).size  most == aligned(planned.tensors[t].size)
<1>1. plan[t] # NoPlan /\ plan[t].size_max >= need
  BY AllHavePlace DEF GallocInv, Owned, HasPlace, T
<1>2. t \in Tensors(planned) /\ WellFormed(planned)
  BY DEF SameShape, GallocInv, PlanInv
<1>3. t \in Owned(planned) /\ plan[t].size_max = planned.tensors[t].size /\ plan[t].addr \in AddrType
  BY <1>1, <1>2 DEF GallocInv, PlanInv, Owned
<1>4. FitsPlanned(t)
  BY <1>3
<1>5. b \in 1 .. Buffers /\ bufs[b] # NoBuffer /\ c \in DOMAIN bufs[b] /\ off + most <= bufs[b][c]
  BY <1>4 DEF FitsPlanned
<1>6. planned.tensors[t].size \in Nat \ {0} /\ most \in Nat /\ planned.tensors[t].size <= most
  BY <1>2, TensorFacts
<1>7. off \in Nat
  BY <1>3 DEF AddrType
<1>8. need \in Nat
  <2>1. graph = NoGraph \/ WellFormed(graph)
    BY DEF GallocInv, MemoryInv, PlaceInv
  <2>2. WellFormed(graph)
    BY <2>1 DEF NoGraph, Tensors
  <2>. QED
    BY <2>2, TensorFacts DEF T
<1>9. bufs[b][c] \in Int
  <2>1. bufs \in [1 .. Buffers -> Seq(Int)]
    BY DEF TypeInv
  <2>2. bufs[b] \in Seq(Int)
    BY <1>5, <2>1
  <2>. HIDE DEF b, c
  <2>. QED
    BY <1>5, <2>2
<1>10. off + need <= bufs[b][c]
  <2>1. need <= planned.tensors[t].size
    BY <1>1, <1>3
  <2>. HIDE DEF need, most, off, b, c
  <2>2. PICK z : z = planned.tensors[t].size
    OBVIOUS
  <2>. QED
    BY <1>5, <1>6, <1>7, <1>8, <1>9, <2>1, <2>2
<1>. QED
  BY <1>5, <1>10 DEF Fits

LEMMA CrashStep ==
  ASSUME GallocInv, TypeInv, RoomInv, CrashNeedsRefusal, [Next]_vars
  PROVE  CrashNeedsRefusal'
<1>1. CASE Place
  <2>1. /\ pc = "place" /\ UNCHANGED <<graph, planned, plan, bufs, failures>>
        /\ pc' = "crashed" => ~(\A t \in Tensors(graph) : Owns(graph, t) => Fits(t))
    BY <1>1 DEF Place, keptVars
  <2>2. /\ SameShape(planned, graph)' <=> SameShape(planned, graph)
        /\ UnreadFit' <=> UnreadFit
    BY <2>1 DEF SameShape, Tensors, UnreadFit, IsRead, Nodes, StillFits, Owns, IsView
  <2>3. SUFFICES ASSUME pc' = "crashed", SameShape(planned, graph), UnreadFit
                 PROVE  /\ failures > 0
                        /\ \E b \in 1 .. Buffers :
                              bufs[b] = NoBuffer /\ \E t \in Owned(graph) : plan[t].addr.buffer = b
    BY <2>1, <2>2 DEF CrashNeedsRefusal, Owned, Owns, IsView, Tensors
  <2>4. ~(\A t \in Owned(planned) : FitsPlanned(t))
    BY <2>1, <2>3, PlaceFits
  <2>. QED
    BY <2>1, <2>4 DEF RoomInv, Refused
<1>2. CASE ~Place
  <2>1. pc' = "crashed" => pc = "crashed" /\ UNCHANGED <<graph, planned, plan, bufs, failures>>
    BY <1>2 DEF Next, vars, keptVars, NextGraph, AllocateLeaf, EndLeafs, EndCount, EndLoop,
                CountNode, AllocateParent, AllocateResult, FreeParent, NextNode, Abort,
                SavePlan, ReserveBuffer, ReserveFails, EndReserve, Ended, StartWalk
  <2>2. pc' = "crashed" => /\ SameShape(planned, graph)' <=> SameShape(planned, graph)
                           /\ UnreadFit' <=> UnreadFit
                           /\ Owned(graph)' = Owned(graph)
    BY <2>1 DEF SameShape, Tensors, UnreadFit, IsRead, Nodes, StillFits, Owned, Owns, IsView
  <2>. QED
    BY <2>1, <2>2 DEF CrashNeedsRefusal
<1>. QED
  BY <1>1, <1>2

\* A graph for which sizes were planned, or one of the same operations with no larger
\* unread leafs, gets addresses it has no memory at only if a backend has refused the
\* buffer of one of its tensors (ggml_gallocr_needs_realloc, ggml_gallocr_reserve_n_impl).
THEOREM CrashIsARefusal == Spec => []CrashNeedsRefusal
<1>. DEFINE IInv == GallocInv /\ TypeInv /\ RoomInv /\ CrashNeedsRefusal
<1>1. Init => IInv
  BY GallocInvInit, TypeInit, RoomInit DEF Init, CrashNeedsRefusal
<1>2. IInv /\ [Next]_vars => IInv'
  BY GallocInvStep, TypeStep, RoomStep, CrashStep
<1>. QED
  BY <1>1, <1>2, PTL DEF Spec
=============================================================================
