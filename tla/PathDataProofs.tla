--------------------------- MODULE PathDataProofs ---------------------------
(***************************************************************************)
(* What files contain, and the content calls on paths, for any number of   *)
(* files, names and blocks and every block size: every operation leaves in *)
(* every file exactly the bytes of the byte-string reference; every block  *)
(* has one owner with a name; a call changes no file but those it was      *)
(* given; and a clone of a file reads as its source.  First the operations *)
(* on file contents by inode and who holds the blocks after each, with the *)
(* facts about vectors of blocks, their images and their bytes.            *)
(***************************************************************************)
EXTENDS PathData, FiniteSetTheorems, FunctionTheorems, SequenceTheorems, TLAPS

(***************************************************************************)
(* Counting and allocation.                                                *)
(***************************************************************************)
\* A finite set has no member, one member, or more than any one member.
LEMMA CountsByMembers ==
  ASSUME NEW S, IsFiniteSet(S)
  PROVE  /\ Cardinality(S) = 0 <=> S = {}
         /\ Cardinality(S) = 1 <=> \E x : S = {x}
         /\ Cardinality(S) >= 2 => \A x : \E y \in S : y # x
<1>1. /\ Cardinality(S) = 0 <=> S = {}
      /\ Cardinality(S) = 1 <=> \E x : S = {x}
  BY FS_EmptySet, FS_Singleton
<1>2. Cardinality(S) >= 2 => \A x : \E y \in S : y # x
  <2> SUFFICES ASSUME Cardinality(S) >= 2, NEW x, \A y \in S : y = x PROVE FALSE
    OBVIOUS
  <2>1. S = {} \/ S = {x}
    OBVIOUS
  <2>2. Cardinality(S) \in {0, 1}
    BY <1>1, <2>1
  <2> QED
    BY <2>2
<1> QED
  BY <1>1, <1>2

\* FirstFit returns n different free blocks.
LEMMA FirstFitFacts ==
  ASSUME NEW last \in Nat, NEW free \in SUBSET (1 .. last), NEW n \in Nat, NEW s \in FirstFit(n, free)
  PROVE  /\ s \in [1 .. n -> free]
         /\ \A x, y \in 1 .. n : s[x] = s[y] => x = y
<1> DEFINE Lower(b) == {c \in free : c < b}
           Count == Cardinality(free)
           Rank == [b \in free |-> Cardinality(Lower(b)) + 1]
<1>0. \A b \in free : b \in Int
  OBVIOUS
<1>1. IsFiniteSet(free) /\ Count \in Nat
  BY FS_Interval, FS_Subset, FS_CardinalityType, 1 \in Int, last \in Int
<1>2. \A b \in free : /\ IsFiniteSet(Lower(b)) /\ Cardinality(Lower(b)) \in Nat
                       /\ Cardinality(Lower(b)) + 1 <= Count
  <2> SUFFICES ASSUME NEW b \in free
               PROVE  /\ IsFiniteSet(Lower(b)) /\ Cardinality(Lower(b)) \in Nat
                      /\ Cardinality(Lower(b)) + 1 <= Count
    OBVIOUS
  <2>1. Lower(b) \in SUBSET (free \ {b})
    OBVIOUS
  <2>2. IsFiniteSet(free \ {b}) /\ Cardinality(free \ {b}) = Count - 1
    BY <1>1, FS_RemoveElement
  <2>3. IsFiniteSet(Lower(b)) /\ Cardinality(Lower(b)) <= Cardinality(free \ {b})
    BY <2>1, <2>2, FS_Subset
  <2>4. Cardinality(Lower(b)) \in Nat
    BY <2>3, FS_CardinalityType
  <2> QED
    BY <1>1, <2>2, <2>3, <2>4
<1>3. Rank \in [free -> 1 .. Count]
  <2>1. \A b \in free : Cardinality(Lower(b)) + 1 \in 1 .. Count
    BY <1>1, <1>2
  <2> QED
    BY <2>1
<1>4. ASSUME NEW a \in free, NEW b \in free, a < b PROVE Rank[a] < Rank[b]
  <2>1. Lower(a) \cup {a} \in SUBSET Lower(b)
    <3>1. \A c \in Lower(a) : c < b
      BY <1>0, <1>4
    <3> QED
      BY <1>4, <3>1
  <2>2. Cardinality(Lower(a) \cup {a}) = Cardinality(Lower(a)) + 1
    <3>1. a \notin Lower(a) /\ IsFiniteSet(Lower(a))
      BY <1>0, <1>2
    <3> HIDE DEF Lower
    <3> QED
      BY <3>1, FS_AddElement
  <2>3. Cardinality(Lower(a) \cup {a}) <= Cardinality(Lower(b))
    BY <1>2, <2>1, FS_Subset
  <2> QED
    BY <1>2, <2>2, <2>3
<1> HIDE DEF Rank
<1>5. ASSUME NEW a \in free, NEW b \in free, Rank[a] = Rank[b] PROVE a = b
  <2>0. Rank[a] \in Int /\ Rank[b] \in Int
    BY <1>3
  <2>1. ~ (a < b)
    BY <1>4, <1>5, <2>0
  <2>2. ~ (b < a)
    BY <1>4, <1>5, <2>0
  <2> QED
    BY <1>0, <2>1, <2>2
<1>6. Rank \in Injection(free, 1 .. Count)
  BY <1>3, <1>5, Fun_IsInj
<1>7. IsFiniteSet(1 .. Count) /\ Cardinality(1 .. Count) = Count
  <2>1. 1 \in Int /\ Count \in Int /\ (1 <= Count => Count - 1 + 1 = Count) /\ (~ (1 <= Count) => Count = 0)
    BY <1>1
  <2> HIDE DEF Count
  <2> QED
    BY <2>1, FS_Interval
<1>8. Rank \in Surjection(free, 1 .. Count)
  BY <1>6, <1>7, FS_Injection
<1>9. \A m \in 1 .. Count : \E b \in free : Rank[b] = m
  BY <1>8, Fun_SurjectionProperties, Zenon
<1>10. \A m \in 1 .. Count : \E b \in free : Cardinality(Lower(b)) = m - 1
  <2> SUFFICES ASSUME NEW m \in 1 .. Count PROVE \E b \in free : Cardinality(Lower(b)) = m - 1
    OBVIOUS
  <2>1. PICK b \in free : Rank[b] = m
    BY <1>9
  <2>2. Rank[b] = Cardinality(Lower(b)) + 1 /\ Cardinality(Lower(b)) \in Nat
    BY <1>2 DEF Rank
  <2> HIDE DEF Lower
  <2> QED
    BY <1>1, <2>1, <2>2
<1> DEFINE nth(m) == CHOOSE b \in free : Cardinality(Lower(b)) = m - 1
<1>11. n <= Count /\ s = [m \in 1 .. n |-> nth(m)]
  BY DEF FirstFit
<1>12. \A m \in 1 .. n : nth(m) \in free /\ Cardinality(Lower(nth(m))) = m - 1
  <2>1. \A m \in 1 .. n : m \in 1 .. Count
    BY <1>1, <1>11
  <2>2. \A m \in 1 .. n : \E b \in free : Cardinality(Lower(b)) = m - 1
    BY <1>10, <2>1
  <2> QED
    BY <2>2, Zenon
<1> HIDE DEF nth
<1>13. s \in [1 .. n -> free]
  BY <1>11, <1>12
<1>14. ASSUME NEW x \in 1 .. n, NEW y \in 1 .. n, s[x] = s[y] PROVE x = y
  <2>1. nth(x) = nth(y)
    BY <1>11, <1>14
  <2>2. x - 1 = y - 1
    BY <1>12, <2>1
  <2> QED
    BY <2>2
<1> QED
  BY <1>13, <1>14

(***************************************************************************)
(* Whole blocks of bytes.                                                  *)
(***************************************************************************)
\* Multiplication by the block size keeps the order.
LEMMA ScaledOrder ==
  ASSUME NEW b \in Nat, NEW x \in Int, NEW y \in Int, x <= y
  PROVE  b * x <= b * y /\ b * x \in Int /\ b * y \in Int
<1>1. b * (y - x) >= 0
  BY SMT
<1>2. b * (y - x) = b * y - b * x
  BY SMT
<1> QED
  BY <1>1, <1>2, SMT

\* A quotient lies between the two nearest multiples of the divisor.
LEMMA QuotientBounds ==
  ASSUME NEW x \in Nat, NEW b \in Nat \ {0}
  PROVE  /\ x \div b \in Nat /\ x % b \in 0 .. b - 1
         /\ b * (x \div b) <= x /\ x < b * (x \div b) + b
         /\ x = b * (x \div b) + (x % b)
<1> DEFINE q == x \div b
           r == x % b
<1>1. q \in Nat /\ r \in 0 .. b - 1 /\ x = b * q + r
  BY SMT
<1>2. b * q \in Nat
  BY <1>1, SMT
<1> QED
  BY <1>1, <1>2

\* ... and is determined by that.
LEMMA QuotientUnique ==
  ASSUME NEW x \in Nat, NEW b \in Nat \ {0}, NEW m \in Nat, b * m <= x, x < b * m + b
  PROVE  x \div b = m
<1> DEFINE q == x \div b
<1>1. q \in Nat /\ b * q <= x /\ x < b * q + b
  BY QuotientBounds
<1> HIDE DEF q
<1>2. b * (q + 1) = b * q + b /\ b * (m + 1) = b * m + b
  BY <1>1, SMT
<1>3. ~ (q + 1 <= m)
  BY <1>1, <1>2, ScaledOrder
<1>4. ~ (m + 1 <= q)
  BY <1>1, <1>2, ScaledOrder
<1> QED
  BY <1>1, <1>3, <1>4 DEF q

\* A file of m blocks may leave less than a block of the last one unused.
LEMMA BlockCountOf ==
  ASSUME NEW m \in Nat, NEW slack \in 0 .. BlockSize - 1, BlockSize * m - slack \in Nat
  PROVE  BlockCount(BlockSize * m - slack) = m
<1>1. BlockSize \in Nat \ {0} /\ BlockSize * m \in Nat
  BY GeometryAssumption, SMT
<1> DEFINE x == BlockSize * m - slack + BlockSize - 1
<1>2. x \in Nat /\ BlockSize * m <= x /\ x < BlockSize * m + BlockSize
  BY <1>1
<1> HIDE DEF x
<1>3. x \div BlockSize = m
  BY <1>1, <1>2, QuotientUnique
<1> QED
  BY <1>3 DEF BlockCount, x

\* byte_len_to_block_count: so many blocks hold the bytes, and one less does not.
LEMMA BlockCountBounds ==
  ASSUME NEW n \in Nat
  PROVE  /\ BlockCount(n) \in Nat
         /\ n <= BlockSize * BlockCount(n)
         /\ BlockSize * BlockCount(n) - n \in 0 .. BlockSize - 1
<1>1. BlockSize \in Nat \ {0} /\ n + BlockSize - 1 \in Nat
  BY GeometryAssumption
<1>2. /\ BlockCount(n) \in Nat /\ BlockSize * BlockCount(n) <= n + BlockSize - 1
      /\ n + BlockSize - 1 < BlockSize * BlockCount(n) + BlockSize
  BY <1>1, QuotientBounds DEF BlockCount
<1>3. BlockSize * BlockCount(n) \in Nat
  BY <1>1, <1>2, SMT
<1> QED
  BY <1>1, <1>2, <1>3

\* A longer file has at least as many blocks.
LEMMA BlockCountOrder ==
  ASSUME NEW m \in Nat, NEW n \in Nat, m <= n
  PROVE  BlockCount(m) <= BlockCount(n)
<1>1. BlockSize \in Nat \ {0}
  BY GeometryAssumption
<1> DEFINE x == BlockCount(m)
           y == BlockCount(n)
<1>2. /\ x \in Nat /\ y \in Nat /\ n <= BlockSize * y /\ BlockSize * x - m < BlockSize
      /\ BlockSize * x \in Nat /\ BlockSize * y \in Nat
  BY <1>1, BlockCountBounds, SMT
<1> HIDE DEF x, y
<1>3. BlockSize * (y + 1) = BlockSize * y + BlockSize
  BY <1>1, <1>2, SMT
<1>4. ~ (y + 1 <= x)
  BY <1>1, <1>2, <1>3, ScaledOrder
<1> QED
  BY <1>2, <1>4 DEF x, y

(***************************************************************************)
(* Vectors of blocks: who is in them, and that nobody is in them twice.    *)
(***************************************************************************)
\* One vector after another.
LEMMA ConcatMembers ==
  ASSUME NEW S, NEW s \in Seq(S), NEW t \in Seq(S)
  PROVE  /\ Range(s \o t) = Range(s) \cup Range(t)
         /\ IsInjective(s \o t) <=>
              IsInjective(s) /\ IsInjective(t) /\ Range(s) \cap Range(t) = {}
<1> DEFINE w == s \o t
           m == Len(s)
           n == Len(t)
<1>1. /\ m \in Nat /\ n \in Nat
      /\ DOMAIN s = 1 .. m /\ DOMAIN t = 1 .. n /\ DOMAIN w = 1 .. m + n
      /\ \A x \in 1 .. m : w[x] = s[x]
      /\ \A x \in 1 .. n : w[m + x] = t[x]
  BY ConcatProperties, LenProperties
<1> HIDE DEF w, m, n
<1>2. \A x \in 1 .. m + n : x \in 1 .. m \/ \E y \in 1 .. n : x = m + y
  <2> SUFFICES ASSUME NEW x \in 1 .. m + n, x \notin 1 .. m
               PROVE  \E y \in 1 .. n : x = m + y
    OBVIOUS
  <2>1. x - m \in 1 .. n /\ x = m + (x - m)
    BY <1>1
  <2> QED
    BY <2>1
<1>3. ASSUME IsInjective(w)
      PROVE  IsInjective(s) /\ IsInjective(t) /\ Range(s) \cap Range(t) = {}
  <2>1. \A x, y \in 1 .. m + n : w[x] = w[y] => x = y
    BY <1>1, <1>3 DEF IsInjective
  <2>2. \A x \in 1 .. m : x \in 1 .. m + n
    BY <1>1
  <2>3. \A x \in 1 .. n : m + x \in 1 .. m + n
    BY <1>1
  <2>4. \A x, y \in 1 .. m : s[x] = s[y] => x = y
    BY <1>1, <2>1, <2>2
  <2>5. \A x, y \in 1 .. n : t[x] = t[y] => m + x = m + y
    BY <1>1, <2>1, <2>3
  <2>6. \A x \in 1 .. m, y \in 1 .. n : s[x] # t[y]
    <3> SUFFICES ASSUME NEW x \in 1 .. m, NEW y \in 1 .. n, s[x] = t[y] PROVE FALSE
      OBVIOUS
    <3>1. x = m + y
      BY <1>1, <2>1, <2>2, <2>3
    <3> QED
      BY <1>1, <3>1
  <2>7. IsInjective(s)
    BY <1>1, <2>4 DEF IsInjective
  <2>8. IsInjective(t)
    <3>1. \A x, y \in 1 .. n : m + x = m + y => x = y
      BY <1>1
    <3> QED
      BY <1>1, <2>5, <3>1 DEF IsInjective
  <2> QED
    BY <1>1, <2>6, <2>7, <2>8 DEF Range
<1>4. ASSUME IsInjective(s), IsInjective(t), Range(s) \cap Range(t) = {}
      PROVE  IsInjective(w)
  <2>1. \A x \in 1 .. m, y \in 1 .. n : s[x] # t[y]
    BY <1>1, <1>4 DEF Range
  <2> SUFFICES ASSUME NEW x \in 1 .. m + n, NEW y \in 1 .. m + n, w[x] = w[y]
               PROVE  x = y
    BY <1>1 DEF IsInjective
  <2>2. CASE x \in 1 .. m /\ y \in 1 .. m
    BY <1>1, <1>4, <2>2 DEF IsInjective
  <2>3. CASE x \in 1 .. m /\ \E v \in 1 .. n : y = m + v
    BY <1>1, <2>1, <2>3
  <2>4. CASE (\E v \in 1 .. n : x = m + v) /\ y \in 1 .. m
    <3>1. PICK v \in 1 .. n : x = m + v
      BY <2>4
    <3>2. w[x] = t[v] /\ w[y] = s[y]
      BY <1>1, <2>4, <3>1
    <3> QED
      BY <2>1, <2>4, <3>2
  <2>5. CASE (\E v \in 1 .. n : x = m + v) /\ (\E v \in 1 .. n : y = m + v)
    <3>1. PICK u \in 1 .. n, v \in 1 .. n : x = m + u /\ y = m + v
      BY <2>5
    <3>2. t[u] = t[v]
      BY <1>1, <3>1
    <3>3. u = v
      BY <1>1, <1>4, <3>2 DEF IsInjective
    <3> QED
      BY <3>1, <3>3
  <2> QED
    BY <1>2, <2>2, <2>3, <2>4, <2>5
<1> QED
  BY <1>3, <1>4, RangeConcatenation DEF w

\* A vector, cut at a and at z.
LEMMA CutInThree ==
  ASSUME NEW S, NEW s \in Seq(S), NEW a \in Nat, NEW z \in Nat, a <= z, z <= Len(s)
  PROVE  /\ SubSeq(s, 1, a) \in Seq(S) /\ Len(SubSeq(s, 1, a)) = a
         /\ SubSeq(s, a + 1, z) \in Seq(S) /\ Len(SubSeq(s, a + 1, z)) = z - a
         /\ SubSeq(s, z + 1, Len(s)) \in Seq(S)
         /\ Len(SubSeq(s, z + 1, Len(s))) = Len(s) - z
         /\ SubSeq(s, 1, z) \in Seq(S)
         /\ SubSeq(s, 1, z) = SubSeq(s, 1, a) \o SubSeq(s, a + 1, z)
         /\ SubSeq(s, 1, z) \o SubSeq(s, z + 1, Len(s)) = s
<1> DEFINE n == Len(s)
<1>1. n \in Nat /\ \A x \in 1 .. n : s[x] \in S
  BY LenProperties
<1> HIDE DEF n
<1>2. SubSeq(s, 1, a) \in Seq(S) /\ Len(SubSeq(s, 1, a)) = a
  <2>1. \A x \in 1 .. a : s[x] \in S
    BY <1>1 DEF n
  <2> QED
    BY <2>1, SubSeqProperties
<1>3. SubSeq(s, a + 1, z) \in Seq(S) /\ Len(SubSeq(s, a + 1, z)) = z - a
  <2>1. \A x \in a + 1 .. z : s[x] \in S
    BY <1>1 DEF n
  <2> QED
    BY <2>1, SubSeqProperties
<1>4. SubSeq(s, z + 1, n) \in Seq(S) /\ Len(SubSeq(s, z + 1, n)) = n - z
  <2>1. \A x \in z + 1 .. n : s[x] \in S
    BY <1>1
  <2>2. z <= n
    BY DEF n
  <2> QED
    BY <1>1, <2>1, <2>2, SubSeqProperties
<1>5. SubSeq(s, 1, a) \o SubSeq(s, a + 1, z) = SubSeq(s, 1, z)
  <2>1. 1 \in 1 .. n + 1 /\ a \in 1 - 1 .. n /\ z \in a .. n
    BY <1>1 DEF n
  <2> QED
    BY <2>1, ConcatAdjacentSubSeq DEF n
<1>6. SubSeq(s, 1, z) \o SubSeq(s, z + 1, n) = SubSeq(s, 1, n)
  <2>1. 1 \in 1 .. n + 1 /\ z \in 1 - 1 .. n /\ n \in z .. n
    BY <1>1 DEF n
  <2> QED
    BY <2>1, ConcatAdjacentSubSeq DEF n
<1>7. SubSeq(s, 1, n) = s
  BY SubSeqFull DEF n
<1>8. SubSeq(s, 1, z) \in Seq(S)
  BY <1>2, <1>3, <1>5, ConcatProperties
<1> QED
  BY <1>2, <1>3, <1>4, <1>5, <1>6, <1>7, <1>8 DEF n

\* Replacing a range: its members leave, the new ones come, the rest stays, and
\* nobody is in the vector twice if the new ones are not among those that stay.
LEMMA SpliceMembers ==
  ASSUME NEW S, NEW s \in Seq(S), NEW a \in Nat, NEW z \in Nat, a <= z, z <= Len(s),
         NEW new \in Seq(S)
  PROVE  /\ Splice(s, a, z, new) \in Seq(S)
         /\ Len(Splice(s, a, z, new)) = Len(s) - (z - a) + Len(new)
         /\ IsInjective(s) =>
              /\ IsInjective(SubSeq(s, a + 1, z))
              /\ Range(SubSeq(s, a + 1, z)) \subseteq Range(s)
              /\ Range(Splice(s, a, z, new)) =
                    (Range(s) \ Range(SubSeq(s, a + 1, z))) \cup Range(new)
              /\ IsInjective(new) /\ Range(new) \cap (Range(s) \ Range(SubSeq(s, a + 1, z))) = {}
                    => IsInjective(Splice(s, a, z, new))
<1> DEFINE l == SubSeq(s, 1, a)
           m == SubSeq(s, a + 1, z)
           r == SubSeq(s, z + 1, Len(s))
           u == SubSeq(s, 1, z)
           w == l \o new
<1>1. /\ l \in Seq(S) /\ Len(l) = a /\ m \in Seq(S) /\ r \in Seq(S) /\ u \in Seq(S)
      /\ Len(r) = Len(s) - z
  <2>1. l \in Seq(S) /\ Len(l) = a
    BY CutInThree
  <2>2. m \in Seq(S) /\ u \in Seq(S)
    BY CutInThree
  <2>3. r \in Seq(S) /\ Len(r) = Len(s) - z
    BY CutInThree
  <2> QED
    BY <2>1, <2>2, <2>3
<1>a. u \o r = s
  <2> HIDE DEF l, m, w
  <2>1. u \o r = SubSeq(s, 1, Len(s))
    <3>1. Len(s) \in Nat
      BY LenProperties
    <3>2. 1 \in 1 .. Len(s) + 1 /\ z \in 1 - 1 .. Len(s) /\ Len(s) \in z .. Len(s)
      BY <3>1
    <3> QED
      BY <3>2, ConcatAdjacentSubSeq
  <2>2. SubSeq(s, 1, Len(s)) = s
    BY SubSeqFull
  <2> QED
    BY <2>1, <2>2
<1>b. u = l \o m
  BY CutInThree
<1>2. Splice(s, a, z, new) = w \o r
  BY DEF Splice
<1>3. w \in Seq(S) /\ Len(w) = a + Len(new)
  BY <1>1, ConcatProperties
<1> HIDE DEF l, m, r, u
<1>4. /\ Range(w) = Range(l) \cup Range(new)
      /\ IsInjective(w) <=>
           IsInjective(l) /\ IsInjective(new) /\ Range(l) \cap Range(new) = {}
  BY <1>1, ConcatMembers
<1> HIDE DEF w
<1>5. w \o r \in Seq(S) /\ Len(w \o r) = Len(s) - (z - a) + Len(new)
  <2>1. w \o r \in Seq(S) /\ Len(w \o r) = a + Len(new) + (Len(s) - z)
    <3>1. w \o r \in Seq(S) /\ Len(w \o r) = Len(w) + Len(r)
      <4>1. w \in Seq(S) /\ r \in Seq(S)
        BY <1>1, <1>3
      <4> QED
        BY <4>1, ConcatProperties
    <3> QED
      BY <1>1, <1>3, <3>1
  <2>2. Len(s) \in Nat /\ Len(new) \in Nat
    BY LenProperties
  <2> QED
    BY <2>1, <2>2
<1>6. ASSUME IsInjective(s)
      PROVE  /\ IsInjective(m) /\ Range(m) \subseteq Range(s)
             /\ Range(w \o r) = (Range(s) \ Range(m)) \cup Range(new)
             /\ IsInjective(new) /\ Range(new) \cap (Range(s) \ Range(m)) = {}
                   => IsInjective(w \o r)
  <2>1. /\ Range(s) = Range(u) \cup Range(r)
        /\ IsInjective(u) /\ IsInjective(r) /\ Range(u) \cap Range(r) = {}
    <3>1. IsInjective(u \o r) /\ Range(s) = Range(u \o r)
      BY <1>6, <1>a
    <3> QED
      BY <1>1, <3>1, ConcatMembers
  <2>2. /\ Range(u) = Range(l) \cup Range(m)
        /\ IsInjective(l) /\ IsInjective(m) /\ Range(l) \cap Range(m) = {}
    BY <1>1, <1>b, <2>1, ConcatMembers
  <2>3. /\ Range(w \o r) = Range(w) \cup Range(r)
        /\ IsInjective(w \o r) <=>
              IsInjective(w) /\ IsInjective(r) /\ Range(w) \cap Range(r) = {}
    BY <1>1, <1>3, ConcatMembers
  <2>4. Range(w \o r) = (Range(s) \ Range(m)) \cup Range(new)
    BY <1>4, <2>1, <2>2, <2>3
  <2>5. ASSUME IsInjective(new), Range(new) \cap (Range(s) \ Range(m)) = {}
        PROVE  IsInjective(w \o r)
    <3>1. Range(l) \cap Range(new) = {} /\ Range(w) \cap Range(r) = {}
      BY <1>4, <2>1, <2>2, <2>5
    <3> QED
      BY <1>4, <2>1, <2>2, <2>3, <2>5, <3>1
  <2> QED
    BY <2>1, <2>2, <2>4, <2>5
<1> QED
  BY <1>2, <1>5, <1>6 DEF m

\* The members of a vector, a range of which was replaced.
LEMMA SpliceAt ==
  ASSUME NEW S, NEW s \in Seq(S), NEW a \in Nat, NEW z \in Nat, a <= z, z <= Len(s),
         NEW new \in Seq(S)
  PROVE  \A x \in 1 .. Len(s) - (z - a) + Len(new) :
            Splice(s, a, z, new)[x] = IF x <= a THEN s[x]
                                      ELSE IF x <= a + Len(new) THEN new[x - a]
                                      ELSE s[x - (a + Len(new)) + z]
<1> DEFINE n == Len(s)
           m == Len(new)
           l == SubSeq(s, 1, a)
           r == SubSeq(s, z + 1, n)
           w == l \o new
           u == w \o r
<1>1. n \in Nat /\ m \in Nat
  BY LenProperties
<1>2. l \in Seq(S) /\ Len(l) = a
  BY CutInThree
<1>3. r \in Seq(S) /\ Len(r) = n - z
  BY CutInThree
<1>4. \A x \in 1 .. a : l[x] = s[x]
  <2>1. \A x \in 1 .. a : s[x] \in S
    BY <1>1, ElementOfSeq
  <2>2. \A x \in 1 .. a - 1 + 1 : l[x] = s[1 + x - 1]
    BY <2>1, SubSeqProperties
  <2> QED
    BY <2>2
<1>5. \A x \in 1 .. n - z : r[x] = s[z + x]
  <2>1. \A x \in z + 1 .. n : s[x] \in S
    BY <1>1, ElementOfSeq
  <2> HIDE DEF n
  <2>2. \A x \in 1 .. n - (z + 1) + 1 : r[x] = s[(z + 1) + x - 1]
    BY <1>1, <2>1, SubSeqProperties
  <2> QED
    BY <1>1, <2>2
<1>6. Splice(s, a, z, new) = u
  BY DEF Splice
<1> HIDE DEF l, r
<1>7. w \in Seq(S) /\ Len(w) = Len(l) + m
      /\ \A x \in 1 .. Len(l) + m : w[x] = IF x <= Len(l) THEN l[x] ELSE new[x - Len(l)]
  BY <1>2, ConcatProperties
<1> HIDE DEF w
<1>8. Len(u) = Len(w) + Len(r)
      /\ \A x \in 1 .. Len(w) + Len(r) : u[x] = IF x <= Len(w) THEN w[x] ELSE r[x - Len(w)]
  <2>1. w \in Seq(S) /\ r \in Seq(S)
    BY <1>3, <1>7
  <2> QED
    BY <2>1, ConcatProperties
<1> HIDE DEF u, n, m
<1>9. ASSUME NEW x \in 1 .. n - (z - a) + m
      PROVE  u[x] = IF x <= a THEN s[x] ELSE IF x <= a + m THEN new[x - a] ELSE s[x - (a + m) + z]
  <2>0. z <= n
    BY DEF n
  <2>1. u[x] = IF x <= a + m THEN w[x] ELSE r[x - (a + m)]
    <3>1. Len(w) = a + m /\ Len(r) = n - z /\ x \in 1 .. (a + m) + (n - z)
      BY <1>1, <1>2, <1>3, <1>7
    <3>2. \A k \in 1 .. (a + m) + (n - z) : u[k] = IF k <= a + m THEN w[k] ELSE r[k - (a + m)]
      BY <1>8, <3>1
    <3> QED
      BY <3>1, <3>2
  <2>2. CASE x <= a
    <3>1. w[x] = l[x] /\ l[x] = s[x] /\ x <= a + m
      BY <1>1, <1>2, <1>4, <1>7, <2>2
    <3> QED
      BY <2>1, <2>2, <3>1
  <2>3. CASE ~ (x <= a) /\ x <= a + m
    <3>1. w[x] = new[x - a]
      BY <1>1, <1>2, <1>7, <2>3
    <3> QED
      BY <2>1, <2>3, <3>1
  <2>4. CASE ~ (x <= a + m)
    <3>1. x - (a + m) \in 1 .. n - z /\ z + (x - (a + m)) = x - (a + m) + z /\ ~ (x <= a)
      BY <1>1, <2>0, <2>4
    <3>2. r[x - (a + m)] = s[x - (a + m) + z]
      BY <1>5, <3>1
    <3> QED
      BY <2>1, <2>4, <3>1, <3>2
  <2> QED
    BY <2>2, <2>3, <2>4
<1> QED
  BY <1>6, <1>9 DEF n, m

\* Exchanging two ranges of a vector one after the other, the later one first:
\* p leaves from a, q stays between, r comes from behind q.
LEMMA ExchangedVector ==
  ASSUME NEW S, NEW s \in Seq(S), NEW a \in Nat, NEW p \in Seq(S), NEW q \in Seq(S),
         NEW r \in Seq(S), a + Len(p) + Len(q) + Len(r) <= Len(s),
         \A x \in 1 .. Len(q) : q[x] = s[a + Len(p) + x]
  PROVE  Splice(Splice(s, a + Len(p) + Len(q), a + Len(p) + Len(q) + Len(r), p), a, a + Len(p), r)
           = Splice(s, a, a + Len(p) + Len(q) + Len(r), r \o q \o p)
<1> DEFINE n == Len(s)
           lp == Len(p)
           lq == Len(q)
           lr == Len(r)
           z == a + lp
           b == a + lp + lq
           y == a + lp + lq + lr
           t == Splice(s, b, y, p)
           u == Splice(t, a, z, r)
           rq == r \o q
           k == rq \o p
           v == Splice(s, a, y, k)
<1>1. n \in Nat /\ lp \in Nat /\ lq \in Nat /\ lr \in Nat /\ y <= n
  BY LenProperties
<1>2. z = a + lp /\ b = z + lq /\ y = b + lr
  BY <1>1
<1>3. \A x \in 1 .. lq : q[x] = s[z + x]
  OBVIOUS
<1>4. /\ z \in Nat /\ b \in Nat /\ y \in Nat /\ a <= z /\ b <= y /\ a <= y
  BY <1>1
<1> HIDE DEF z, b, y, t, u, k, v
<1>5. t \in Seq(S) /\ Len(t) = n - (y - b) + lp
  BY <1>1, <1>4, SpliceMembers DEF t
<1>6. \A x \in 1 .. n - (y - b) + lp :
        t[x] = IF x <= b THEN s[x] ELSE IF x <= b + lp THEN p[x - b] ELSE s[x - (b + lp) + y]
  BY <1>1, <1>4, SpliceAt DEF t
<1>7. rq \in Seq(S) /\ Len(rq) = lr + lq
      /\ \A x \in 1 .. lr + lq : rq[x] = IF x <= lr THEN r[x] ELSE q[x - lr]
  BY ConcatProperties
<1> HIDE DEF rq
<1>8. k \in Seq(S) /\ Len(k) = Len(rq) + lp
      /\ \A x \in 1 .. Len(rq) + lp : k[x] = IF x <= Len(rq) THEN rq[x] ELSE p[x - Len(rq)]
  <2>1. rq \in Seq(S)
    BY <1>7
  <2> QED
    BY <2>1, ConcatProperties DEF k
<1> DEFINE lt == Len(t)
           lk == Len(k)
           g == lr + lq
<1>9. z <= lt
  <2> HIDE DEF lp, lq, lr, n
  <2> QED
    BY <1>1, <1>2, <1>4, <1>5
<1>10. u \in Seq(S) /\ Len(u) = lt - (z - a) + lr
  <2>1. t \in Seq(S)
    BY <1>5
  <2> QED
    BY <1>4, <1>9, <2>1, SpliceMembers DEF u
<1>11. \A x \in 1 .. lt - (z - a) + lr :
         u[x] = IF x <= a THEN t[x] ELSE IF x <= a + lr THEN r[x - a] ELSE t[x - (a + lr) + z]
  <2>1. t \in Seq(S)
    BY <1>5
  <2> QED
    BY <1>4, <1>9, <2>1, SpliceAt DEF u
<1>12. v \in Seq(S) /\ Len(v) = n - (y - a) + lk
  <2>1. k \in Seq(S) /\ y <= n
    BY <1>1, <1>8
  <2> QED
    BY <1>4, <2>1, SpliceMembers DEF v
<1>13. \A x \in 1 .. n - (y - a) + lk :
         v[x] = IF x <= a THEN s[x] ELSE IF x <= a + lk THEN k[x - a] ELSE s[x - (a + lk) + y]
  <2>1. k \in Seq(S) /\ y <= n
    BY <1>1, <1>8
  <2> QED
    BY <1>4, <2>1, SpliceAt DEF v
<1>14. lt = n - lr + lp /\ Len(rq) = g /\ lk = g + lp /\ g \in Nat
  <2>1. lt = n - (y - b) + lp /\ Len(rq) = g /\ lk = Len(rq) + lp
    BY <1>5, <1>7, <1>8
  <2> HIDE DEF n, lp, lq, lr, lt, lk
  <2> QED
    BY <1>1, <1>2, <1>4, <2>1
<1> HIDE DEF n, lp, lq, lr, lt, lk
<1>15. /\ lt - (z - a) + lr = n /\ n - (y - a) + lk = n /\ n - (y - b) + lp = lt
       /\ a + lk = y
  BY <1>1, <1>2, <1>4, <1>14
<1>16. \A x \in 1 .. lt :
         t[x] = IF x <= b THEN s[x] ELSE IF x <= b + lp THEN p[x - b] ELSE s[x - (b + lp) + y]
  BY <1>6, <1>15
<1>17. \A x \in 1 .. n :
         u[x] = IF x <= a THEN t[x] ELSE IF x <= a + lr THEN r[x - a] ELSE t[x - (a + lr) + z]
  BY <1>11, <1>15
<1>18. \A x \in 1 .. n : v[x] = IF x <= a THEN s[x] ELSE IF x <= y THEN k[x - a] ELSE s[x - y + y]
  BY <1>13, <1>15
<1>19. \A x \in 1 .. g : rq[x] = IF x <= lr THEN r[x] ELSE q[x - lr]
  BY <1>7
<1>20. \A x \in 1 .. g + lp : k[x] = IF x <= g THEN rq[x] ELSE p[x - g]
  BY <1>8, <1>14
<1>21. Len(u) = n /\ Len(v) = n
  BY <1>10, <1>12, <1>15
<1>22. ASSUME NEW x \in 1 .. n PROVE u[x] = v[x]
  <2>1. CASE x <= a
    <3>1. x \in 1 .. lt /\ x <= b
      BY <1>1, <1>2, <1>4, <1>9, <1>14, <2>1
    <3>2. t[x] = s[x]
      BY <1>16, <3>1
    <3> QED
      BY <1>17, <1>18, <2>1, <3>2
  <2>2. CASE ~ (x <= a) /\ x <= a + lr
    <3>1. x <= y /\ x - a \in 1 .. g /\ x - a <= lr /\ x - a \in 1 .. g + lp /\ x - a <= g
      BY <1>1, <1>2, <1>4, <2>2
    <3>2. rq[x - a] = r[x - a]
      BY <1>19, <3>1
    <3>3. k[x - a] = rq[x - a]
      BY <1>20, <3>1
    <3>4. u[x] = r[x - a]
      BY <1>17, <2>2
    <3>5. v[x] = k[x - a]
      BY <1>18, <2>2, <3>1
    <3> QED
      BY <3>2, <3>3, <3>4, <3>5
  <2>3. CASE ~ (x <= a + lr) /\ x <= a + g
    <3> DEFINE m == x - (a + lr) + z
               o == x - a
    <3>1. /\ m \in 1 .. lt /\ m <= b /\ ~ (x <= a) /\ x <= y
          /\ o \in 1 .. g /\ o \in 1 .. g + lp /\ o <= g /\ ~ (o <= lr)
          /\ o - lr \in 1 .. lq /\ z + (o - lr) = m
      BY <1>1, <1>2, <1>4, <1>14, <2>3
    <3>2. u[x] = t[m]
      BY <1>17, <2>3, <3>1
    <3>3. v[x] = k[o]
      BY <1>18, <3>1
    <3> HIDE DEF m, o
    <3>4. t[m] = s[m]
      BY <1>16, <3>1
    <3>5. k[o] = rq[o]
      BY <1>20, <3>1
    <3>6. rq[o] = q[o - lr]
      BY <1>19, <3>1
    <3>7. q[o - lr] = s[m]
      BY <1>3, <3>1 DEF lq
    <3> QED
      BY <3>2, <3>3, <3>4, <3>5, <3>6, <3>7
  <2>4. CASE ~ (x <= a + g) /\ x <= y
    <3> DEFINE m == x - (a + lr) + z
               o == x - a
    <3>1. /\ m \in 1 .. lt /\ ~ (m <= b) /\ m <= b + lp /\ ~ (x <= a)
          /\ ~ (x <= a + lr) /\ o \in 1 .. g + lp /\ ~ (o <= g) /\ o - g = m - b
      BY <1>1, <1>2, <1>4, <1>14, <2>4
    <3>2. u[x] = t[m]
      BY <1>17, <3>1
    <3>3. v[x] = k[o]
      BY <1>18, <2>4, <3>1
    <3> HIDE DEF m, o
    <3>4. t[m] = p[m - b]
      BY <1>16, <3>1
    <3>5. k[o] = p[o - g]
      BY <1>20, <3>1
    <3> QED
      BY <3>1, <3>2, <3>3, <3>4, <3>5
  <2>5. CASE ~ (x <= y)
    <3> DEFINE m == x - (a + lr) + z
    <3>1. /\ m \in 1 .. lt /\ ~ (m <= b) /\ ~ (m <= b + lp) /\ ~ (x <= a)
          /\ ~ (x <= a + lr) /\ m - (b + lp) + y = x /\ x - y + y = x
      BY <1>1, <1>2, <1>4, <1>14, <2>5
    <3>2. u[x] = t[m]
      BY <1>17, <3>1
    <3>3. v[x] = s[x]
      BY <1>18, <2>5, <3>1
    <3> HIDE DEF m
    <3>4. t[m] = s[m - (b + lp) + y]
      BY <1>16, <3>1
    <3> QED
      BY <3>1, <3>2, <3>3, <3>4
  <2> QED
    BY <1>1, <1>2, <1>4, <2>1, <2>2, <2>3, <2>4, <2>5
<1>23. u = v
  BY <1>10, <1>12, <1>21, <1>22, SeqEqual
<1> QED
  BY <1>23 DEF u, v, t, k, rq, z, b, y, lp, lq, lr

\* All of a vector replaced.
LEMMA SpliceAll ==
  ASSUME NEW S, NEW s \in Seq(S), NEW q \in Seq(S)
  PROVE  Splice(s, 0, Len(s), q) = q
<1> DEFINE l == SubSeq(s, 1, 0)
           n == Len(s)
           r == SubSeq(s, n + 1, n)
<1>1. n \in Nat
  BY LenProperties
<1>2. l = <<>>
  BY SubSeqEmpty
<1>3. r = <<>>
  <2> HIDE DEF n
  <2>1. n + 1 \in Int /\ n \in Int /\ n + 1 > n
    BY <1>1
  <2> QED
    BY <2>1, SubSeqEmpty
<1>4. Splice(s, 0, n, q) = l \o q \o r
  BY DEF Splice
<1> HIDE DEF l, r
<1>5. <<>> \o q = q /\ q \o <<>> = q
  BY ConcatEmptySeq
<1> QED
  BY <1>2, <1>3, <1>4, <1>5

(***************************************************************************)
(* Bytes and images.                                                       *)
(***************************************************************************)
\* A function on the first n positions is a sequence of length n.
LEMMA SeqOfFunction ==
  ASSUME NEW n \in Nat, NEW S, NEW f \in [1 .. n -> S]
  PROVE  f \in Seq(S) /\ Len(f) = n
<1>1. f \in Seq(S)
  BY SeqDef
<1>2. Len(f) \in Nat /\ 1 .. Len(f) = 1 .. n
  BY <1>1, LenProperties
<1> QED
  BY <1>1, <1>2

\* The bytes of so many images.
LEMMA FlatType ==
  ASSUME NEW d \in Seq(Image)
  PROVE  Flat(d) \in Seq(Byte) /\ Len(Flat(d)) = BlockSize * Len(d)
<1>1. /\ BlockSize \in Nat \ {0} /\ Len(d) \in Nat /\ BlockSize * Len(d) \in Nat
      /\ \A n \in 1 .. Len(d) : d[n] \in Image
  <2>1. BlockSize \in Nat \ {0} /\ Len(d) \in Nat
    BY GeometryAssumption, LenProperties
  <2> QED
    BY <2>1, ElementOfSeq, SMT
<1> DEFINE m == Len(d)
<1>2. ASSUME NEW p \in 1 .. BlockSize * m
      PROVE  d[(p - 1) \div BlockSize + 1][((p - 1) % BlockSize) + 1] \in Byte
  <2> DEFINE q == (p - 1) \div BlockSize
             r == (p - 1) % BlockSize
  <2>0. p - 1 \in Nat
    BY <1>1
  <2>1. q \in Nat /\ r \in 0 .. BlockSize - 1 /\ BlockSize * q <= p - 1
    BY <1>1, <2>0, QuotientBounds
  <2> HIDE DEF q, r, m
  <2>2. ~ (m <= q)
    <3>1. ASSUME m <= q PROVE BlockSize * m <= BlockSize * q
      BY <1>1, <2>1, <3>1, ScaledOrder DEF m
    <3>2. BlockSize * q \in Int /\ BlockSize * m \in Int
      BY <1>1, <2>1, SMT DEF m
    <3> QED
      BY <2>1, <3>1, <3>2
  <2>3. q + 1 \in 1 .. m /\ r + 1 \in 1 .. BlockSize
    BY <1>1, <2>1, <2>2 DEF m
  <2>4. d[q + 1] \in [1 .. BlockSize -> Byte]
    BY <1>1, <2>3 DEF Image, m
  <2>5. d[q + 1][r + 1] \in Byte
    BY <2>3, <2>4
  <2> QED
    BY <2>5 DEF q, r
<1>3. Flat(d) \in [1 .. BlockSize * m -> Byte]
  BY <1>2 DEF Flat
<1> QED
  BY <1>1, <1>3, SeqOfFunction

\* Bytes cut into images: as many as there are whole blocks.
LEMMA ChunksType ==
  ASSUME NEW bytes \in Seq(Byte)
  PROVE  /\ Chunks(bytes) \in Seq(Image)
         /\ \A m \in Nat : Len(bytes) = BlockSize * m => Len(Chunks(bytes)) = m
<1> DEFINE c == Len(bytes) \div BlockSize
<1>1. BlockSize \in Nat \ {0} /\ Len(bytes) \in Nat /\ c \in Nat /\ BlockSize * c <= Len(bytes)
  BY GeometryAssumption, LenProperties, QuotientBounds
<1>2. ASSUME NEW n \in 1 .. c
      PROVE  SubSeq(bytes, BlockSize * (n - 1) + 1, BlockSize * n) \in Image
  <2> DEFINE lo == BlockSize * (n - 1)
             hi == BlockSize * n
  <2>1. lo \in Int /\ hi \in Int /\ hi = lo + BlockSize /\ 0 <= lo
    BY <1>1, SMT
  <2>2. hi <= Len(bytes)
    <3>1. n \in Int /\ n <= c /\ BlockSize * c \in Int
      BY <1>1, SMT
    <3>2. BlockSize * n <= BlockSize * c
      BY <1>1, <3>1, ScaledOrder
    <3> QED
      BY <1>1, <2>1, <3>1, <3>2
  <2> HIDE DEF lo, hi
  <2>3. \A x \in lo + 1 .. hi : bytes[x] \in Byte
    BY <1>1, <2>1, <2>2, ElementOfSeq
  <2>4. /\ SubSeq(bytes, lo + 1, hi) \in Seq(Byte)
        /\ Len(SubSeq(bytes, lo + 1, hi)) = BlockSize
    <3>1. lo + 1 \in Int /\ lo + 1 <= hi /\ hi - (lo + 1) + 1 = BlockSize
      BY <1>1, <2>1
    <3> QED
      BY <2>1, <2>3, <3>1, SubSeqProperties
  <2>5. SubSeq(bytes, lo + 1, hi) \in [1 .. BlockSize -> Byte]
    BY <2>4, LenProperties
  <2> QED
    BY <2>5 DEF Image, lo, hi
<1>3. Chunks(bytes) \in [1 .. c -> Image]
  BY <1>2 DEF Chunks
<1>4. Chunks(bytes) \in Seq(Image) /\ Len(Chunks(bytes)) = c
  BY <1>1, <1>3, SeqOfFunction
<1>5. ASSUME NEW m \in Nat, Len(bytes) = BlockSize * m PROVE c = m
  <2>1. BlockSize * m <= Len(bytes) /\ Len(bytes) < BlockSize * m + BlockSize
    BY <1>1, <1>5
  <2> QED
    BY <1>1, <2>1, QuotientUnique
<1> QED
  BY <1>4, <1>5

\* Zero bytes, and bytes of which the last are cleared.
LEMMA ZerosType ==
  ASSUME NEW n \in Nat
  PROVE  Zeros(n) \in Seq(Byte) /\ Len(Zeros(n)) = n
<1>1. Zeros(n) \in [1 .. n -> Byte]
  BY ByteAssumption DEF Zeros
<1> QED
  BY <1>1, SeqOfFunction

\* Zeroing a tail keeps the length.
LEMMA ZeroTailType ==
  ASSUME NEW bytes \in Seq(Byte), NEW n \in Nat
  PROVE  ZeroTail(bytes, n) \in Seq(Byte) /\ Len(ZeroTail(bytes, n)) = Len(bytes)
<1>1. Len(bytes) \in Nat /\ DOMAIN bytes = 1 .. Len(bytes)
      /\ \A p \in 1 .. Len(bytes) : bytes[p] \in Byte
  BY LenProperties
<1>2. ZeroTail(bytes, n) \in [1 .. Len(bytes) -> Byte]
  BY <1>1, ByteAssumption DEF ZeroTail
<1> QED
  BY <1>1, <1>2, SeqOfFunction

\* Writing images into the blocks of a vector leaves the other blocks alone.
LEMMA StoredType ==
  ASSUME data \in [Block -> Image], NEW s \in Seq(Block), NEW d \in Seq(Image), Len(s) <= Len(d)
  PROVE  /\ Stored(s, d) \in [Block -> Image]
         /\ \A b \in Block : b \notin Range(s) => Stored(s, d)[b] = data[b]
<1> DEFINE at(b) == CHOOSE n \in DOMAIN s : s[n] = b
<1>1. /\ Len(s) \in Nat /\ Len(d) \in Nat /\ DOMAIN s = 1 .. Len(s)
      /\ \A n \in 1 .. Len(d) : d[n] \in Image
  BY LenProperties, ElementOfSeq
<1>2. ASSUME NEW b \in Range(s) PROVE d[at(b)] \in Image
  <2>1. \E n \in DOMAIN s : s[n] = b
    BY DEF Range
  <2>2. at(b) \in DOMAIN s
    BY <2>1
  <2> HIDE DEF at
  <2>3. at(b) \in 1 .. Len(d)
    BY <1>1, <2>2
  <2> QED
    BY <1>1, <2>3
<1>3. Stored(s, d) = [b \in Block |-> IF b \in Range(s) THEN d[at(b)] ELSE data[b]]
  BY DEF Stored
<1> HIDE DEF at
<1> QED
  BY <1>2, <1>3

(***************************************************************************)
(* Images and their bytes.                                                 *)
(***************************************************************************)
\* Byte y of block x, counted from zero, has an index of its own.
LEMMA ByteIndex ==
  ASSUME NEW n \in Nat
  PROVE  /\ \A x \in 0 .. n - 1, y \in 0 .. BlockSize - 1 :
              BlockSize * x + y + 1 \in 1 .. BlockSize * n /\ BlockSize * x \in Nat
         /\ \A p \in 1 .. BlockSize * n :
              \E x \in 0 .. n - 1, y \in 0 .. BlockSize - 1 : p = BlockSize * x + y + 1
         /\ BlockSize * n \in Nat
<1>0. BlockSize \in Nat \ {0} /\ BlockSize * n \in Nat
  BY GeometryAssumption, SMT
<1>1. ASSUME NEW x \in 0 .. n - 1, NEW y \in 0 .. BlockSize - 1
      PROVE  BlockSize * x + y + 1 \in 1 .. BlockSize * n /\ BlockSize * x \in Nat
  <2>1. BlockSize * x \in Nat /\ BlockSize * (x + 1) = BlockSize * x + BlockSize
    BY <1>0, SMT
  <2>2. BlockSize * (x + 1) <= BlockSize * n
    BY <1>0, ScaledOrder
  <2> QED
    BY <1>0, <2>1, <2>2
<1>2. ASSUME NEW p \in 1 .. BlockSize * n
      PROVE  \E x \in 0 .. n - 1, y \in 0 .. BlockSize - 1 : p = BlockSize * x + y + 1
  <2> DEFINE x == (p - 1) \div BlockSize
             y == (p - 1) % BlockSize
  <2>0. p - 1 \in Nat
    BY <1>0
  <2>1. x \in Nat /\ y \in 0 .. BlockSize - 1 /\ BlockSize * x <= p - 1 /\ p - 1 = BlockSize * x + y
    BY <1>0, <2>0, QuotientBounds
  <2> HIDE DEF x, y
  <2>2. BlockSize * x \in Nat
    BY <1>0, <2>1, SMT
  <2>3. ~ (n <= x)
    <3>1. ASSUME n <= x PROVE BlockSize * n <= BlockSize * x
      BY <1>0, <2>1, <3>1, ScaledOrder
    <3> QED
      BY <1>0, <2>0, <2>1, <2>2, <3>1
  <2>4. x \in 0 .. n - 1 /\ p = BlockSize * x + y + 1
    BY <1>0, <2>0, <2>1, <2>2, <2>3
  <2> QED
    BY <2>1, <2>4
<1> QED
  BY <1>0, <1>1, <1>2

\* Byte y of block x of a sequence of images.
LEMMA FlatAt ==
  ASSUME NEW d \in Seq(Image), NEW x \in 0 .. Len(d) - 1, NEW y \in 0 .. BlockSize - 1
  PROVE  Flat(d)[BlockSize * x + y + 1] = d[x + 1][y + 1]
<1> DEFINE p == BlockSize * x + y + 1
<1>0. BlockSize \in Nat \ {0} /\ Len(d) \in Nat
  BY GeometryAssumption, LenProperties
<1>1. p \in 1 .. BlockSize * Len(d) /\ BlockSize * x \in Nat
  BY <1>0, ByteIndex
<1>2. p - 1 \in Nat /\ p - 1 = BlockSize * x + y /\ BlockSize * x <= p - 1 /\ p - 1 < BlockSize * x + BlockSize
  BY <1>0, <1>1
<1> HIDE DEF p
<1>3. (p - 1) \div BlockSize = x
  BY <1>0, <1>2, QuotientUnique
<1>4. (p - 1) % BlockSize = y
  <2>1. p - 1 = BlockSize * ((p - 1) \div BlockSize) + ((p - 1) % BlockSize) /\ (p - 1) % BlockSize \in 0 .. BlockSize - 1
    BY <1>0, <1>2, QuotientBounds
  <2>2. p - 1 = BlockSize * x + ((p - 1) % BlockSize)
    BY <1>3, <2>1
  <2> QED
    BY <1>1, <1>2, <2>1, <2>2
<1>5. Flat(d)[p] = d[(p - 1) \div BlockSize + 1][((p - 1) % BlockSize) + 1]
  BY <1>1 DEF Flat
<1> QED
  BY <1>3, <1>4, <1>5 DEF p

\* Bytes are those of a sequence of images if they agree byte by byte.
LEMMA FlatEqual ==
  ASSUME NEW d \in Seq(Image), NEW u \in Seq(Byte), Len(u) = BlockSize * Len(d),
         \A x \in 0 .. Len(d) - 1, y \in 0 .. BlockSize - 1 :
            u[BlockSize * x + y + 1] = d[x + 1][y + 1]
  PROVE  Flat(d) = u
<1>1. Flat(d) \in Seq(Byte) /\ Len(Flat(d)) = BlockSize * Len(d) /\ Len(d) \in Nat
  BY FlatType, LenProperties
<1>2. ASSUME NEW p \in 1 .. BlockSize * Len(d) PROVE Flat(d)[p] = u[p]
  <2>1. PICK x \in 0 .. Len(d) - 1, y \in 0 .. BlockSize - 1 : p = BlockSize * x + y + 1
    BY <1>1, ByteIndex
  <2>2. Flat(d)[BlockSize * x + y + 1] = d[x + 1][y + 1]
    BY FlatAt
  <2> QED
    BY <2>1, <2>2
<1> QED
  BY <1>1, <1>2, SeqEqual

\* One sequence of images after another.
LEMMA FlatConcat ==
  ASSUME NEW s \in Seq(Image), NEW t \in Seq(Image)
  PROVE  Flat(s \o t) = Flat(s) \o Flat(t)
<1> DEFINE m == Len(s)
           n == Len(t)
           d == s \o t
           v == Flat(s)
           w == Flat(t)
           u == v \o w
<1>0. BlockSize \in Nat \ {0} /\ m \in Nat /\ n \in Nat
  BY GeometryAssumption, LenProperties
<1>1. /\ v \in Seq(Byte) /\ Len(v) = BlockSize * m
      /\ w \in Seq(Byte) /\ Len(w) = BlockSize * n
  BY FlatType
<1>2. d \in Seq(Image) /\ Len(d) = m + n
      /\ \A x \in 1 .. m + n : d[x] = IF x <= m THEN s[x] ELSE t[x - m]
  BY ConcatProperties
<1>3. u \in Seq(Byte) /\ Len(u) = Len(v) + Len(w)
      /\ \A p \in 1 .. Len(v) + Len(w) : u[p] = IF p <= Len(v) THEN v[p] ELSE w[p - Len(v)]
  <2> HIDE DEF v, w
  <2> QED
    BY <1>1, ConcatProperties
<1>4. BlockSize * m \in Nat /\ BlockSize * n \in Nat /\ BlockSize * (m + n) = BlockSize * m + BlockSize * n
  BY <1>0, SMT
<1>5. \A x \in 0 .. m - 1, y \in 0 .. BlockSize - 1 : v[BlockSize * x + y + 1] = s[x + 1][y + 1]
  BY FlatAt
<1>6. \A x \in 0 .. n - 1, y \in 0 .. BlockSize - 1 : w[BlockSize * x + y + 1] = t[x + 1][y + 1]
  BY FlatAt
<1> HIDE DEF m, n, d, v, w, u
<1>7. ASSUME NEW x \in 0 .. (m + n) - 1, NEW y \in 0 .. BlockSize - 1
      PROVE  u[BlockSize * x + y + 1] = d[x + 1][y + 1]
  <2> DEFINE p == BlockSize * x + y + 1
  <2>1. p \in 1 .. BlockSize * (m + n)
    BY <1>0, ByteIndex
  <2>2. u[p] = IF p <= BlockSize * m THEN v[p] ELSE w[p - BlockSize * m]
    <3> HIDE DEF p
    <3>1. p \in 1 .. Len(v) + Len(w)
      BY <1>1, <1>4, <2>1
    <3> QED
      BY <1>1, <1>3, <3>1
  <2>3. d[x + 1] = IF x + 1 <= m THEN s[x + 1] ELSE t[x + 1 - m]
    BY <1>0, <1>2
  <2>4. CASE x + 1 <= m
    <3>1. x \in 0 .. m - 1
      BY <1>0, <2>4
    <3>2. p \in 1 .. BlockSize * m
      BY <1>0, <3>1, ByteIndex
    <3>3. v[p] = s[x + 1][y + 1]
      BY <1>5, <3>1
    <3> HIDE DEF p
    <3>4. u[p] = v[p]
      BY <1>4, <2>2, <3>2
    <3> QED
      BY <2>3, <2>4, <3>3, <3>4 DEF p
  <2>5. CASE ~ (x + 1 <= m)
    <3> DEFINE k == x - m
    <3>1. k \in 0 .. n - 1 /\ x = k + m
      BY <1>0, <2>5
    <3> HIDE DEF k
    <3>2. BlockSize * x = BlockSize * k + BlockSize * m /\ BlockSize * k \in Nat
      BY <1>0, <3>1, SMT
    <3>3. p - BlockSize * m = BlockSize * k + y + 1 /\ ~ (p <= BlockSize * m)
      BY <1>0, <1>4, <3>2
    <3>4. w[BlockSize * k + y + 1] = t[k + 1][y + 1]
      BY <1>6, <3>1
    <3>5. k + 1 = x + 1 - m
      BY <1>0, <3>1
    <3> HIDE DEF p
    <3>6. u[p] = w[BlockSize * k + y + 1]
      BY <2>2, <3>3
    <3> QED
      BY <2>3, <2>5, <3>4, <3>5, <3>6 DEF p
  <2> QED
    BY <2>4, <2>5
<1>8. Flat(d) = u
  <2>1. Len(u) = BlockSize * Len(d)
    BY <1>1, <1>2, <1>3, <1>4
  <2>2. \A x \in 0 .. Len(d) - 1, y \in 0 .. BlockSize - 1 : u[BlockSize * x + y + 1] = d[x + 1][y + 1]
    BY <1>2, <1>7
  <2> QED
    BY <1>2, <1>3, <2>1, <2>2, FlatEqual
<1> QED
  BY <1>8 DEF d, u, v, w

\* A range of images.
LEMMA FlatRange ==
  ASSUME NEW s \in Seq(Image), NEW a \in Nat, NEW z \in Nat, a <= z, z <= Len(s)
  PROVE  /\ Flat(SubSeq(s, a + 1, z)) = SubSeq(Flat(s), BlockSize * a + 1, BlockSize * z)
         /\ BlockSize * a \in Nat /\ BlockSize * z \in Nat /\ BlockSize * a <= BlockSize * z
         /\ BlockSize * z <= Len(Flat(s))
<1> DEFINE d == SubSeq(s, a + 1, z)
           v == Flat(s)
           lo == BlockSize * a
           hi == BlockSize * z
           u == SubSeq(v, lo + 1, hi)
<1>0. BlockSize \in Nat \ {0} /\ Len(s) \in Nat
  BY GeometryAssumption, LenProperties
<1>1. v \in Seq(Byte) /\ Len(v) = BlockSize * Len(s) /\ BlockSize * Len(s) \in Nat
  BY <1>0, FlatType, SMT
<1>2. lo \in Nat /\ hi \in Nat /\ hi - lo = BlockSize * (z - a) /\ hi <= Len(v) /\ lo <= hi
  <2>1. lo \in Nat /\ hi \in Nat /\ hi - lo = BlockSize * (z - a)
    BY <1>0, SMT
  <2>2. BlockSize * z <= BlockSize * Len(s)
    BY <1>0, ScaledOrder
  <2>3. BlockSize * a <= BlockSize * z
    BY <1>0, ScaledOrder
  <2> QED
    BY <1>1, <2>1, <2>2, <2>3
<1>3. d \in Seq(Image) /\ Len(d) = z - a
  BY CutInThree
<1>4. \A x \in 1 .. z - a : d[x] = s[a + x]
  <2>1. \A x \in a + 1 .. z : s[x] \in Image
    BY <1>0, ElementOfSeq
  <2>2. \A x \in 1 .. z - (a + 1) + 1 : d[x] = s[(a + 1) + x - 1]
    BY <2>1, SubSeqProperties
  <2> QED
    BY <2>2
<1> HIDE DEF v, lo, hi
<1>5. u \in Seq(Byte) /\ Len(u) = hi - lo
  BY <1>1, <1>2, CutInThree
<1>6. \A p \in 1 .. hi - lo : u[p] = v[lo + p]
  <2>1. \A p \in lo + 1 .. hi : v[p] \in Byte
    BY <1>1, <1>2, ElementOfSeq
  <2>2. \A p \in 1 .. hi - (lo + 1) + 1 : u[p] = v[(lo + 1) + p - 1]
    BY <1>2, <2>1, SubSeqProperties
  <2> QED
    BY <1>2, <2>2
<1> HIDE DEF d, u
<1>7. ASSUME NEW x \in 0 .. (z - a) - 1, NEW y \in 0 .. BlockSize - 1
      PROVE  u[BlockSize * x + y + 1] = d[x + 1][y + 1]
  <2> DEFINE p == BlockSize * x + y + 1
  <2>1. p \in 1 .. BlockSize * (z - a) /\ BlockSize * x \in Nat
    <3>1. z - a \in Nat
      OBVIOUS
    <3> QED
      BY <3>1, ByteIndex
  <2>2. u[p] = v[lo + p]
    BY <1>2, <1>6, <2>1
  <2>3. lo + p = BlockSize * (a + x) + y + 1
    <3>1. BlockSize * (a + x) = BlockSize * a + BlockSize * x
      BY <1>0, SMT
    <3> QED
      BY <1>0, <1>2, <2>1, <3>1 DEF lo
  <2>4. a + x \in 0 .. Len(s) - 1
    BY <1>0
  <2>5. v[BlockSize * (a + x) + y + 1] = s[(a + x) + 1][y + 1]
    BY <2>4, FlatAt DEF v
  <2>6. d[x + 1] = s[(a + x) + 1]
    <3>1. x + 1 \in 1 .. z - a /\ a + (x + 1) = (a + x) + 1
      OBVIOUS
    <3> QED
      BY <1>4, <3>1
  <2> HIDE DEF p
  <2>7. u[p] = d[x + 1][y + 1]
    BY <2>2, <2>3, <2>5, <2>6
  <2> QED
    BY <2>7 DEF p
<1>8. Flat(d) = u
  <2>1. Len(u) = BlockSize * Len(d)
    BY <1>2, <1>3, <1>5
  <2> QED
    BY <1>3, <1>5, <1>7, <2>1, FlatEqual
<1> QED
  BY <1>2, <1>8 DEF d, u, v, lo, hi

\* Bytes that fill whole blocks are those of the images they are cut into.
LEMMA FlatChunks ==
  ASSUME NEW u \in Seq(Byte), NEW n \in Nat, Len(u) = BlockSize * n
  PROVE  Flat(Chunks(u)) = u
<1> DEFINE d == Chunks(u)
<1>0. BlockSize \in Nat \ {0} /\ BlockSize * n \in Nat
  BY GeometryAssumption, SMT
<1>1. d \in Seq(Image) /\ Len(d) = n
  BY ChunksType
<1>2. Len(u) \div BlockSize = n
  BY <1>0, QuotientUnique
<1>3. \A x \in 1 .. n : d[x] = SubSeq(u, BlockSize * (x - 1) + 1, BlockSize * x)
  BY <1>2 DEF Chunks
<1>4. ASSUME NEW x \in 0 .. n - 1, NEW y \in 0 .. BlockSize - 1
      PROVE  u[BlockSize * x + y + 1] = d[x + 1][y + 1]
  <2> DEFINE lo == BlockSize * x
             hi == BlockSize * (x + 1)
             t == SubSeq(u, lo + 1, hi)
  <2>1. lo \in Nat /\ hi = lo + BlockSize
    BY <1>0, SMT
  <2>2. hi <= Len(u)
    <3>1. BlockSize * (x + 1) <= BlockSize * n
      BY <1>0, ScaledOrder
    <3> QED
      BY <3>1
  <2>3. d[x + 1] = t
    <3>1. x + 1 \in 1 .. n /\ (x + 1) - 1 = x
      OBVIOUS
    <3> QED
      BY <1>3, <3>1
  <2> HIDE DEF lo, hi
  <2>4. \A p \in lo + 1 .. hi : u[p] \in Byte
    BY <1>0, <2>1, <2>2, ElementOfSeq
  <2>5. \A p \in 1 .. hi - (lo + 1) + 1 : t[p] = u[(lo + 1) + p - 1]
    <3>1. lo + 1 \in Int /\ hi \in Int
      BY <1>0, <2>1
    <3> QED
      BY <2>4, <3>1, SubSeqProperties
  <2>6. y + 1 \in 1 .. hi - (lo + 1) + 1 /\ (lo + 1) + (y + 1) - 1 = lo + y + 1
    BY <1>0, <2>1
  <2> HIDE DEF t
  <2>7. t[y + 1] = u[lo + y + 1]
    BY <2>5, <2>6
  <2>8. d[x + 1][y + 1] = u[lo + y + 1]
    BY <2>3, <2>7
  <2> QED
    BY <2>8 DEF lo
<1> HIDE DEF d
<1> QED
  BY <1>1, <1>4, FlatEqual DEF d

\* A range of a sequence of images replaced: the same range of bytes is.
LEMMA FlatSplice ==
  ASSUME NEW d \in Seq(Image), NEW a \in Nat, NEW z \in Nat, a <= z, z <= Len(d),
         NEW e \in Seq(Image)
  PROVE  Flat(Splice(d, a, z, e)) = Splice(Flat(d), BlockSize * a, BlockSize * z, Flat(e))
<1> DEFINE l == SubSeq(d, 1, a)
           r == SubSeq(d, z + 1, Len(d))
           w == l \o e
           v == Flat(d)
           lo == BlockSize * a
           hi == BlockSize * z
<1>1. l \in Seq(Image) /\ r \in Seq(Image) /\ Len(d) \in Nat
  BY CutInThree, LenProperties
<1>2. Splice(d, a, z, e) = w \o r
  BY DEF Splice
<1>3. Flat(l) = SubSeq(v, 1, lo)
  <2> DEFINE o == 0
  <2>1. o \in Nat /\ o <= a /\ a <= Len(d) /\ o + 1 = 1 /\ BlockSize * o + 1 = 1
    BY <1>1, GeometryAssumption, SMT
  <2>2. l = SubSeq(d, o + 1, a)
    BY <2>1
  <2> HIDE DEF o, l
  <2>3. Flat(SubSeq(d, o + 1, a)) = SubSeq(v, BlockSize * o + 1, lo)
    BY <2>1, FlatRange
  <2> QED
    BY <2>1, <2>2, <2>3
<1>4. Flat(r) = SubSeq(v, hi + 1, Len(v))
  <2> DEFINE n == Len(d)
  <2>1. n \in Nat /\ n <= n /\ z <= n
    BY <1>1
  <2>2. Flat(SubSeq(d, z + 1, n)) = SubSeq(v, hi + 1, BlockSize * n)
    BY <2>1, FlatRange
  <2>3. Len(v) = BlockSize * n
    BY FlatType
  <2> QED
    BY <2>2, <2>3
<1> HIDE DEF l, r
<1>5. w \in Seq(Image)
  BY <1>1, ConcatProperties
<1>6. Flat(w) = Flat(l) \o Flat(e)
  BY <1>1, FlatConcat
<1> HIDE DEF w
<1>7. Flat(w \o r) = Flat(w) \o Flat(r)
  BY <1>1, <1>5, FlatConcat
<1>8. Splice(v, lo, hi, Flat(e)) = SubSeq(v, 1, lo) \o Flat(e) \o SubSeq(v, hi + 1, Len(v))
  BY DEF Splice
<1> HIDE DEF v, lo, hi
<1>9. Flat(Splice(d, a, z, e)) = Splice(v, lo, hi, Flat(e))
  BY <1>2, <1>3, <1>4, <1>6, <1>7, <1>8
<1> QED
  BY <1>9 DEF v, lo, hi

(***************************************************************************)
(* The images of a vector of blocks, as the data blocks D have them.       *)
(***************************************************************************)
ImagesIn(D, s) == [n \in DOMAIN s |-> D[s[n]]]

\* As many images as blocks, each the image of its block.
LEMMA ImagesInType ==
  ASSUME NEW D \in [Block -> Image], NEW s \in Seq(Block)
  PROVE  /\ ImagesIn(D, s) \in Seq(Image) /\ Len(ImagesIn(D, s)) = Len(s)
         /\ \A x \in 1 .. Len(s) : ImagesIn(D, s)[x] = D[s[x]]
<1>1. Len(s) \in Nat /\ DOMAIN s = 1 .. Len(s) /\ \A n \in 1 .. Len(s) : s[n] \in Block
  BY LenProperties
<1>2. ImagesIn(D, s) \in [1 .. Len(s) -> Image]
  BY <1>1 DEF ImagesIn
<1>3. \A x \in 1 .. Len(s) : ImagesIn(D, s)[x] = D[s[x]]
  BY <1>1 DEF ImagesIn
<1> QED
  BY <1>1, <1>2, <1>3, SeqOfFunction

\* One vector after another.
LEMMA ImagesConcat ==
  ASSUME NEW D \in [Block -> Image], NEW s \in Seq(Block), NEW t \in Seq(Block)
  PROVE  ImagesIn(D, s \o t) = ImagesIn(D, s) \o ImagesIn(D, t)
<1> DEFINE m == Len(s)
           n == Len(t)
           u == s \o t
           v == ImagesIn(D, s)
           w == ImagesIn(D, t)
           x == ImagesIn(D, u)
           y == v \o w
<1>1. m \in Nat /\ n \in Nat
  BY LenProperties
<1>2. u \in Seq(Block) /\ Len(u) = m + n
      /\ \A k \in 1 .. m + n : u[k] = IF k <= m THEN s[k] ELSE t[k - m]
  BY ConcatProperties
<1>3. v \in Seq(Image) /\ Len(v) = m /\ \A k \in 1 .. m : v[k] = D[s[k]]
  BY ImagesInType
<1>4. w \in Seq(Image) /\ Len(w) = n /\ \A k \in 1 .. n : w[k] = D[t[k]]
  BY ImagesInType
<1> HIDE DEF u, v, w
<1>5. x \in Seq(Image) /\ Len(x) = Len(u) /\ \A k \in 1 .. Len(u) : x[k] = D[u[k]]
  BY <1>2, ImagesInType
<1>6. y \in Seq(Image) /\ Len(y) = Len(v) + Len(w)
      /\ \A k \in 1 .. Len(v) + Len(w) : y[k] = IF k <= Len(v) THEN v[k] ELSE w[k - Len(v)]
  <2>1. v \in Seq(Image) /\ w \in Seq(Image)
    BY <1>3, <1>4
  <2> QED
    BY <2>1, ConcatProperties
<1> HIDE DEF x, y, m, n
<1>7. ASSUME NEW k \in 1 .. m + n PROVE x[k] = y[k]
  <2>1. x[k] = D[u[k]]
    BY <1>2, <1>5
  <2>2. y[k] = IF k <= m THEN v[k] ELSE w[k - m]
    BY <1>3, <1>4, <1>6
  <2>3. CASE k <= m
    BY <1>1, <1>2, <1>3, <2>1, <2>2, <2>3
  <2>4. CASE ~ (k <= m)
    <3>1. k - m \in 1 .. n
      BY <1>1, <2>4
    <3> QED
      BY <1>2, <1>4, <2>1, <2>2, <2>4, <3>1
  <2> QED
    BY <2>3, <2>4
<1>8. Len(x) = m + n /\ Len(y) = m + n
  BY <1>2, <1>3, <1>4, <1>5, <1>6
<1>9. x = y
  BY <1>5, <1>6, <1>7, <1>8, SeqEqual
<1> QED
  BY <1>9 DEF x, y, u, v, w

\* A range of a vector.
LEMMA ImagesRange ==
  ASSUME NEW D \in [Block -> Image], NEW s \in Seq(Block), NEW a \in Nat, NEW z \in Nat,
         a <= z, z <= Len(s)
  PROVE  ImagesIn(D, SubSeq(s, a + 1, z)) = SubSeq(ImagesIn(D, s), a + 1, z)
<1> DEFINE t == SubSeq(s, a + 1, z)
           v == ImagesIn(D, s)
           x == ImagesIn(D, t)
           y == SubSeq(v, a + 1, z)
<1>1. Len(s) \in Nat /\ t \in Seq(Block) /\ Len(t) = z - a
  BY CutInThree, LenProperties
<1>2. v \in Seq(Image) /\ Len(v) = Len(s) /\ \A k \in 1 .. Len(s) : v[k] = D[s[k]]
  BY ImagesInType
<1>3. \A k \in 1 .. z - a : t[k] = s[a + k]
  <2>1. \A k \in a + 1 .. z : s[k] \in Block
    BY <1>1, ElementOfSeq
  <2>2. \A k \in 1 .. z - (a + 1) + 1 : t[k] = s[(a + 1) + k - 1]
    BY <2>1, SubSeqProperties
  <2> QED
    BY <2>2
<1> HIDE DEF t, v
<1>4. y \in Seq(Image) /\ Len(y) = z - a
  BY <1>1, <1>2, CutInThree
<1>5. \A k \in 1 .. z - a : y[k] = v[a + k]
  <2>1. \A k \in a + 1 .. z : v[k] \in Image
    BY <1>1, <1>2, ElementOfSeq
  <2>2. \A k \in 1 .. z - (a + 1) + 1 : y[k] = v[(a + 1) + k - 1]
    BY <2>1, SubSeqProperties
  <2> QED
    BY <2>2
<1>6. x \in Seq(Image) /\ Len(x) = Len(t) /\ \A k \in 1 .. Len(t) : x[k] = D[t[k]]
  BY <1>1, ImagesInType
<1> HIDE DEF x, y
<1>7. ASSUME NEW k \in 1 .. z - a PROVE x[k] = y[k]
  <2>1. a + k \in 1 .. Len(s)
    BY <1>1
  <2>2. x[k] = D[t[k]] /\ t[k] = s[a + k] /\ y[k] = v[a + k]
    BY <1>1, <1>3, <1>5, <1>6
  <2> QED
    BY <1>2, <2>1, <2>2
<1>8. x = y
  BY <1>1, <1>4, <1>6, <1>7, SeqEqual
<1> QED
  BY <1>8 DEF x, y, t, v

\* A range of a vector replaced: the same range of the bytes is.
LEMMA SplicedBytes ==
  ASSUME NEW D \in [Block -> Image], NEW s \in Seq(Block), NEW a \in Nat, NEW z \in Nat,
         a <= z, z <= Len(s), NEW new \in Seq(Block)
  PROVE  Flat(ImagesIn(D, Splice(s, a, z, new))) =
           Splice(Flat(ImagesIn(D, s)), BlockSize * a, BlockSize * z, Flat(ImagesIn(D, new)))
<1> DEFINE l == SubSeq(s, 1, a)
           r == SubSeq(s, z + 1, Len(s))
           w == l \o new
           v == ImagesIn(D, s)
           e == ImagesIn(D, new)
<1>1. l \in Seq(Block) /\ r \in Seq(Block) /\ Len(s) \in Nat
  BY CutInThree, LenProperties
<1>2. Splice(s, a, z, new) = w \o r
  BY DEF Splice
<1>3. v \in Seq(Image) /\ Len(v) = Len(s) /\ e \in Seq(Image)
  BY ImagesInType
<1>4. ImagesIn(D, l) = SubSeq(v, 1, a)
  <2> DEFINE o == 0
  <2>1. o \in Nat /\ o <= a /\ a <= Len(s) /\ o + 1 = 1
    BY <1>1
  <2>2. l = SubSeq(s, o + 1, a)
    BY <2>1
  <2> HIDE DEF o, l
  <2>3. ImagesIn(D, SubSeq(s, o + 1, a)) = SubSeq(v, o + 1, a)
    BY <2>1, ImagesRange
  <2> QED
    BY <2>1, <2>2, <2>3
<1>5. ImagesIn(D, r) = SubSeq(v, z + 1, Len(v))
  <2> DEFINE n == Len(s)
  <2>1. n \in Nat /\ n <= n /\ z <= n
    BY <1>1
  <2>2. ImagesIn(D, SubSeq(s, z + 1, n)) = SubSeq(v, z + 1, n)
    BY <2>1, ImagesRange
  <2> QED
    BY <1>3, <2>2
<1> HIDE DEF l, r, e
<1>6. w \in Seq(Block) /\ ImagesIn(D, w) = ImagesIn(D, l) \o e
  BY <1>1, ImagesConcat, ConcatProperties DEF e
<1> HIDE DEF w
<1>7. ImagesIn(D, w \o r) = ImagesIn(D, w) \o ImagesIn(D, r)
  BY <1>1, <1>6, ImagesConcat
<1> HIDE DEF v
<1>8. Splice(v, a, z, e) = SubSeq(v, 1, a) \o e \o SubSeq(v, z + 1, Len(v))
  BY DEF Splice
<1>9. ImagesIn(D, Splice(s, a, z, new)) = Splice(v, a, z, e)
  BY <1>2, <1>4, <1>5, <1>6, <1>7, <1>8
<1>10. Flat(Splice(v, a, z, e)) = Splice(Flat(v), BlockSize * a, BlockSize * z, Flat(e))
  <2>1. z <= Len(v)
    BY <1>3
  <2> QED
    BY <1>3, <2>1, FlatSplice
<1> QED
  BY <1>9, <1>10 DEF v, e

\* Vectors whose blocks hold the same, have the same images.
LEMMA ImagesAgree ==
  ASSUME NEW D, NEW E, NEW s, \A b \in Range(s) : D[b] = E[b]
  PROVE  ImagesIn(D, s) = ImagesIn(E, s)
<1>1. \A n \in DOMAIN s : s[n] \in Range(s)
  BY DEF Range
<1> QED
  BY <1>1 DEF ImagesIn

\* What was stored is read back.
LEMMA StoredImages ==
  ASSUME data \in [Block -> Image], NEW s \in Seq(Block), IsInjective(s),
         NEW d \in Seq(Image), Len(s) = Len(d)
  PROVE  ImagesIn(Stored(s, d), s) = d
<1> DEFINE D == Stored(s, d)
           t == ImagesIn(D, s)
<1>1. Len(s) \in Nat /\ DOMAIN s = 1 .. Len(s) /\ \A n \in 1 .. Len(s) : s[n] \in Block
  BY LenProperties
<1>2. D \in [Block -> Image]
  BY <1>1, StoredType
<1>3. ASSUME NEW n \in 1 .. Len(s) PROVE D[s[n]] = d[n]
  <2>1. s[n] \in Block /\ s[n] \in Range(s)
    BY <1>1 DEF Range
  <2>2. \A m \in DOMAIN s : s[m] = s[n] => m = n
    BY <1>1 DEF IsInjective
  <2>3. (CHOOSE m \in DOMAIN s : s[m] = s[n]) = n
    BY <1>1, <2>2
  <2>4. D[s[n]] = d[CHOOSE m \in DOMAIN s : s[m] = s[n]]
    BY <2>1 DEF Stored
  <2> QED
    BY <2>3, <2>4
<1> HIDE DEF D
<1>4. t \in Seq(Image) /\ Len(t) = Len(s) /\ \A n \in 1 .. Len(s) : t[n] = D[s[n]]
  BY <1>2, ImagesInType
<1> HIDE DEF t
<1>5. t = d
  BY <1>3, <1>4, SeqEqual
<1> QED
  BY <1>5 DEF t, D

(***************************************************************************)
(* The inductive invariant.                                                *)
(***************************************************************************)
FileRecord == [blocks : Seq(Block), len : Nat]
Holds(i) == Range(files[i].blocks)

\* The tables are well typed, every end of file lies in the last block, and the
\* files hold the allocated blocks between them, each once.
FileInv ==
  /\ data \in [Block -> Image]
  /\ files \in [File -> FileRecord]
  /\ \A i \in File : BlockCount(files[i].len) = Len(files[i].blocks)
  /\ \A i \in File : IsInjective(files[i].blocks)
  /\ \A i, j \in File : i # j => Holds(i) \cap Holds(j) = {}
  /\ alloc = UNION {Holds(i) : i \in File}

\* What a step leaves of a file it was not to change: its inode, and the images of
\* its blocks.
Same(i) == files'[i] = files[i] /\ \A b \in Holds(i) : data'[b] = data[b]

\* The step keeps the invariant and changes the files of S at most.
Apart(S) == FileInv' /\ \A i \in File \ S : Same(i)

\* A file holds allocated blocks, and as many as its length needs.
LEMMA FileFacts ==
  ASSUME FileInv, NEW i \in File
  PROVE  /\ files[i] \in FileRecord
         /\ files[i].blocks \in Seq(Block) /\ files[i].len \in Nat /\ N(i) \in Nat
         /\ Holds(i) \subseteq alloc /\ alloc \subseteq Block
         /\ DOMAIN files[i].blocks = 1 .. N(i)
         /\ \A x \in 1 .. N(i) : files[i].blocks[x] \in Block
<1>1. files[i].blocks \in Seq(Block) /\ files[i].len \in Nat /\ files[i] \in FileRecord
  BY DEF FileInv, FileRecord
<1>2. \A j \in File : Holds(j) \subseteq Block
  <2> SUFFICES ASSUME NEW j \in File PROVE Holds(j) \subseteq Block
    OBVIOUS
  <2>1. files[j].blocks \in Seq(Block)
    BY DEF FileInv, FileRecord
  <2> QED
    BY <2>1, RangeOfSeq DEF Holds
<1>3. alloc \subseteq Block /\ Holds(i) \subseteq alloc
  BY <1>2 DEF FileInv
<1>4. /\ Len(files[i].blocks) \in Nat /\ DOMAIN files[i].blocks = 1 .. Len(files[i].blocks)
      /\ \A x \in 1 .. Len(files[i].blocks) : files[i].blocks[x] \in Block
  BY <1>1, LenProperties
<1> QED
  BY <1>1, <1>3, <1>4 DEF N

\* One inode changes: it may give up blocks and take free ones.
LEMMA OneFileApart ==
  ASSUME FileInv, NEW i \in File, NEW f \in FileRecord, files' = [files EXCEPT ![i] = f],
         BlockCount(f.len) = Len(f.blocks), IsInjective(f.blocks),
         NEW fresh, fresh \cap alloc = {}, NEW gone, gone \subseteq Holds(i),
         Range(f.blocks) = (Holds(i) \ gone) \cup fresh,
         alloc' = (alloc \cup fresh) \ gone,
         data' \in [Block -> Image],
         \A b \in Block : b \notin Holds(i) \cup fresh => data'[b] = data[b]
  PROVE  Apart({i})
<1>1. /\ files' \in [File -> FileRecord] /\ files'[i] = f
      /\ \A j \in File \ {i} : files'[j] = files[j]
  BY DEF FileInv
<1>2. /\ Holds(i)' = (Holds(i) \ gone) \cup fresh
      /\ \A j \in File \ {i} : Holds(j)' = Holds(j)
  BY <1>1 DEF Holds
<1>3. \A j \in File : Holds(j) \subseteq alloc /\ Holds(j) \subseteq Block
  BY FileFacts
<1>4. \A j, k \in File : j # k => Holds(j)' \cap Holds(k)' = {}
  <2> SUFFICES ASSUME NEW j \in File, NEW k \in File, j # k
               PROVE  Holds(j)' \cap Holds(k)' = {}
    OBVIOUS
  <2>1. Holds(j) \cap Holds(k) = {}
    BY DEF FileInv
  <2> QED
    BY <1>2, <1>3, <2>1
<1>5. alloc' = UNION {Holds(j)' : j \in File}
  <2>1. alloc = UNION {Holds(j) : j \in File}
    BY DEF FileInv
  <2>2. ASSUME NEW b \in alloc' PROVE \E j \in File : b \in Holds(j)'
    <3>1. CASE b \in fresh
      BY <1>2, <3>1
    <3>2. CASE b \in alloc
      <4>1. PICK j \in File : b \in Holds(j)
        BY <2>1, <3>2
      <4> QED
        BY <1>2, <2>2, <4>1
    <3> QED
      BY <3>1, <3>2
  <2>3. ASSUME NEW j \in File, NEW b \in Holds(j)' PROVE b \in alloc'
    <3>1. CASE j = i
      BY <1>2, <1>3, <2>3, <3>1
    <3>2. CASE j # i
      <4>1. b \in Holds(j) /\ b \in alloc
        BY <1>2, <1>3, <3>2
      <4>2. b \notin Holds(i)
        BY <3>2, <4>1 DEF FileInv
      <4> QED
        BY <4>1, <4>2
    <3> QED
      BY <3>1, <3>2
  <2> QED
    BY <2>2, <2>3
<1>6. /\ \A j \in File : BlockCount(files'[j].len) = Len(files'[j].blocks)
      /\ \A j \in File : IsInjective(files'[j].blocks)
  BY <1>1 DEF FileInv
<1>7. FileInv'
  BY <1>1, <1>4, <1>5, <1>6 DEF FileInv
<1>8. ASSUME NEW j \in File \ {i} PROVE Same(j)
  <2>1. \A b \in Holds(j) : b \in Block /\ b \notin Holds(i) \cup fresh
    BY <1>3 DEF FileInv
  <2> QED
    BY <1>1, <2>1 DEF Same
<1> QED
  BY <1>7, <1>8 DEF Apart

\* Two inodes change: between them they keep blocks they held, or give them up.
LEMMA TwoFileApart ==
  ASSUME FileInv, NEW i \in File, NEW j \in File, i # j,
         NEW f \in FileRecord, NEW g \in FileRecord,
         files' = [files EXCEPT ![i] = f, ![j] = g],
         BlockCount(f.len) = Len(f.blocks), IsInjective(f.blocks),
         BlockCount(g.len) = Len(g.blocks), IsInjective(g.blocks),
         Range(f.blocks) \cap Range(g.blocks) = {},
         NEW gone, gone \subseteq Holds(i) \cup Holds(j),
         Range(f.blocks) \cup Range(g.blocks) = (Holds(i) \cup Holds(j)) \ gone,
         alloc' = alloc \ gone, data' = data
  PROVE  Apart({i, j})
<1>1. /\ files' \in [File -> FileRecord] /\ files'[i] = f /\ files'[j] = g
      /\ \A k \in File \ {i, j} : files'[k] = files[k]
  BY DEF FileInv
<1>2. /\ Holds(i)' \cup Holds(j)' = (Holds(i) \cup Holds(j)) \ gone
      /\ Holds(i)' \cap Holds(j)' = {}
      /\ \A k \in File \ {i, j} : Holds(k)' = Holds(k)
  BY <1>1 DEF Holds
<1>3. \A k \in File : Holds(k) \subseteq alloc
  BY FileFacts
<1>4. \A k \in File \ {i, j} : Holds(k) \cap (Holds(i) \cup Holds(j)) = {}
  BY DEF FileInv
<1>5. \A k, l \in File : k # l => Holds(k)' \cap Holds(l)' = {}
  <2> SUFFICES ASSUME NEW k \in File, NEW l \in File, k # l
               PROVE  Holds(k)' \cap Holds(l)' = {}
    OBVIOUS
  <2>1. Holds(k) \cap Holds(l) = {}
    BY DEF FileInv
  <2>2. CASE k \in {i, j} /\ l \in {i, j}
    BY <1>2, <2>2
  <2>3. CASE k \notin {i, j} /\ l \in {i, j}
    BY <1>2, <1>4, <2>3
  <2>4. CASE k \in {i, j} /\ l \notin {i, j}
    BY <1>2, <1>4, <2>4
  <2>5. CASE k \notin {i, j} /\ l \notin {i, j}
    BY <1>2, <2>1, <2>5
  <2> QED
    BY <2>2, <2>3, <2>4, <2>5
<1>6. alloc' = UNION {Holds(k)' : k \in File}
  <2>1. alloc = UNION {Holds(k) : k \in File}
    BY DEF FileInv
  <2>2. ASSUME NEW b \in alloc' PROVE \E k \in File : b \in Holds(k)'
    <3>1. PICK k \in File : b \in Holds(k)
      BY <2>1
    <3> QED
      BY <1>2, <3>1
  <2>3. ASSUME NEW k \in File, NEW b \in Holds(k)' PROVE b \in alloc'
    <3>1. CASE k \in {i, j}
      BY <1>2, <1>3, <2>3, <3>1
    <3>2. CASE k \notin {i, j}
      BY <1>2, <1>3, <1>4, <3>2
    <3> QED
      BY <3>1, <3>2
  <2> QED
    BY <2>2, <2>3
<1>7. /\ \A k \in File : BlockCount(files'[k].len) = Len(files'[k].blocks)
      /\ \A k \in File : IsInjective(files'[k].blocks)
  BY <1>1 DEF FileInv
<1>8. FileInv'
  BY <1>1, <1>5, <1>6, <1>7 DEF FileInv
<1>9. ASSUME NEW k \in File \ {i, j} PROVE Same(k)
  BY <1>1 DEF Same
<1> QED
  BY <1>8, <1>9 DEF Apart

(***************************************************************************)
(* Allocation, and the operations that replace a range of blocks.          *)
(***************************************************************************)
\* Free blocks, none of them twice, and the images they are to hold.
Brings(s, d) == /\ s \in Seq(Block) /\ IsInjective(s) /\ Range(s) \cap alloc = {}
                /\ d \in Seq(Image) /\ Len(s) = Len(d)

\* Both ways of allocating return free blocks, none of them twice.
LEMMA FreshFacts ==
  ASSUME NEW n \in Nat, NEW s, s \in Fresh(n) \/ s \in FreshRun(n)
  PROVE  s \in Seq(Block) /\ Len(s) = n /\ IsInjective(s) /\ Range(s) \cap alloc = {}
<1>1. /\ s \in [1 .. n -> Block \ alloc]
      /\ \A x, y \in 1 .. n : s[x] = s[y] => x = y
  <2>1. CASE s \in Fresh(n)
    <3> DEFINE free == Block \ alloc
    <3>1. DataBlocks \in Nat /\ free \in SUBSET (1 .. DataBlocks)
      BY GeometryAssumption DEF Block
    <3>2. s \in FirstFit(n, free)
      BY <2>1 DEF Fresh
    <3> HIDE DEF free
    <3>3. s \in [1 .. n -> free] /\ \A x, y \in 1 .. n : s[x] = s[y] => x = y
      BY <3>1, <3>2, FirstFitFacts
    <3> QED
      BY <3>3 DEF free
  <2>2. CASE s \in FreshRun(n)
    <3>1. PICK b \in Block : FreeRun(b, n) /\ s = [m \in 1 .. n |-> b + m - 1]
      BY <2>2 DEF FreshRun
    <3>2. b \in Int
      BY DEF Block
    <3>3. \A m \in 1 .. n : b + m - 1 \in b .. b + n - 1
      BY <3>2
    <3>4. \A m \in 1 .. n : b + m - 1 \in Block \ alloc
      BY <3>1, <3>3 DEF FreeRun
    <3>5. s \in [1 .. n -> Block \ alloc]
      BY <3>1, <3>4
    <3>6. ASSUME NEW x \in 1 .. n, NEW y \in 1 .. n, s[x] = s[y] PROVE x = y
      <4>1. b + x - 1 = b + y - 1
        BY <3>1, <3>6
      <4> QED
        BY <3>2, <4>1
    <3> QED
      BY <3>5, <3>6
  <2> QED
    BY <2>1, <2>2
<1>2. s \in [1 .. n -> Block]
  BY <1>1
<1> QED
  BY <1>1, <1>2, SeqOfFunction DEF IsInjective, Range

\* What callers hand over are images.
LEMMA PayloadImages ==
  /\ \A d \in ImageSeqs \cup {<<>>} : d \in Seq(Image)
  /\ \A d \in Payload : <<d>> \in Seq(Image) /\ Len(<<d>>) = 1
  /\ <<>> \in Seq(Image) /\ Len(<<>>) = 0
  /\ \A n \in Nat : /\ [m \in 1 .. n |-> Zeros(BlockSize)] \in Seq(Image)
                    /\ Len([m \in 1 .. n |-> Zeros(BlockSize)]) = n
<1>1. ASSUME NEW d \in ImageSeqs PROVE d \in Seq(Image)
  <2>1. PICK n \in 1 .. MaxRun : d \in [1 .. n -> Payload]
    BY DEF ImageSeqs
  <2>2. n \in Nat /\ d \in [1 .. n -> Image]
    BY <2>1, GeometryAssumption, ByteAssumption
  <2> QED
    BY <2>2, SeqOfFunction
<1>2. Zeros(BlockSize) \in Image
  BY ByteAssumption DEF Zeros, Image
<1>3. ASSUME NEW n \in Nat
      PROVE  /\ [m \in 1 .. n |-> Zeros(BlockSize)] \in Seq(Image)
             /\ Len([m \in 1 .. n |-> Zeros(BlockSize)]) = n
  <2> DEFINE z == [m \in 1 .. n |-> Zeros(BlockSize)]
  <2>1. z \in [1 .. n -> Image]
    BY <1>2
  <2> HIDE DEF z
  <2>2. z \in Seq(Image) /\ Len(z) = n
    BY <2>1, SeqOfFunction
  <2> QED
    BY <2>2 DEF z
<1>4. \A d \in Payload : <<d>> \in Seq(Image) /\ Len(<<d>>) = 1
  BY ByteAssumption
<1>5. <<>> \in Seq(Image) /\ Len(<<>>) = 0
  BY EmptySeq
<1> QED
  BY <1>1, <1>3, <1>4, <1>5

\* PersistedInode::replace_block_range: the end of file lies in the last block again.
LEMMA ReplaceRangeFacts ==
  ASSUME NEW f \in FileRecord, BlockCount(f.len) = Len(f.blocks),
         NEW a \in Nat, NEW z \in Nat, a <= z, z <= Len(f.blocks), NEW new \in Seq(Block)
  PROVE  /\ ReplaceRange(f, a, z, new) \in FileRecord
         /\ ReplaceRange(f, a, z, new).blocks = Splice(f.blocks, a, z, new)
         /\ BlockCount(ReplaceRange(f, a, z, new).len) = Len(ReplaceRange(f, a, z, new).blocks)
<1> DEFINE blocks == Splice(f.blocks, a, z, new)
           slack == BlockSize * Len(f.blocks) - f.len
           m == Len(blocks)
<1>1. BlockSize \in Nat \ {0} /\ f.blocks \in Seq(Block) /\ f.len \in Nat
  BY GeometryAssumption DEF FileRecord
<1>2. slack \in 0 .. BlockSize - 1
  BY <1>1, BlockCountBounds
<1>3. blocks \in Seq(Block)
  BY <1>1, SpliceMembers
<1> HIDE DEF blocks, slack
<1>4. m \in Nat /\ (blocks # <<>> => m >= 1) /\ (blocks = <<>> => m = 0)
  BY <1>3, EmptySeq, LenProperties
<1> HIDE DEF m
<1>5. ReplaceRange(f, a, z, new) =
        [blocks |-> blocks, len |-> IF blocks = <<>> THEN 0 ELSE BlockSize * m - slack]
  BY DEF ReplaceRange, blocks, slack, m
<1>6. CASE blocks = <<>>
  <2>1. BlockSize * 0 - 0 = 0
    BY <1>1, SMT
  <2>2. BlockCount(0) = 0
    <3>1. 0 \in 0 .. BlockSize - 1
      BY <1>1
    <3>2. BlockCount(BlockSize * 0 - 0) = 0
      BY <2>1, <3>1, BlockCountOf
    <3> QED
      BY <2>1, <3>2
  <2> QED
    BY <1>3, <1>4, <1>5, <1>6, <2>2 DEF FileRecord, blocks, m
<1>7. CASE blocks # <<>>
  <2>1. BlockSize * 1 <= BlockSize * m /\ BlockSize * m \in Int /\ BlockSize * 1 = BlockSize
    BY <1>1, <1>4, <1>7, ScaledOrder
  <2>2. BlockSize * m - slack \in Nat
    BY <1>1, <1>2, <2>1
  <2>3. BlockCount(BlockSize * m - slack) = m
    BY <1>2, <1>4, <2>2, BlockCountOf
  <2> QED
    BY <1>3, <1>5, <1>7, <2>2, <2>3 DEF FileRecord, blocks, m
<1> QED
  BY <1>6, <1>7

\* The common form of the block operations.
LEMMA RewriteApart ==
  ASSUME FileInv, NEW i \in File, NEW a \in Nat, NEW z \in Nat, a <= z, z <= N(i),
         NEW s, NEW d, NEW bytes, Brings(s, d), Rewrite(i, a, z, s, d, bytes)
  PROVE  Apart({i})
<1> DEFINE f == files[i]
           g == ReplaceRange(f, a, z, s)
           mid == Slice(i, a, z)
<1>1. /\ f \in FileRecord /\ f.blocks \in Seq(Block) /\ BlockCount(f.len) = Len(f.blocks)
      /\ IsInjective(f.blocks) /\ z <= Len(f.blocks) /\ s \in Seq(Block)
      /\ Range(f.blocks) = Holds(i) /\ Holds(i) \subseteq alloc
  BY FileFacts DEF FileInv, N, Brings, Holds
<1>2. g \in FileRecord /\ g.blocks = Splice(f.blocks, a, z, s) /\ BlockCount(g.len) = Len(g.blocks)
  BY <1>1, ReplaceRangeFacts
<1>3. /\ Range(mid) \subseteq Holds(i)
      /\ Range(g.blocks) = (Holds(i) \ Range(mid)) \cup Range(s)
      /\ IsInjective(s) /\ Range(s) \cap (Holds(i) \ Range(mid)) = {} => IsInjective(g.blocks)
  BY <1>1, <1>2, SpliceMembers DEF Slice
<1>4. IsInjective(g.blocks)
  BY <1>1, <1>3 DEF Brings
<1>5. /\ data' \in [Block -> Image]
      /\ \A b \in Block : b \notin Range(s) => data'[b] = data[b]
  BY StoredType DEF FileInv, Rewrite, Brings
<1>6. /\ files' = [files EXCEPT ![i] = g]
      /\ alloc' = (alloc \cup Range(s)) \ Range(mid)
  BY DEF Rewrite
<1> HIDE DEF f, g, mid
<1> QED
  BY <1>2, <1>3, <1>4, <1>5, <1>6, OneFileApart DEF Brings

\* Blocks are read as images.
LEMMA ImagesType ==
  ASSUME data \in [Block -> Image], NEW s \in Seq(Block)
  PROVE  Images(s) \in Seq(Image) /\ Len(Images(s)) = Len(s)
<1>1. Len(s) \in Nat /\ DOMAIN s = 1 .. Len(s) /\ \A n \in 1 .. Len(s) : s[n] \in Block
  BY LenProperties
<1>2. Images(s) \in [1 .. Len(s) -> Image]
  BY <1>1 DEF Images
<1> QED
  BY <1>1, <1>2, SeqOfFunction

\* A range of a file's blocks.
LEMMA SliceFacts ==
  ASSUME FileInv, NEW i \in File, NEW a \in Nat, NEW z \in Nat, a <= z, z <= N(i)
  PROVE  /\ Slice(i, a, z) \in Seq(Block) /\ Len(Slice(i, a, z)) = z - a
         /\ IsInjective(Slice(i, a, z)) /\ Range(Slice(i, a, z)) \subseteq Holds(i)
         /\ Copies(i, a, z) \in Seq(Image)
<1>1. /\ files[i].blocks \in Seq(Block) /\ z <= Len(files[i].blocks)
      /\ IsInjective(files[i].blocks) /\ data \in [Block -> Image]
  BY FileFacts DEF FileInv, N
<1>2. Slice(i, a, z) \in Seq(Block) /\ Len(Slice(i, a, z)) = z - a
  BY <1>1, CutInThree DEF Slice
<1>3. IsInjective(Slice(i, a, z)) /\ Range(Slice(i, a, z)) \subseteq Holds(i)
  BY <1>1, SpliceMembers, EmptySeq DEF Slice, Holds
<1> QED
  BY <1>1, <1>2, <1>3, ImagesType DEF Copies

(***************************************************************************)
(* Moving blocks within and between files.                                 *)
(***************************************************************************)
\* A range of a file's vector is replaced by blocks the file does not hold.
LEMMA SplicedFile ==
  ASSUME FileInv, NEW i \in File, NEW a \in Nat, NEW z \in Nat, a <= z, z <= N(i),
         NEW new \in Seq(Block), IsInjective(new), Range(new) \cap Holds(i) = {}
  PROVE  /\ Splice(files[i].blocks, a, z, new) \in Seq(Block)
         /\ IsInjective(Splice(files[i].blocks, a, z, new))
         /\ Len(Splice(files[i].blocks, a, z, new)) = N(i) - (z - a) + Len(new)
         /\ Range(Splice(files[i].blocks, a, z, new)) =
               (Holds(i) \ Range(Slice(i, a, z))) \cup Range(new)
         /\ Range(Slice(i, a, z)) \subseteq Holds(i)
<1> DEFINE s == files[i].blocks
<1>1. s \in Seq(Block) /\ z <= Len(s) /\ IsInjective(s) /\ Holds(i) = Range(s) /\ N(i) = Len(s)
      /\ Slice(i, a, z) = SubSeq(s, a + 1, z)
  BY FileFacts DEF FileInv, N, Holds, Slice
<1> HIDE DEF s
<1>2. Range(new) \cap (Range(s) \ Range(SubSeq(s, a + 1, z))) = {}
  BY <1>1
<1>3. /\ Splice(s, a, z, new) \in Seq(Block) /\ IsInjective(Splice(s, a, z, new))
      /\ Len(Splice(s, a, z, new)) = Len(s) - (z - a) + Len(new)
      /\ Range(Splice(s, a, z, new)) = (Range(s) \ Range(SubSeq(s, a + 1, z))) \cup Range(new)
      /\ Range(SubSeq(s, a + 1, z)) \subseteq Range(s)
  <2>1. /\ Splice(s, a, z, new) \in Seq(Block)
        /\ Len(Splice(s, a, z, new)) = Len(s) - (z - a) + Len(new)
    BY <1>1, SpliceMembers
  <2>2. /\ Range(Splice(s, a, z, new)) = (Range(s) \ Range(SubSeq(s, a + 1, z))) \cup Range(new)
        /\ Range(SubSeq(s, a + 1, z)) \subseteq Range(s)
    BY <1>1, SpliceMembers
  <2>3. IsInjective(Splice(s, a, z, new))
    BY <1>1, <1>2, SpliceMembers
  <2> QED
    BY <2>1, <2>2, <2>3
<1> QED
  BY <1>1, <1>3 DEF s

\* A range is cut out of a file's vector.
LEMMA CutFile ==
  ASSUME FileInv, NEW i \in File, NEW a \in Nat, NEW z \in Nat, a <= z, z <= N(i)
  PROVE  /\ Splice(files[i].blocks, a, z, <<>>) \in Seq(Block)
         /\ IsInjective(Splice(files[i].blocks, a, z, <<>>))
         /\ Len(Splice(files[i].blocks, a, z, <<>>)) = N(i) - (z - a)
         /\ Range(Splice(files[i].blocks, a, z, <<>>)) = Holds(i) \ Range(Slice(i, a, z))
<1> DEFINE e == <<>>
           w == Splice(files[i].blocks, a, z, e)
<1>1. e \in Seq(Block) /\ IsInjective(e) /\ N(i) \in Nat
  BY EmptySeq, FileFacts DEF IsInjective
<1>2. Range(e) = {} /\ Len(e) = 0
  BY EmptySeq DEF Range
<1> HIDE DEF e
<1>3. /\ w \in Seq(Block) /\ IsInjective(w) /\ Len(w) = N(i) - (z - a) + Len(e)
      /\ Range(w) = (Holds(i) \ Range(Slice(i, a, z))) \cup Range(e)
  <2>1. Range(e) \cap Holds(i) = {}
    BY <1>2
  <2>2. w \in Seq(Block) /\ IsInjective(w)
    BY <1>1, <2>1, SplicedFile
  <2>3. Len(w) = N(i) - (z - a) + Len(e)
    BY <1>1, <2>1, SplicedFile
  <2>4. Range(w) = (Holds(i) \ Range(Slice(i, a, z))) \cup Range(e)
    BY <1>1, <2>1, SplicedFile
  <2> QED
    BY <2>2, <2>3, <2>4
<1> HIDE DEF w
<1>4. Len(w) = N(i) - (z - a) /\ Range(w) = Holds(i) \ Range(Slice(i, a, z))
  BY <1>1, <1>2, <1>3
<1> QED
  BY <1>3, <1>4 DEF w, e

\* The vector of one file is rearranged.
LEMMA RearrangeApart ==
  ASSUME FileInv, NEW i \in File, NEW w \in Seq(Block), IsInjective(w),
         Range(w) = Holds(i), Len(w) = N(i),
         files' = [files EXCEPT ![i].blocks = w], MovesOnly
  PROVE  Apart({i})
<1> DEFINE f == [blocks |-> w, len |-> files[i].len]
<1>1. f \in FileRecord /\ BlockCount(f.len) = Len(f.blocks) /\ IsInjective(f.blocks)
  BY FileFacts DEF FileInv, FileRecord, N
<1>2. files' = [files EXCEPT ![i] = f]
  <2>1. files[i] \in [blocks : Seq(Block), len : Nat]
    BY FileFacts DEF FileRecord
  <2>2. [files[i] EXCEPT !.blocks = w] = f
    BY <2>1
  <2> QED
    BY <2>2
<1>3. Range(f.blocks) = (Holds(i) \ {}) \cup {} /\ alloc' = (alloc \cup {}) \ {}
  BY DEF MovesOnly
<1>4. data' \in [Block -> Image] /\ \A b \in Block : b \notin Holds(i) \cup {} => data'[b] = data[b]
  BY DEF MovesOnly, FileInv
<1>5. {} \cap alloc = {} /\ {} \subseteq Holds(i)
  OBVIOUS
<1> HIDE DEF f
<1> QED
  BY <1>1, <1>2, <1>3, <1>4, <1>5, OneFileApart

\* move_file_block_range_journaled.
LEMMA MoveRangeApart ==
  ASSUME FileInv, NEW i \in File, NEW a \in Nat, NEW z \in Nat, NEW b \in Nat,
         MoveRange(i, a, z, b)
  PROVE  Apart({i})
<1> DEFINE s == files[i].blocks
           mid == Slice(i, a, z)
           t == Splice(s, a, z, <<>>)
           w == Splice(t, b, b, mid)
<1>1. a <= z /\ z <= N(i) /\ N(i) \in Nat /\ b <= N(i) - (z - a)
  BY FileFacts DEF MoveRange
<1>2. /\ mid \in Seq(Block) /\ Len(mid) = z - a /\ IsInjective(mid)
      /\ Range(mid) \subseteq Holds(i)
  BY <1>1, SliceFacts
<1>3. /\ t \in Seq(Block) /\ IsInjective(t) /\ Len(t) = N(i) - (z - a)
      /\ Range(t) = Holds(i) \ Range(mid)
  BY <1>1, CutFile
<1> HIDE DEF s, t, mid
<1>4. SubSeq(t, b + 1, b) = <<>> /\ Range(<<>>) = {}
  BY SubSeqEmpty DEF Range
<1>5. /\ w \in Seq(Block) /\ Len(w) = Len(t) - (b - b) + Len(mid)
      /\ Range(w) = (Range(t) \ Range(SubSeq(t, b + 1, b))) \cup Range(mid)
      /\ IsInjective(mid) /\ Range(mid) \cap (Range(t) \ Range(SubSeq(t, b + 1, b))) = {}
            => IsInjective(w)
  <2>1. b <= Len(t) /\ b <= b
    BY <1>1, <1>3
  <2> QED
    BY ONLY <1>2, <1>3, <2>1, SpliceMembers, b \in Nat DEF w
<1>6. IsInjective(w) /\ Range(w) = Holds(i)
  BY <1>2, <1>3, <1>4, <1>5
<1>7. Len(w) = N(i)
  BY <1>1, <1>2, <1>3, <1>5
<1>8. files' = [files EXCEPT ![i].blocks = w] /\ MovesOnly
  BY DEF MoveRange, w, t, s, mid
<1> HIDE DEF w
<1> QED
  BY <1>5, <1>6, <1>7, <1>8, RearrangeApart

\* Two adjacent ranges of one file.
LEMMA AdjacentSlices ==
  ASSUME FileInv, NEW i \in File, NEW a \in Nat, NEW z \in Nat, NEW y \in Nat,
         a <= z, z <= y, y <= N(i)
  PROVE  /\ Range(Slice(i, a, y)) = Range(Slice(i, a, z)) \cup Range(Slice(i, z, y))
         /\ Range(Slice(i, a, z)) \cap Range(Slice(i, z, y)) = {}
<1> DEFINE s == files[i].blocks
           p == Slice(i, a, z)
           q == Slice(i, z, y)
<1>1. s \in Seq(Block) /\ Len(s) \in Nat /\ y <= Len(s)
  BY FileFacts DEF N
<1>2. p \in Seq(Block) /\ q \in Seq(Block) /\ IsInjective(Slice(i, a, y))
  <2>1. N(i) \in Nat /\ z <= N(i) /\ a <= y
    BY FileFacts
  <2> QED
    BY <2>1, SliceFacts
<1>3. p \o q = Slice(i, a, y)
  <2>1. /\ a + 1 \in 1 .. Len(s) + 1 /\ z \in (a + 1) - 1 .. Len(s) /\ y \in z .. Len(s)
    BY <1>1
  <2> HIDE DEF s
  <2>2. SubSeq(s, a + 1, z) \o SubSeq(s, z + 1, y) = SubSeq(s, a + 1, y)
    BY <1>1, <2>1, ConcatAdjacentSubSeq
  <2> QED
    BY <2>2 DEF Slice, s
<1> HIDE DEF p, q
<1>4. IsInjective(p \o q) /\ Range(Slice(i, a, y)) = Range(p \o q)
  BY <1>2, <1>3
<1>5. Range(p \o q) = Range(p) \cup Range(q) /\ Range(p) \cap Range(q) = {}
  BY <1>2, <1>4, ConcatMembers
<1> QED
  BY <1>4, <1>5 DEF p, q

\* exchange_same_file_block_ranges_journaled.
LEMMA ExchangeWithinApart ==
  ASSUME FileInv, NEW i \in File, NEW a \in Nat, NEW z \in Nat, NEW b \in Nat, NEW y \in Nat,
         ExchangeWithin(i, a, z, b, y)
  PROVE  Apart({i})
<1> DEFINE s == files[i].blocks
           p == Slice(i, a, z)
           q == Slice(i, z, b)
           r == Slice(i, b, y)
           rq == r \o q
           new == rq \o p
           w == Splice(s, a, y, new)
<1>1. a <= z /\ z <= b /\ b <= y /\ y <= N(i) /\ N(i) \in Nat /\ a <= y /\ a <= b /\ b <= N(i) /\ z <= N(i)
  BY FileFacts DEF ExchangeWithin
<1>2. /\ p \in Seq(Block) /\ Len(p) = z - a /\ IsInjective(p)
      /\ q \in Seq(Block) /\ Len(q) = b - z /\ IsInjective(q)
      /\ r \in Seq(Block) /\ Len(r) = y - b /\ IsInjective(r)
  BY <1>1, SliceFacts
<1>3. /\ Range(Slice(i, a, y)) = (Range(p) \cup Range(q)) \cup Range(r)
      /\ Range(p) \cap Range(q) = {} /\ (Range(p) \cup Range(q)) \cap Range(r) = {}
  <2>1. /\ Range(Slice(i, a, b)) = Range(p) \cup Range(q) /\ Range(p) \cap Range(q) = {}
    BY <1>1, AdjacentSlices
  <2>2. /\ Range(Slice(i, a, y)) = Range(Slice(i, a, b)) \cup Range(r)
        /\ Range(Slice(i, a, b)) \cap Range(r) = {}
    BY <1>1, AdjacentSlices
  <2> QED
    BY <2>1, <2>2
<1> HIDE DEF p, q, r
<1>4. rq \in Seq(Block) /\ Len(rq) = (y - b) + (b - z) /\ Range(rq) = Range(r) \cup Range(q)
      /\ IsInjective(rq)
  <2>1. Range(r) \cap Range(q) = {}
    BY <1>3
  <2>2. rq \in Seq(Block) /\ Len(rq) = Len(r) + Len(q)
    BY <1>2, ConcatProperties
  <2>3. Range(rq) = Range(r) \cup Range(q) /\ IsInjective(rq)
    BY <1>2, <2>1, ConcatMembers
  <2> QED
    BY <1>2, <2>2, <2>3
<1> HIDE DEF rq
<1>5. new \in Seq(Block) /\ Len(new) = y - a /\ IsInjective(new)
      /\ Range(new) = Range(Slice(i, a, y))
  <2>1. Range(rq) \cap Range(p) = {}
    BY <1>3, <1>4
  <2>2. new \in Seq(Block) /\ Len(new) = Len(rq) + Len(p)
    BY <1>2, <1>4, ConcatProperties
  <2>3. IsInjective(new) /\ Range(new) = Range(rq) \cup Range(p)
    BY <1>2, <1>4, <2>1, ConcatMembers
  <2>4. Len(new) = y - a
    BY <1>1, <1>2, <1>4, <2>2
  <2> QED
    BY <1>3, <1>4, <2>2, <2>3, <2>4
<1> HIDE DEF new
<1>6. s \in Seq(Block) /\ IsInjective(s) /\ y <= Len(s) /\ Len(s) = N(i)
  BY <1>1, FileFacts DEF FileInv, N
<1>7. /\ w \in Seq(Block) /\ Len(w) = Len(s) - (y - a) + Len(new)
      /\ Range(Slice(i, a, y)) \subseteq Range(s)
      /\ Range(w) = (Range(s) \ Range(Slice(i, a, y))) \cup Range(new)
      /\ IsInjective(w)
  <2> HIDE DEF s
  <2>1. Slice(i, a, y) = SubSeq(s, a + 1, y)
    BY DEF Slice, s
  <2>2. Range(new) \cap (Range(s) \ Range(SubSeq(s, a + 1, y))) = {}
    BY <1>5, <2>1
  <2>3. /\ s \in Seq(Block) /\ IsInjective(s) /\ y <= Len(s)
        /\ new \in Seq(Block) /\ IsInjective(new) /\ a <= y
    BY <1>1, <1>5, <1>6
  <2> HIDE DEF new
  <2>4. w \in Seq(Block) /\ Len(w) = Len(s) - (y - a) + Len(new)
    BY <2>3, SpliceMembers
  <2>5. /\ Range(SubSeq(s, a + 1, y)) \subseteq Range(s)
        /\ Range(w) = (Range(s) \ Range(SubSeq(s, a + 1, y))) \cup Range(new)
    BY <2>3, SpliceMembers
  <2>6. IsInjective(w)
    BY <2>2, <2>3, SpliceMembers
  <2> QED
    BY <2>1, <2>4, <2>5, <2>6
<1>8. Range(w) = Holds(i)
  BY <1>5, <1>7 DEF Holds
<1>9. Len(w) = N(i)
  BY <1>1, <1>5, <1>6, <1>7
<1>10. files' = [files EXCEPT ![i].blocks = w] /\ MovesOnly
  BY DEF ExchangeWithin, w, s, new, rq, p, q, r
<1> HIDE DEF w
<1> QED
  BY <1>7, <1>8, <1>9, <1>10, RearrangeApart

\* PersistedInode::replace_block_range, with blocks the file does not hold.
LEMMA ReplacedFile ==
  ASSUME FileInv, NEW i \in File, NEW a \in Nat, NEW z \in Nat, a <= z, z <= N(i),
         NEW new \in Seq(Block), IsInjective(new), Range(new) \cap Holds(i) = {}
  PROVE  /\ ReplaceRange(files[i], a, z, new) \in FileRecord
         /\ BlockCount(ReplaceRange(files[i], a, z, new).len) =
              Len(ReplaceRange(files[i], a, z, new).blocks)
         /\ IsInjective(ReplaceRange(files[i], a, z, new).blocks)
         /\ Range(ReplaceRange(files[i], a, z, new).blocks) =
              (Holds(i) \ Range(Slice(i, a, z))) \cup Range(new)
<1> DEFINE f == files[i]
           g == ReplaceRange(f, a, z, new)
<1>1. f \in FileRecord /\ BlockCount(f.len) = Len(f.blocks) /\ z <= Len(f.blocks)
  BY FileFacts DEF FileInv, N
<1>2. /\ IsInjective(Splice(f.blocks, a, z, new))
      /\ Range(Splice(f.blocks, a, z, new)) = (Holds(i) \ Range(Slice(i, a, z))) \cup Range(new)
  BY SplicedFile
<1> HIDE DEF f
<1>3. g \in FileRecord /\ g.blocks = Splice(f.blocks, a, z, new) /\ BlockCount(g.len) = Len(g.blocks)
  BY <1>1, ReplaceRangeFacts
<1> HIDE DEF g
<1>4. IsInjective(g.blocks) /\ Range(g.blocks) = (Holds(i) \ Range(Slice(i, a, z))) \cup Range(new)
  BY <1>2, <1>3
<1> QED
  BY <1>3, <1>4 DEF g, f

\* A range of file j is none of file i.
LEMMA ForeignSlice ==
  ASSUME FileInv, NEW i \in File, NEW j \in File, i # j,
         NEW b \in Nat, NEW y \in Nat, b <= y, y <= N(j)
  PROVE  /\ Slice(j, b, y) \in Seq(Block) /\ Len(Slice(j, b, y)) = y - b
         /\ IsInjective(Slice(j, b, y))
         /\ Range(Slice(j, b, y)) \subseteq Holds(j)
         /\ Range(Slice(j, b, y)) \cap Holds(i) = {}
<1>1. Holds(i) \cap Holds(j) = {}
  BY DEF FileInv
<1> QED
  BY <1>1, SliceFacts

\* exchange_file_block_ranges_journaled.
LEMMA ExchangeRangesApart ==
  ASSUME FileInv, NEW i \in File, NEW j \in File, NEW a \in Nat, NEW b \in Nat, NEW n \in Nat,
         ExchangeRanges(i, a, j, b, n)
  PROVE  Apart({i, j})
<1> DEFINE z == a + n
           y == b + n
           p == Slice(i, a, z)
           q == Slice(j, b, y)
           v == Splice(files[i].blocks, a, z, q)
           w == Splice(files[j].blocks, b, y, p)
           f == [blocks |-> v, len |-> files[i].len]
           g == [blocks |-> w, len |-> files[j].len]
<1>1. /\ i # j /\ a <= z /\ b <= y /\ z <= N(i) /\ y <= N(j)
      /\ z \in Nat /\ y \in Nat /\ N(i) \in Nat /\ N(j) \in Nat
  BY FileFacts DEF ExchangeRanges
<1>4. /\ files' = [files EXCEPT ![i].blocks = v, ![j].blocks = w]
      /\ alloc' = alloc \ {} /\ data' = data
  BY <1>1 DEF ExchangeRanges, MovesOnly
<1>a. z - a = y - b
  OBVIOUS
<1> HIDE DEF z, y
<1>2. /\ p \in Seq(Block) /\ IsInjective(p)
      /\ Range(p) \subseteq Holds(i) /\ Range(p) \cap Holds(j) = {}
  BY <1>1, ForeignSlice
<1>3. /\ q \in Seq(Block) /\ IsInjective(q)
      /\ Range(q) \subseteq Holds(j) /\ Range(q) \cap Holds(i) = {}
  BY <1>1, ForeignSlice
<1>b. Len(p) = z - a /\ Len(q) = y - b
  BY <1>1, ForeignSlice
<1> HIDE DEF q
<1>5. /\ v \in Seq(Block) /\ IsInjective(v) /\ Len(v) = N(i) - (z - a) + Len(q)
      /\ Range(v) = (Holds(i) \ Range(p)) \cup Range(q)
  <2>1. v \in Seq(Block) /\ IsInjective(v)
    BY <1>1, <1>3, SplicedFile
  <2>2. Len(v) = N(i) - (z - a) + Len(q)
    BY <1>1, <1>3, SplicedFile
  <2>3. Range(v) = (Holds(i) \ Range(p)) \cup Range(q)
    BY <1>1, <1>3, SplicedFile
  <2> QED
    BY <2>1, <2>2, <2>3
<1> HIDE DEF p
<1>6. /\ w \in Seq(Block) /\ IsInjective(w) /\ Len(w) = N(j) - (y - b) + Len(p)
      /\ Range(w) = (Holds(j) \ Range(q)) \cup Range(p)
  <2>1. w \in Seq(Block) /\ IsInjective(w)
    BY <1>1, <1>2, SplicedFile
  <2>2. Len(w) = N(j) - (y - b) + Len(p)
    BY <1>1, <1>2, SplicedFile
  <2>3. Range(w) = (Holds(j) \ Range(q)) \cup Range(p)
    BY <1>1, <1>2, SplicedFile DEF q
  <2> QED
    BY <2>1, <2>2, <2>3
<1> HIDE DEF v, w
<1>7. Len(v) = N(i) /\ Len(w) = N(j)
  <2>1. Len(v) = N(i) - (z - a) + Len(q) /\ Len(q) = z - a
    BY <1>a, <1>b, <1>5
  <2>2. Len(w) = N(j) - (y - b) + Len(p) /\ Len(p) = y - b
    BY <1>a, <1>b, <1>6
  <2>3. Len(v) = N(i)
    BY <1>1, <2>1
  <2>4. Len(w) = N(j)
    BY <1>1, <2>2
  <2> QED
    BY <2>3, <2>4
<1>8. f \in FileRecord /\ BlockCount(f.len) = Len(f.blocks) /\ f.blocks = v
  BY <1>5, <1>7, FileFacts DEF FileRecord, FileInv, N
<1>9. g \in FileRecord /\ BlockCount(g.len) = Len(g.blocks) /\ g.blocks = w
  BY <1>6, <1>7, FileFacts DEF FileRecord, FileInv, N
<1>10. files' = [files EXCEPT ![i] = f, ![j] = g]
  <2>1. files[i] \in [blocks : Seq(Block), len : Nat] /\ files[j] \in [blocks : Seq(Block), len : Nat]
    BY FileFacts DEF FileRecord
  <2>2. [files[i] EXCEPT !.blocks = v] = f
    BY <2>1
  <2>3. [files[j] EXCEPT !.blocks = w] = g
    BY <2>1
  <2> HIDE DEF f, g
  <2>4. files' = [files EXCEPT ![i] = [files[i] EXCEPT !.blocks = v],
                               ![j] = [files[j] EXCEPT !.blocks = w]]
    BY <1>1, <1>4
  <2> QED
    BY <2>2, <2>3, <2>4
<1> HIDE DEF f, g
<1>11. Range(v) \cap Range(w) = {} /\ Range(v) \cup Range(w) = (Holds(i) \cup Holds(j)) \ {}
  <2>1. Holds(i) \cap Holds(j) = {}
    BY <1>1 DEF FileInv
  <2> QED
    BY <1>2, <1>3, <1>5, <1>6, <2>1
<1>12. /\ IsInjective(f.blocks) /\ IsInjective(g.blocks) /\ Range(f.blocks) \cap Range(g.blocks) = {}
       /\ Range(f.blocks) \cup Range(g.blocks) = (Holds(i) \cup Holds(j)) \ {}
       /\ {} \subseteq Holds(i) \cup Holds(j)
  BY <1>5, <1>6, <1>8, <1>9, <1>11
<1>13. /\ f \in FileRecord /\ BlockCount(f.len) = Len(f.blocks)
       /\ g \in FileRecord /\ BlockCount(g.len) = Len(g.blocks)
  BY <1>8, <1>9
<1> QED
  BY <1>1, <1>4, <1>10, <1>12, <1>13, TwoFileApart

\* exchange_variable_file_block_ranges_journaled.
LEMMA ExchangeVariableApart ==
  ASSUME FileInv, NEW i \in File, NEW j \in File, NEW a \in Nat, NEW z \in Nat,
         NEW b \in Nat, NEW y \in Nat, ExchangeVariable(i, a, z, j, b, y)
  PROVE  Apart({i, j})
<1> DEFINE p == Slice(i, a, z)
           q == Slice(j, b, y)
           f == ReplaceRange(files[i], a, z, q)
           g == ReplaceRange(files[j], b, y, p)
<1>1. i # j /\ a <= z /\ b <= y /\ z <= N(i) /\ y <= N(j)
  BY DEF ExchangeVariable
<1>2. /\ p \in Seq(Block) /\ IsInjective(p) /\ Range(p) \subseteq Holds(i)
      /\ Range(p) \cap Holds(j) = {}
  BY <1>1, ForeignSlice
<1>3. /\ q \in Seq(Block) /\ IsInjective(q) /\ Range(q) \subseteq Holds(j)
      /\ Range(q) \cap Holds(i) = {}
  BY <1>1, ForeignSlice
<1>4. files' = [files EXCEPT ![i] = f, ![j] = g] /\ alloc' = alloc \ {} /\ data' = data
  BY <1>1 DEF ExchangeVariable, MovesOnly
<1> HIDE DEF q
<1>5. /\ f \in FileRecord /\ BlockCount(f.len) = Len(f.blocks) /\ IsInjective(f.blocks)
      /\ Range(f.blocks) = (Holds(i) \ Range(p)) \cup Range(q)
  BY <1>1, <1>3, ReplacedFile
<1> HIDE DEF p
<1>6. /\ g \in FileRecord /\ BlockCount(g.len) = Len(g.blocks) /\ IsInjective(g.blocks)
      /\ Range(g.blocks) = (Holds(j) \ Range(q)) \cup Range(p)
  BY <1>1, <1>2, ReplacedFile DEF q
<1> HIDE DEF f, g
<1>7. /\ Range(f.blocks) \cap Range(g.blocks) = {} /\ {} \subseteq Holds(i) \cup Holds(j)
      /\ Range(f.blocks) \cup Range(g.blocks) = (Holds(i) \cup Holds(j)) \ {}
  <2>1. Holds(i) \cap Holds(j) = {}
    BY <1>1 DEF FileInv
  <2> QED
    BY <1>2, <1>3, <1>5, <1>6, <2>1
<1>8. /\ f \in FileRecord /\ BlockCount(f.len) = Len(f.blocks) /\ IsInjective(f.blocks)
      /\ g \in FileRecord /\ BlockCount(g.len) = Len(g.blocks) /\ IsInjective(g.blocks)
  BY <1>5, <1>6
<1> QED
  BY <1>1, <1>4, <1>7, <1>8, TwoFileApart

\* transfer_file_block_range_journaled.
LEMMA TransferRangeApart ==
  ASSUME FileInv, NEW i \in File, NEW j \in File, NEW a \in Nat, NEW z \in Nat,
         NEW b \in Nat, TransferRange(i, a, z, j, b)
  PROVE  Apart({i, j})
<1> DEFINE p == Slice(i, a, z)
           q == Slice(j, b, b)
           e == <<>>
           f == ReplaceRange(files[i], a, z, e)
           g == ReplaceRange(files[j], b, b, p)
<1>1. i # j /\ a <= z /\ b <= b /\ z <= N(i) /\ b <= N(j)
  BY DEF TransferRange
<1>2. /\ p \in Seq(Block) /\ IsInjective(p) /\ Range(p) \subseteq Holds(i)
      /\ Range(p) \cap Holds(j) = {}
  BY <1>1, ForeignSlice
<1>3. /\ e \in Seq(Block) /\ IsInjective(e) /\ Range(e) \cap Holds(i) = {}
  BY EmptySeq DEF IsInjective, Range
<1>4. Range(e) = {} /\ Range(q) = {}
  BY SubSeqEmpty DEF Range, Slice
<1>5. files' = [files EXCEPT ![i] = f, ![j] = g] /\ alloc' = alloc \ {} /\ data' = data
  BY <1>1 DEF TransferRange, MovesOnly
<1> HIDE DEF e
<1>6. /\ f \in FileRecord /\ BlockCount(f.len) = Len(f.blocks) /\ IsInjective(f.blocks)
      /\ Range(f.blocks) = (Holds(i) \ Range(p)) \cup Range(e)
  BY <1>1, <1>3, ReplacedFile
<1> HIDE DEF p
<1>7. /\ g \in FileRecord /\ BlockCount(g.len) = Len(g.blocks) /\ IsInjective(g.blocks)
      /\ Range(g.blocks) = (Holds(j) \ Range(q)) \cup Range(p)
  BY <1>1, <1>2, ReplacedFile
<1> HIDE DEF f, g, q
<1>8. /\ Range(f.blocks) \cap Range(g.blocks) = {} /\ {} \subseteq Holds(i) \cup Holds(j)
      /\ Range(f.blocks) \cup Range(g.blocks) = (Holds(i) \cup Holds(j)) \ {}
  <2>1. Holds(i) \cap Holds(j) = {}
    BY <1>1 DEF FileInv
  <2> QED
    BY <1>2, <1>4, <1>6, <1>7, <2>1
<1>9. /\ f \in FileRecord /\ BlockCount(f.len) = Len(f.blocks) /\ IsInjective(f.blocks)
      /\ g \in FileRecord /\ BlockCount(g.len) = Len(g.blocks) /\ IsInjective(g.blocks)
  BY <1>6, <1>7
<1> QED
  BY <1>1, <1>5, <1>8, <1>9, TwoFileApart

\* All the blocks of a file.
LEMMA WholeSlice ==
  ASSUME FileInv, NEW i \in File
  PROVE  Slice(i, 0, N(i)) = files[i].blocks /\ Range(Slice(i, 0, N(i))) = Holds(i)
<1> DEFINE s == files[i].blocks
<1>1. s \in Seq(Block)
  BY FileFacts
<1>2. SubSeq(s, 1, Len(s)) = s
  <2> HIDE DEF s
  <2> QED
    BY <1>1, SubSeqFull
<1>3. Slice(i, 0, N(i)) = SubSeq(s, 0 + 1, Len(s))
  BY DEF Slice, N
<1>4. 0 + 1 = 1
  OBVIOUS
<1>5. Slice(i, 0, N(i)) = s
  BY <1>2, <1>3, <1>4
<1> QED
  BY <1>5 DEF Holds

\* File i takes over the blocks and the length of file j.
LEMMA TakenOver ==
  ASSUME FileInv, NEW i \in File, NEW j \in File, i # j,
         NEW g, g = [ReplaceRange(files[i], 0, N(i), files[j].blocks) EXCEPT !.len = files[j].len]
  PROVE  /\ g \in FileRecord /\ BlockCount(g.len) = Len(g.blocks)
         /\ IsInjective(g.blocks) /\ Range(g.blocks) = Holds(j)
<1> DEFINE q == files[j].blocks
           n == N(i)
           v == Splice(files[i].blocks, 0, n, q)
           h == ReplaceRange(files[i], 0, n, q)
<1>1. /\ q \in Seq(Block) /\ IsInjective(q) /\ Range(q) \cap Holds(i) = {} /\ n \in Nat
      /\ 0 <= n /\ n <= N(i)
  <2>1. q \in Seq(Block) /\ n \in Nat
    BY FileFacts
  <2>2. IsInjective(q) /\ Range(q) \cap Holds(i) = {}
    BY DEF FileInv, Holds
  <2> QED
    BY <2>1, <2>2
<1>2. Range(q) = Holds(j) /\ Len(q) = N(j)
  BY DEF Holds, N
<1>3. g = [h EXCEPT !.len = files[j].len]
  OBVIOUS
<1> HIDE DEF q, n
<1>4. v \in Seq(Block) /\ IsInjective(v)
  BY <1>1, SplicedFile
<1>5. Len(v) = N(i) - (n - 0) + Len(q)
  <2> DEFINE o == 0
  <2>1. o \in Nat /\ o <= n
    BY <1>1
  <2>2. v = Splice(files[i].blocks, o, n, q)
    OBVIOUS
  <2> HIDE DEF o
  <2>3. Len(Splice(files[i].blocks, o, n, q)) = N(i) - (n - o) + Len(q)
    BY <1>1, <2>1, SplicedFile
  <2> QED
    BY <2>3 DEF o
<1>6. Range(v) = (Holds(i) \ Range(Slice(i, 0, n))) \cup Range(q)
  BY <1>1, SplicedFile
<1>7. h \in FileRecord /\ h.blocks = v
  <2>1. files[i] \in FileRecord /\ BlockCount(files[i].len) = Len(files[i].blocks) /\ n <= Len(files[i].blocks)
    BY <1>1, FileFacts DEF FileInv, N
  <2> QED
    BY <1>1, <2>1, ReplaceRangeFacts
<1> HIDE DEF v, h
<1>8. files[j].len \in Nat /\ BlockCount(files[j].len) = N(j) /\ N(j) \in Nat /\ N(i) \in Nat
  BY FileFacts DEF FileInv, N
<1>9. g \in FileRecord /\ g.blocks = v /\ g.len = files[j].len
  BY <1>3, <1>7, <1>8 DEF FileRecord
<1>10. Len(v) = N(j)
  BY <1>2, <1>5, <1>8 DEF n
<1>11. Range(v) = Holds(j)
  BY <1>2, <1>6, WholeSlice DEF n
<1> QED
  BY <1>4, <1>8, <1>9, <1>10, <1>11

\* exchange_complete_file_blocks_journaled.
LEMMA WholeExchangeApart ==
  ASSUME FileInv, NEW i \in File, NEW j \in File, WholeExchange(i, j)
  PROVE  Apart({i, j})
<1> DEFINE f == [ReplaceRange(files[i], 0, N(i), files[j].blocks) EXCEPT !.len = files[j].len]
           g == [ReplaceRange(files[j], 0, N(j), files[i].blocks) EXCEPT !.len = files[i].len]
<1>1. /\ i # j /\ files' = [files EXCEPT ![i] = f, ![j] = g]
      /\ alloc' = alloc \ {} /\ data' = data
  BY DEF WholeExchange, MovesOnly
<1>2. /\ f \in FileRecord /\ BlockCount(f.len) = Len(f.blocks)
      /\ IsInjective(f.blocks) /\ Range(f.blocks) = Holds(j)
  BY <1>1, TakenOver
<1>3. /\ g \in FileRecord /\ BlockCount(g.len) = Len(g.blocks)
      /\ IsInjective(g.blocks) /\ Range(g.blocks) = Holds(i)
  BY <1>1, TakenOver
<1> HIDE DEF f, g
<1>4. /\ Range(f.blocks) \cap Range(g.blocks) = {} /\ {} \subseteq Holds(i) \cup Holds(j)
      /\ Range(f.blocks) \cup Range(g.blocks) = (Holds(i) \cup Holds(j)) \ {}
  BY <1>1, <1>2, <1>3 DEF FileInv
<1>5. /\ f \in FileRecord /\ BlockCount(f.len) = Len(f.blocks) /\ IsInjective(f.blocks)
      /\ g \in FileRecord /\ BlockCount(g.len) = Len(g.blocks) /\ IsInjective(g.blocks)
  BY <1>2, <1>3
<1> QED
  BY <1>1, <1>4, <1>5, TwoFileApart

\* transfer_replace_complete_file_blocks_journaled.
LEMMA WholeTransferReplaceApart ==
  ASSUME FileInv, NEW i \in File, NEW j \in File, WholeTransferReplace(i, j)
  PROVE  Apart({i, j})
<1> DEFINE e == <<>>
           f == ReplaceRange(files[i], 0, N(i), e)
           g == [ReplaceRange(files[j], 0, N(j), files[i].blocks) EXCEPT !.len = files[i].len]
<1>1. i # j /\ files' = [files EXCEPT ![i] = f, ![j] = g]
  BY DEF WholeTransferReplace
<1>2. alloc' = alloc \ Holds(j) /\ data' = data
  BY DEF WholeTransferReplace, Holds
<1>3. /\ g \in FileRecord /\ BlockCount(g.len) = Len(g.blocks)
      /\ IsInjective(g.blocks) /\ Range(g.blocks) = Holds(i)
  BY <1>1, TakenOver
<1>4. /\ e \in Seq(Block) /\ IsInjective(e) /\ Range(e) \cap Holds(i) = {}
      /\ N(i) \in Nat /\ 0 <= N(i)
  BY EmptySeq, FileFacts DEF IsInjective, Range
<1>5. Range(e) = {}
  BY DEF Range
<1> HIDE DEF e, g
<1>6. /\ f \in FileRecord /\ BlockCount(f.len) = Len(f.blocks) /\ IsInjective(f.blocks)
      /\ Range(f.blocks) = (Holds(i) \ Range(Slice(i, 0, N(i)))) \cup Range(e)
  BY <1>4, ReplacedFile
<1> HIDE DEF f
<1>7. /\ Range(f.blocks) \cap Range(g.blocks) = {} /\ Holds(j) \subseteq Holds(i) \cup Holds(j)
      /\ Range(f.blocks) \cup Range(g.blocks) = (Holds(i) \cup Holds(j)) \ Holds(j)
  <2>1. Range(f.blocks) = {}
    BY <1>5, <1>6, WholeSlice
  <2>2. Holds(i) \cap Holds(j) = {}
    BY <1>1 DEF FileInv
  <2> QED
    BY <1>3, <2>1, <2>2
<1>8. /\ f \in FileRecord /\ BlockCount(f.len) = Len(f.blocks) /\ IsInjective(f.blocks)
      /\ g \in FileRecord /\ BlockCount(g.len) = Len(g.blocks) /\ IsInjective(g.blocks)
  BY <1>3, <1>6
<1> QED
  BY <1>1, <1>2, <1>7, <1>8, TwoFileApart

(***************************************************************************)
(* Writing in place, and changing the end of file.                         *)
(***************************************************************************)
\* The bytes of a file's blocks; the end of file lies among them.
LEMMA PaddedType ==
  ASSUME FileInv, NEW i \in File
  PROVE  /\ Padded(i) \in Seq(Byte) /\ Len(Padded(i)) = BlockSize * N(i)
         /\ BlockSize * N(i) \in Nat /\ files[i].len <= BlockSize * N(i)
<1>1. files[i].blocks \in Seq(Block) /\ data \in [Block -> Image]
  BY FileFacts DEF FileInv
<1>2. Images(files[i].blocks) \in Seq(Image) /\ Len(Images(files[i].blocks)) = N(i)
  BY <1>1, ImagesType DEF N
<1>3. Padded(i) \in Seq(Byte) /\ Len(Padded(i)) = BlockSize * N(i)
  BY <1>2, FlatType DEF Padded
<1>4. files[i].len \in Nat /\ BlockCount(files[i].len) = N(i)
  BY FileFacts DEF FileInv, N
<1>5. files[i].len <= BlockSize * N(i)
  BY <1>4, BlockCountBounds
<1>6. BlockSize * N(i) \in Nat
  BY <1>3, LenProperties
<1> QED
  BY <1>3, <1>5, <1>6

\* ... and those before the end of file.
LEMMA VisibleType ==
  ASSUME FileInv, NEW i \in File
  PROVE  Visible(i) \in Seq(Byte) /\ Len(Visible(i)) = files[i].len
<1> DEFINE s == Padded(i)
           n == files[i].len
<1>1. s \in Seq(Byte) /\ n \in Nat /\ n <= Len(s)
  BY PaddedType, FileFacts
<1>2. SubSeq(s, 1, n) \in Seq(Byte) /\ Len(SubSeq(s, 1, n)) = n
  <2> HIDE DEF s, n
  <2>1. Len(s) \in Nat /\ Len(s) <= Len(s)
    BY <1>1, LenProperties
  <2> QED
    BY <1>1, <2>1, CutInThree
<1> QED
  BY <1>2 DEF Visible

\* The blocks of one file are rewritten.
LEMMA InPlaceApart ==
  ASSUME FileInv, NEW i \in File, NEW d \in Seq(Image), Len(d) = N(i),
         UNCHANGED <<alloc, files>>, data' = Stored(files[i].blocks, d)
  PROVE  Apart({i})
<1> DEFINE f == files[i]
<1>1. f \in FileRecord /\ BlockCount(f.len) = Len(f.blocks) /\ IsInjective(f.blocks)
  BY FileFacts DEF FileInv
<1>2. files' = [files EXCEPT ![i] = f]
  BY DEF FileInv
<1>3. Range(f.blocks) = (Holds(i) \ {}) \cup {} /\ alloc' = (alloc \cup {}) \ {}
  BY DEF Holds
<1>4. data' \in [Block -> Image] /\ \A b \in Block : b \notin Holds(i) \cup {} => data'[b] = data[b]
  <2>1. /\ files[i].blocks \in Seq(Block) /\ data \in [Block -> Image]
        /\ Len(files[i].blocks) <= Len(d)
    BY FileFacts DEF FileInv, N
  <2>2. /\ Stored(files[i].blocks, d) \in [Block -> Image]
        /\ \A b \in Block : b \notin Range(files[i].blocks) => Stored(files[i].blocks, d)[b] = data[b]
    BY <2>1, StoredType
  <2> QED
    BY <2>2 DEF Holds
<1>5. {} \cap alloc = {} /\ {} \subseteq Holds(i)
  OBVIOUS
<1> HIDE DEF f
<1> QED
  BY <1>1, <1>2, <1>3, <1>4, <1>5, OneFileApart

\* write_file_blocks_journaled.
LEMMA OverwriteApart ==
  ASSUME FileInv, NEW i \in File, NEW w, \A n \in DOMAIN w : w[n] \in Image,
         OverwriteBlocks(i, w)
  PROVE  Apart({i})
<1> DEFINE new == [n \in 1 .. N(i) |-> IF n - 1 \in DOMAIN w THEN w[n - 1]
                                       ELSE data[files[i].blocks[n]]]
<1>1. N(i) \in Nat /\ \A x \in 1 .. N(i) : data[files[i].blocks[x]] \in Image
  BY FileFacts DEF FileInv
<1>2. new \in [1 .. N(i) -> Image]
  BY <1>1
<1>3. UNCHANGED <<alloc, files>> /\ data' = Stored(files[i].blocks, new)
  BY DEF OverwriteBlocks
<1> HIDE DEF new
<1>4. new \in Seq(Image) /\ Len(new) = N(i)
  BY <1>1, <1>2, SeqOfFunction
<1> QED
  BY <1>3, <1>4, InPlaceApart

\* Bytes written inside the end of file.
LEMMA WriteAsApart ==
  ASSUME FileInv, NEW i \in File, NEW off \in Nat, NEW d \in Seq(Byte), NEW ref,
         WriteAs(i, off, d, ref)
  PROVE  Apart({i})
<1> DEFINE s == Padded(i)
           z == off + Len(d)
           t == Splice(s, off, z, d)
<1>1. /\ s \in Seq(Byte) /\ Len(s) = BlockSize * N(i) /\ BlockSize * N(i) \in Nat
      /\ files[i].len <= BlockSize * N(i) /\ files[i].len \in Nat /\ N(i) \in Nat
      /\ Len(d) \in Nat
  BY PaddedType, FileFacts, LenProperties
<1>2. z <= files[i].len
  BY DEF WriteAs
<1>3. z \in Nat /\ off <= z /\ z <= Len(s) /\ z - off = Len(d)
  BY <1>1, <1>2
<1>4. UNCHANGED <<alloc, files>> /\ data' = Stored(files[i].blocks, Chunks(t))
  BY DEF WriteAs, RefWrite
<1> HIDE DEF s, z
<1>5. t \in Seq(Byte)
  BY <1>1, <1>3, SpliceMembers
<1>6. Len(t) = Len(s) - (z - off) + Len(d)
  <2>1. s \in Seq(Byte) /\ z \in Nat /\ off <= z /\ z <= Len(s)
    BY <1>1, <1>3
  <2> QED
    BY <2>1, SpliceMembers
<1> HIDE DEF t
<1>7. Len(t) = BlockSize * N(i)
  BY <1>1, <1>3, <1>6
<1>8. Chunks(t) \in Seq(Image) /\ Len(Chunks(t)) = N(i)
  BY <1>1, <1>5, <1>7, ChunksType
<1> QED
  BY <1>4, <1>8, InPlaceApart

\* The file gets fresh blocks s at its end, and the end of file moves into the last
\* of all its blocks, which hold these bytes now.
LEMMA ExtendApart ==
  ASSUME FileInv, NEW i \in File, NEW n \in Nat, n > files[i].len,
         NEW s, s \in Fresh(BlockCount(n) - N(i)),
         NEW bytes \in Seq(Byte), Len(bytes) = BlockSize * BlockCount(n),
         files' = [files EXCEPT ![i] = [blocks |-> files[i].blocks \o s, len |-> n]],
         alloc' = alloc \cup Range(s),
         data' = Stored(files[i].blocks \o s, Chunks(bytes))
  PROVE  Apart({i})
<1> DEFINE t == files[i].blocks
           u == t \o s
           f == [blocks |-> u, len |-> n]
<1>1. /\ t \in Seq(Block) /\ IsInjective(t) /\ Holds(i) = Range(t) /\ Holds(i) \subseteq alloc
      /\ Len(t) = N(i) /\ N(i) \in Nat /\ data \in [Block -> Image]
  BY FileFacts DEF FileInv, N, Holds
<1>2. BlockCount(n) \in Nat /\ BlockCount(n) - N(i) \in Nat
  <2>1. files[i].len \in Nat /\ BlockCount(files[i].len) = N(i)
    BY FileFacts DEF FileInv, N
  <2>2. files[i].len <= n
    BY <2>1
  <2>3. BlockCount(n) \in Nat /\ BlockCount(files[i].len) <= BlockCount(n)
    BY <2>1, <2>2, BlockCountOrder, BlockCountBounds
  <2> QED
    BY <1>1, <2>1, <2>3
<1>3. s \in Seq(Block) /\ Len(s) = BlockCount(n) - N(i) /\ IsInjective(s) /\ Range(s) \cap alloc = {}
  BY <1>2, FreshFacts
<1>4. /\ files' = [files EXCEPT ![i] = f] /\ data' = Stored(u, Chunks(bytes))
      /\ alloc' = (alloc \cup Range(s)) \ {}
  OBVIOUS
<1> HIDE DEF t
<1>5. Range(u) = Range(t) \cup Range(s) /\ IsInjective(u)
  <2>1. Range(t) \cap Range(s) = {}
    BY <1>1, <1>3
  <2> QED
    BY <1>1, <1>3, <2>1, ConcatMembers
<1>6. u \in Seq(Block) /\ Len(u) = Len(t) + Len(s)
  BY <1>1, <1>3, ConcatProperties
<1> HIDE DEF u
<1>7. Len(u) = BlockCount(n)
  BY <1>1, <1>2, <1>3, <1>6
<1>8. f \in FileRecord /\ f.blocks = u /\ f.len = n
  BY <1>6 DEF FileRecord
<1> HIDE DEF f
<1>9. Chunks(bytes) \in Seq(Image) /\ Len(u) <= Len(Chunks(bytes))
  <2>1. Chunks(bytes) \in Seq(Image) /\ Len(Chunks(bytes)) = BlockCount(n)
    BY <1>2, ChunksType
  <2> QED
    BY <1>2, <1>7, <2>1
<1>10. data' \in [Block -> Image] /\ \A b \in Block : b \notin Range(u) => data'[b] = data[b]
  <2> DEFINE d == Chunks(bytes)
  <2> HIDE DEF d
  <2>1. d \in Seq(Image) /\ Len(u) <= Len(d) /\ data' = Stored(u, d)
    BY <1>4, <1>9 DEF d
  <2>2. Stored(u, d) \in [Block -> Image] /\ \A b \in Block : b \notin Range(u) => Stored(u, d)[b] = data[b]
    BY <1>1, <1>6, <2>1, StoredType
  <2> QED
    BY <2>1, <2>2
<1>11. /\ Range(f.blocks) = (Holds(i) \ {}) \cup Range(s) /\ {} \subseteq Holds(i)
       /\ BlockCount(f.len) = Len(f.blocks) /\ IsInjective(f.blocks)
       /\ \A b \in Block : b \notin Holds(i) \cup Range(s) => data'[b] = data[b]
  BY <1>1, <1>5, <1>7, <1>8, <1>10
<1>12. f \in FileRecord /\ Range(s) \cap alloc = {} /\ data' \in [Block -> Image]
  BY <1>3, <1>8, <1>10
<1> QED
  BY <1>4, <1>11, <1>12, OneFileApart

\* grow_file_to_bytes_journaled.
LEMMA GrowToBytesApart ==
  ASSUME FileInv, NEW i \in File, NEW n \in Nat, NEW s, GrowToBytes(i, n, s)
  PROVE  Apart({i})
<1> DEFINE l == ZeroTail(Padded(i), files[i].len)
           r == Zeros(BlockSize * Len(s))
           bytes == l \o r
<1>1. BlockSize \in Nat /\ N(i) \in Nat /\ BlockSize * N(i) \in Nat /\ files[i].len \in Nat
  BY GeometryAssumption, PaddedType, FileFacts
<1>2. BlockCount(n) \in Nat /\ BlockCount(n) - N(i) \in Nat
  <2>1. BlockCount(files[i].len) = N(i) /\ files[i].len <= n
    BY <1>1 DEF FileInv, N, GrowToBytes
  <2> QED
    BY <1>1, <2>1, BlockCountOrder, BlockCountBounds
<1>3. Len(s) = BlockCount(n) - N(i)
  BY <1>2, FreshFacts DEF GrowToBytes
<1>4. l \in Seq(Byte) /\ Len(l) = BlockSize * N(i)
  BY <1>1, PaddedType, ZeroTailType
<1>5. BlockSize * Len(s) \in Nat /\ BlockSize * N(i) + BlockSize * Len(s) = BlockSize * BlockCount(n)
  <2> DEFINE m == BlockCount(n)
             k == N(i)
  <2> HIDE DEF m, k
  <2>1. BlockSize * (m - k) \in Nat /\ BlockSize * k + BlockSize * (m - k) = BlockSize * m
    BY <1>1, <1>2, SMT DEF m, k
  <2> QED
    BY <1>3, <2>1 DEF m, k
<1>6. r \in Seq(Byte) /\ Len(r) = BlockSize * Len(s)
  BY <1>5, ZerosType
<1>7. /\ n > files[i].len /\ s \in Fresh(BlockCount(n) - N(i))
      /\ files' = [files EXCEPT ![i] = [blocks |-> files[i].blocks \o s, len |-> n]]
      /\ alloc' = alloc \cup Range(s)
      /\ data' = Stored(files[i].blocks \o s, Chunks(bytes))
  BY DEF GrowToBytes
<1> HIDE DEF l, r
<1>8. bytes \in Seq(Byte) /\ Len(bytes) = Len(l) + Len(r)
  BY <1>4, <1>6, ConcatProperties
<1> HIDE DEF bytes
<1>9. Len(bytes) = BlockSize * BlockCount(n)
  BY <1>4, <1>5, <1>6, <1>8
<1> QED
  BY <1>7, <1>8, <1>9, ExtendApart

\* write_file_range_extending_journaled.
LEMMA ExtendingWriteApart ==
  ASSUME FileInv, NEW i \in File, NEW off \in Nat, NEW d \in Seq(Byte), NEW s,
         ExtendingWrite(i, off, d, s)
  PROVE  Apart({i})
<1>1. CASE WriteRange(i, off, d)
  BY <1>1, WriteAsApart DEF WriteRange
<1>2. CASE ~ WriteRange(i, off, d)
  <2> DEFINE n == off + Len(d)
             old == Padded(i)
             eof == files[i].len
             bytes == ExtendedBytes(old, eof, off, d)
             m == BlockSize * BlockCount(n)
  <2>1. /\ n \in Nat /\ Len(d) \in Nat /\ eof \in Nat /\ m \in Nat
        /\ old \in Seq(Byte) /\ eof <= Len(old) /\ Len(old) \in Nat
    <3>1. n \in Nat /\ Len(d) \in Nat
      BY LenProperties
    <3>2. eof \in Nat /\ old \in Seq(Byte) /\ eof <= Len(old) /\ Len(old) \in Nat
      BY FileFacts, PaddedType
    <3>3. m \in Nat
      <4>1. BlockCount(n) \in Nat /\ BlockSize \in Nat
        BY <3>1, BlockCountBounds, GeometryAssumption
      <4> QED
        BY <4>1, SMT
    <3> QED
      BY <3>1, <3>2, <3>3
  <2>2. ASSUME NEW p \in 1 .. m
        PROVE  (CASE p > off /\ p <= n -> d[p - off]
                  [] p <= off /\ p <= eof -> old[p]
                  [] OTHER -> 0) \in Byte
    <3> HIDE DEF n, old, eof, m
    <3>1. CASE p > off /\ p <= n
      <4>1. p - off \in 1 .. Len(d)
        BY <2>1, <3>1 DEF n
      <4>2. d[p - off] \in Byte /\ ~ (p <= off)
        BY <2>1, <3>1, <4>1, ElementOfSeq
      <4> QED
        BY <3>1, <4>2
    <3>2. CASE p <= off /\ p <= eof
      <4>1. p \in 1 .. Len(old) /\ ~ (p > off)
        BY <2>1, <3>2
      <4>2. old[p] \in Byte
        BY <2>1, <4>1, ElementOfSeq
      <4> QED
        BY <3>2, <4>1, <4>2
    <3>3. CASE ~ (p > off /\ p <= n) /\ ~ (p <= off /\ p <= eof)
      BY <3>3, ByteAssumption
    <3> QED
      BY <3>1, <3>2, <3>3
  <2>3. bytes \in [1 .. m -> Byte]
    BY <2>2 DEF ExtendedBytes
  <2>4. /\ n > files[i].len /\ s \in Fresh(BlockCount(n) - N(i))
        /\ files' = [files EXCEPT ![i] = [blocks |-> files[i].blocks \o s, len |-> n]]
        /\ alloc' = alloc \cup Range(s)
        /\ data' = Stored(files[i].blocks \o s, Chunks(bytes))
    BY <1>2 DEF ExtendingWrite
  <2> HIDE DEF bytes, n, old, eof
  <2>5. bytes \in Seq(Byte) /\ Len(bytes) = m
    <3> HIDE DEF m
    <3> QED
      BY <2>1, <2>3, SeqOfFunction
  <2> QED
    BY <2>1, <2>4, <2>5, ExtendApart
<1> QED
  BY <1>1, <1>2

\* truncate_file_to_bytes_journaled.
LEMMA TruncateToBytesApart ==
  ASSUME FileInv, NEW i \in File, NEW n \in Nat, TruncateToBytes(i, n)
  PROVE  Apart({i})
<1> DEFINE m == BlockCount(n)
           k == N(i)
           e == <<>>
           h == ReplaceRange(files[i], m, k, e)
           f == [h EXCEPT !.len = n]
           v == Splice(files[i].blocks, m, k, e)
           gone == Slice(i, m, k)
           kept == Slice(i, 0, m)
           old == SubSeq(Padded(i), 1, BlockSize * m)
           d == Chunks(ZeroTail(old, n))
<1>1. /\ files' = [files EXCEPT ![i] = f] /\ alloc' = (alloc \cup {}) \ Range(gone)
      /\ data' = Stored(kept, d)
  BY DEF TruncateToBytes
<1>2. /\ m \in Nat /\ k \in Nat /\ m <= k /\ k <= N(i) /\ 0 <= m /\ m <= N(i)
  <2>1. files[i].len \in Nat /\ BlockCount(files[i].len) = N(i) /\ n <= files[i].len /\ N(i) \in Nat
    BY FileFacts DEF FileInv, N, TruncateToBytes
  <2>2. m \in Nat /\ m <= BlockCount(files[i].len)
    BY <2>1, BlockCountOrder, BlockCountBounds
  <2> QED
    BY <2>1, <2>2
<1>3. e \in Seq(Block) /\ Len(e) = 0
  BY EmptySeq
<1> HIDE DEF m
<1>4. v \in Seq(Block) /\ IsInjective(v)
  BY <1>2, CutFile
<1>5. Range(v) = Holds(i) \ Range(gone)
  BY <1>2, CutFile
<1>6. Len(v) = m
  <2>1. Len(v) = N(i) - (k - m)
    BY <1>2, CutFile
  <2> QED
    BY <1>2, <2>1
<1> HIDE DEF e
<1>7. h \in FileRecord /\ h.blocks = v
  <2>1. files[i] \in FileRecord /\ BlockCount(files[i].len) = Len(files[i].blocks) /\ k <= Len(files[i].blocks)
    BY FileFacts DEF FileInv, N
  <2> HIDE DEF k
  <2>2. e \in Seq(Block) /\ m \in Nat /\ k \in Nat /\ m <= k
    BY <1>2, <1>3
  <2> QED
    BY <2>1, <2>2, ReplaceRangeFacts
<1> HIDE DEF h, v
<1>8. f \in FileRecord /\ f.blocks = v /\ f.len = n
  BY <1>7 DEF FileRecord
<1> HIDE DEF f
<1>9. gone \in Seq(Block) /\ Range(gone) \subseteq Holds(i)
  BY <1>2, SliceFacts
<1>10. kept \in Seq(Block) /\ Range(kept) \subseteq Holds(i) /\ Len(kept) = m
  <2>1. Len(kept) = m - 0
    BY <1>2, SliceFacts
  <2> QED
    BY <1>2, <2>1, SliceFacts
<1>11. d \in Seq(Image) /\ Len(d) = m
  <2> DEFINE b == BlockSize * m
             s == Padded(i)
             t == ZeroTail(old, n)
  <2>1. /\ s \in Seq(Byte) /\ Len(s) = BlockSize * N(i) /\ b \in Nat /\ b <= Len(s)
    <3>1. BlockSize \in Nat /\ N(i) \in Nat
      BY GeometryAssumption, FileFacts
    <3>2. b <= BlockSize * N(i) /\ b \in Int /\ b >= 0
      BY <1>2, <3>1, ScaledOrder, SMT
    <3>3. s \in Seq(Byte) /\ Len(s) = BlockSize * N(i)
      BY PaddedType
    <3> QED
      BY <3>2, <3>3
  <2> HIDE DEF b, s
  <2>2. SubSeq(s, 1, b) \in Seq(Byte) /\ Len(SubSeq(s, 1, b)) = b
    <3>1. s \in Seq(Byte) /\ b \in Nat /\ b <= Len(s) /\ b <= b
      BY <2>1
    <3> QED
      BY <3>1, CutInThree
  <2>3. old = SubSeq(s, 1, b)
    BY DEF b, s
  <2> HIDE DEF old
  <2>4. t \in Seq(Byte) /\ Len(t) = b
    BY <2>2, <2>3, ZeroTailType
  <2> HIDE DEF t
  <2>5. Chunks(t) \in Seq(Image) /\ Len(Chunks(t)) = m
    BY <1>2, <2>4, ChunksType DEF b
  <2> QED
    BY <2>5 DEF t
<1> HIDE DEF d, gone, kept
<1>12. /\ data' \in [Block -> Image]
       /\ \A b \in Block : b \notin Holds(i) \cup {} => data'[b] = data[b]
  <2>1. data \in [Block -> Image] /\ Len(kept) <= Len(d)
    BY <1>2, <1>10, <1>11 DEF FileInv
  <2>2. Stored(kept, d) \in [Block -> Image] /\ \A b \in Block : b \notin Range(kept) => Stored(kept, d)[b] = data[b]
    BY <1>10, <1>11, <2>1, StoredType
  <2> QED
    BY <1>1, <1>10, <2>2
<1>13. /\ BlockCount(f.len) = Len(f.blocks) /\ IsInjective(f.blocks) /\ {} \cap alloc = {}
       /\ Range(f.blocks) = (Holds(i) \ Range(gone)) \cup {}
  BY <1>4, <1>5, <1>6, <1>8 DEF m
<1> QED
  BY <1>1, <1>8, <1>9, <1>12, <1>13, OneFileApart

(***************************************************************************)
(* What a file contains.                                                   *)
(***************************************************************************)
\* The contents of inode f, as the data blocks D have them.
Content(D, f) == [bytes |-> Flat(ImagesIn(D, f.blocks)), eof |-> f.len]

\* The reference is what the files contain.
ContentInv == ideal = [i \in File |-> Content(data, files[i])]

\* The step keeps the invariant, changes the files of S at most, and leaves in them
\* what the reference says.
Confined(S) == Apart(S) /\ (ContentInv => ContentInv')

\* The invariant, read at one file.
LEMMA ContentAt ==
  ASSUME ContentInv, NEW i \in File
  PROVE  /\ ideal[i] = Content(data, files[i])
         /\ ideal[i].bytes = Padded(i) /\ ideal[i].eof = files[i].len
BY DEF ContentInv, Content, Padded, Images, ImagesIn

\* The bytes of a vector of blocks, counted.
LEMMA BytesOfBlocks ==
  ASSUME NEW D \in [Block -> Image], NEW s \in Seq(Block)
  PROVE  /\ Flat(ImagesIn(D, s)) \in Seq(Byte)
         /\ Len(Flat(ImagesIn(D, s))) = BlockSize * Len(s)
         /\ Flat(ImagesIn(D, s)) = <<>> <=> s = <<>>
<1> DEFINE d == ImagesIn(D, s)
           u == Flat(d)
           n == Len(s)
<1>1. d \in Seq(Image) /\ Len(d) = n
  BY ImagesInType
<1> HIDE DEF d
<1>2. u \in Seq(Byte) /\ Len(u) = BlockSize * n
  BY <1>1, FlatType
<1> HIDE DEF u
<1>3. (u = <<>> <=> Len(u) = 0) /\ (s = <<>> <=> n = 0)
  BY <1>2, EmptySeq
<1>4. BlockSize \in Nat \ {0} /\ n \in Nat
  BY GeometryAssumption, LenProperties
<1> HIDE DEF n
<1>5. BlockSize * n = 0 <=> n = 0
  BY <1>4, SMT
<1> QED
  BY <1>2, <1>3, <1>5 DEF u, d, n

\* PersistedInode::replace_block_range, seen as bytes.
LEMMA ReplacedContent ==
  ASSUME NEW D \in [Block -> Image], NEW f \in FileRecord, NEW a \in Nat, NEW z \in Nat,
         a <= z, z <= Len(f.blocks), NEW new \in Seq(Block)
  PROVE  Content(D, ReplaceRange(f, a, z, new)) =
           RefSplice(Content(D, f), a, z, Flat(ImagesIn(D, new)))
<1> DEFINE t == f.blocks
           blocks == Splice(t, a, z, new)
           bytes == Flat(ImagesIn(D, t))
           e == Flat(ImagesIn(D, new))
           all == Splice(bytes, BlockSize * a, BlockSize * z, e)
<1>1. t \in Seq(Block) /\ z <= Len(t) /\ f.len \in Nat
  BY DEF FileRecord
<1>2. ReplaceRange(f, a, z, new) =
        [blocks |-> blocks,
         len |-> IF blocks = <<>> THEN 0 ELSE BlockSize * Len(blocks) - (BlockSize * Len(t) - f.len)]
  BY DEF ReplaceRange
<1>3. RefSplice(Content(D, f), a, z, e) =
        [bytes |-> all, eof |-> IF all = <<>> THEN 0 ELSE Len(all) - (Len(bytes) - f.len)]
  BY DEF RefSplice, Content
<1> HIDE DEF t
<1>4. blocks \in Seq(Block)
  BY <1>1, SpliceMembers
<1>5. Flat(ImagesIn(D, blocks)) = all
  BY <1>1, SplicedBytes
<1>6. Len(bytes) = BlockSize * Len(t)
  BY <1>1, BytesOfBlocks
<1> HIDE DEF blocks, bytes, e, all
<1>7. Len(all) = BlockSize * Len(blocks) /\ (all = <<>> <=> blocks = <<>>)
  BY <1>4, <1>5, BytesOfBlocks
<1>8. Content(D, ReplaceRange(f, a, z, new)) =
        [bytes |-> Flat(ImagesIn(D, blocks)),
         eof |-> IF blocks = <<>> THEN 0 ELSE BlockSize * Len(blocks) - (BlockSize * Len(t) - f.len)]
  BY <1>2 DEF Content
<1>9. Content(D, ReplaceRange(f, a, z, new)) = RefSplice(Content(D, f), a, z, e)
  BY <1>3, <1>5, <1>6, <1>7, <1>8
<1> QED
  BY <1>9 DEF e

\* The bytes of a range of a file's blocks.
LEMMA RangeBytes ==
  ASSUME FileInv, ContentInv, NEW i \in File, NEW a \in Nat, NEW z \in Nat, a <= z, z <= N(i)
  PROVE  RefBlocks(i, a, z) = Flat(ImagesIn(data, Slice(i, a, z)))
<1> DEFINE s == files[i].blocks
           d == ImagesIn(data, s)
<1>1. s \in Seq(Block) /\ data \in [Block -> Image] /\ z <= Len(s)
  BY FileFacts DEF FileInv, N
<1>2. RefBlocks(i, a, z) = SubSeq(Flat(d), BlockSize * a + 1, BlockSize * z)
  <2>1. ideal[i].bytes = Flat(d)
    <3>1. ideal[i] = Content(data, files[i])
      BY ContentAt
    <3>2. Content(data, files[i]).bytes = Flat(d)
      BY DEF Content
    <3> QED
      BY <3>1, <3>2
  <2> HIDE DEF d
  <2> QED
    BY <2>1 DEF RefBlocks
<1>3. Slice(i, a, z) = SubSeq(s, a + 1, z)
  BY DEF Slice
<1> HIDE DEF s
<1>4. d \in Seq(Image) /\ Len(d) = Len(s)
  BY <1>1, ImagesInType
<1>5. ImagesIn(data, SubSeq(s, a + 1, z)) = SubSeq(d, a + 1, z)
  BY <1>1, ImagesRange
<1> HIDE DEF d
<1>6. z <= Len(d)
  BY <1>1, <1>4
<1>7. Flat(SubSeq(d, a + 1, z)) = SubSeq(Flat(d), BlockSize * a + 1, BlockSize * z)
  BY <1>4, <1>6, FlatRange
<1> QED
  BY <1>2, <1>3, <1>5, <1>7

\* A file that a step leaves alone keeps its contents.
LEMMA SameContent ==
  ASSUME NEW j \in File, Same(j)
  PROVE  Content(data', files'[j]) = Content(data, files[j])
<1>1. ImagesIn(data', files[j].blocks) = ImagesIn(data, files[j].blocks)
  BY ImagesAgree DEF Same, Holds
<1> QED
  BY <1>1 DEF Content, Same

\* One file changes, and the reference follows.
LEMMA OneContent ==
  ASSUME ContentInv, NEW i \in File, Apart({i}), NEW c, c = Content(data', files'[i]),
         ideal' = [ideal EXCEPT ![i] = c]
  PROVE  ContentInv'
<1>1. \A j \in File \ {i} : Content(data', files'[j]) = Content(data, files[j])
  BY SameContent DEF Apart
<1>2. ideal' = [j \in File |-> IF j = i THEN c ELSE Content(data, files[j])]
  BY DEF ContentInv
<1>3. ideal' = [j \in File |-> Content(data', files'[j])]
  BY <1>1, <1>2
<1> QED
  BY <1>3 DEF ContentInv

\* Two files change, and the reference follows.
LEMMA TwoContent ==
  ASSUME ContentInv, NEW i \in File, NEW j \in File, i # j, Apart({i, j}),
         NEW c, c = Content(data', files'[i]), NEW e, e = Content(data', files'[j]),
         ideal' = [ideal EXCEPT ![i] = c, ![j] = e]
  PROVE  ContentInv'
<1>1. \A k \in File \ {i, j} : Content(data', files'[k]) = Content(data, files[k])
  BY SameContent DEF Apart
<1>2. ideal' = [k \in File |-> IF k = i THEN c ELSE IF k = j THEN e ELSE Content(data, files[k])]
  BY DEF ContentInv
<1>3. ideal' = [k \in File |-> Content(data', files'[k])]
  BY <1>1, <1>2
<1> QED
  BY <1>3 DEF ContentInv

\* The common form of the block operations.
LEMMA RewriteStep ==
  ASSUME FileInv, NEW i \in File, NEW a \in Nat, NEW z \in Nat, a <= z, z <= N(i),
         NEW s, NEW d, NEW bytes, Brings(s, d), Rewrite(i, a, z, s, d, bytes),
         ContentInv => bytes = Flat(d)
  PROVE  Confined({i})
<1>0. Apart({i})
  BY RewriteApart
<1> SUFFICES ASSUME ContentInv PROVE ContentInv'
  BY <1>0 DEF Confined
<1> DEFINE f == files[i]
           t == f.blocks
           c == RefSplice(ideal[i], a, z, bytes)
<1>1. f \in FileRecord /\ t \in Seq(Block) /\ z <= Len(t) /\ data \in [Block -> Image]
  BY FileFacts DEF FileInv, N
<1>2. s \in Seq(Block) /\ IsInjective(s) /\ d \in Seq(Image) /\ Len(s) = Len(d) /\ Len(s) <= Len(d)
  BY LenProperties DEF Brings
<1>3. data' = Stored(s, d) /\ ideal' = [ideal EXCEPT ![i] = c]
  BY DEF Rewrite
<1>4. files'[i] = ReplaceRange(f, a, z, s)
  BY DEF Rewrite, FileInv
<1>5. data' \in [Block -> Image] /\ \A b \in Block : b \notin Range(s) => data'[b] = data[b]
  BY <1>1, <1>2, <1>3, StoredType
<1>6. ImagesIn(data', s) = d
  BY <1>1, <1>2, <1>3, StoredImages
<1>7. Content(data', f) = ideal[i]
  <2>1. Range(t) \subseteq Block /\ Range(t) \cap Range(s) = {}
    <3>1. Range(t) \subseteq alloc /\ alloc \subseteq Block
      BY FileFacts DEF Holds
    <3> QED
      BY <3>1 DEF Brings
  <2>2. ImagesIn(data', t) = ImagesIn(data, t)
    BY <1>5, <2>1, ImagesAgree
  <2> QED
    BY <2>2, ContentAt DEF Content
<1> HIDE DEF f
<1>8. Content(data', ReplaceRange(f, a, z, s)) = RefSplice(Content(data', f), a, z, Flat(ImagesIn(data', s)))
  BY <1>1, <1>2, <1>5, ReplacedContent
<1>a. bytes = Flat(d)
  OBVIOUS
<1>9. c = Content(data', files'[i])
  BY <1>a, <1>4, <1>6, <1>7, <1>8
<1> HIDE DEF c
<1> QED
  BY <1>3, <1>9, <1>0, OneContent

\* The images the caller gives.
LEMMA EditStep ==
  ASSUME FileInv, NEW i \in File, NEW a \in Nat, NEW z \in Nat, a <= z, z <= N(i),
         NEW s, NEW d, Brings(s, d), Edit(i, a, z, s, d)
  PROVE  Confined({i})
<1> DEFINE bytes == Flat(d)
<1>1. Rewrite(i, a, z, s, d, bytes) /\ bytes = Flat(d)
  BY DEF Edit
<1> HIDE DEF bytes
<1> QED
  BY <1>1, RewriteStep

\* Copies of a range of one file take the place of a range of the same or another,
\* and the reference copies its own bytes.
LEMMA CopyingStep ==
  ASSUME FileInv, NEW i \in File, NEW a \in Nat, NEW z \in Nat, a < z, z <= N(i),
         NEW j \in File, NEW b \in Nat, NEW y \in Nat,
         NEW s, s \in Fresh(z - a) \/ s \in FreshRun(z - a), Copying(i, a, z, j, b, y, s)
  PROVE  Confined({j})
<1> DEFINE d == Copies(i, a, z)
           bytes == RefBlocks(i, a, z)
<1>1. a <= z /\ z - a \in Nat
  OBVIOUS
<1>2. Slice(i, a, z) \in Seq(Block) /\ Len(Slice(i, a, z)) = z - a /\ d \in Seq(Image)
  BY <1>1, SliceFacts
<1>3. Len(d) = z - a
  <2>1. Len(Images(Slice(i, a, z))) = Len(Slice(i, a, z))
    BY <1>2, ImagesType DEF FileInv
  <2> QED
    BY <1>2, <2>1 DEF Copies
<1>4. ASSUME ContentInv PROVE bytes = Flat(d)
  <2>1. bytes = Flat(ImagesIn(data, Slice(i, a, z)))
    BY <1>1, <1>4, RangeBytes
  <2>2. d = ImagesIn(data, Slice(i, a, z))
    BY DEF Copies, Images, ImagesIn
  <2> QED
    BY <2>1, <2>2
<1>5. b <= y /\ y <= N(j) /\ Rewrite(j, b, y, s, d, bytes)
  BY DEF Copying
<1>6. s \in Seq(Block) /\ Len(s) = z - a /\ IsInjective(s) /\ Range(s) \cap alloc = {}
  BY <1>1, FreshFacts
<1> HIDE DEF d, bytes
<1>7. Brings(s, d)
  BY <1>2, <1>3, <1>6 DEF Brings
<1> QED
  BY <1>4, <1>5, <1>7, RewriteStep

(***************************************************************************)
(* Moving blocks within and between files.                                 *)
(***************************************************************************)
\* No blocks, no bytes.
LEMMA EmptyContent ==
  ASSUME NEW D \in [Block -> Image]
  PROVE  Flat(ImagesIn(D, <<>>)) = <<>>
BY BytesOfBlocks, EmptySeq

\* A range of a file replaced by one of the same or another file.
LEMMA TakenRange ==
  ASSUME FileInv, ContentInv, NEW i \in File, NEW a \in Nat, NEW z \in Nat, a <= z, z <= N(i),
         NEW j \in File, NEW b \in Nat, NEW y \in Nat, b <= y, y <= N(j)
  PROVE  Content(data, ReplaceRange(files[i], a, z, Slice(j, b, y))) =
           RefSplice(ideal[i], a, z, RefBlocks(j, b, y))
<1> DEFINE f == files[i]
           q == Slice(j, b, y)
<1>1. f \in FileRecord /\ z <= Len(f.blocks) /\ data \in [Block -> Image] /\ ideal[i] = Content(data, f)
  BY FileFacts, ContentAt DEF FileInv, N
<1>2. q \in Seq(Block)
  BY SliceFacts
<1>3. RefBlocks(j, b, y) = Flat(ImagesIn(data, q))
  BY RangeBytes
<1> HIDE DEF f, q
<1>4. Content(data, ReplaceRange(f, a, z, q)) = RefSplice(Content(data, f), a, z, Flat(ImagesIn(data, q)))
  BY <1>1, <1>2, ReplacedContent
<1>5. Content(data, ReplaceRange(f, a, z, q)) = RefSplice(ideal[i], a, z, RefBlocks(j, b, y))
  BY <1>1, <1>3, <1>4
<1> QED
  BY <1>5 DEF f, q

\* Replacing a range by as many blocks leaves the end of file where it is.
LEMMA EqualReplacement ==
  ASSUME NEW f \in FileRecord, NEW a \in Nat, NEW z \in Nat, a < z, z <= Len(f.blocks),
         NEW new \in Seq(Block), Len(new) = z - a
  PROVE  ReplaceRange(f, a, z, new) = [blocks |-> Splice(f.blocks, a, z, new), len |-> f.len]
<1> DEFINE t == f.blocks
           blocks == Splice(t, a, z, new)
           n == Len(t)
<1>1. t \in Seq(Block) /\ f.len \in Nat /\ n \in Nat /\ z <= n /\ a <= z
  BY LenProperties DEF FileRecord
<1>2. ReplaceRange(f, a, z, new) =
        [blocks |-> blocks,
         len |-> IF blocks = <<>> THEN 0 ELSE BlockSize * Len(blocks) - (BlockSize * n - f.len)]
  BY DEF ReplaceRange
<1> HIDE DEF t
<1>3. blocks \in Seq(Block)
  BY <1>1, SpliceMembers
<1>4. Len(blocks) = n
  <2>1. Len(blocks) = n - (z - a) + Len(new)
    BY <1>1, SpliceMembers
  <2> QED
    BY <1>1, <2>1
<1> HIDE DEF blocks, n
<1>5. blocks # <<>>
  <2>1. Len(blocks) # 0
    BY <1>1, <1>4
  <2> QED
    BY <2>1, EmptySeq
<1>6. BlockSize * n - (BlockSize * n - f.len) = f.len
  <2>1. BlockSize * n \in Int
    BY <1>1, GeometryAssumption, SMT
  <2> QED
    BY <1>1, <2>1
<1> QED
  BY <1>2, <1>4, <1>5, <1>6 DEF blocks, t

\* Ranges of two files change places, whatever their lengths.
LEMMA ExchangeVariableStep ==
  ASSUME FileInv, NEW i \in File, NEW j \in File, NEW a \in Nat, NEW z \in Nat,
         NEW b \in Nat, NEW y \in Nat, ExchangeVariable(i, a, z, j, b, y)
  PROVE  Confined({i, j})
<1>0. Apart({i, j})
  BY ExchangeVariableApart
<1> SUFFICES ASSUME ContentInv PROVE ContentInv'
  BY <1>0 DEF Confined
<1> DEFINE c == RefSplice(ideal[i], a, z, RefBlocks(j, b, y))
           e == RefSplice(ideal[j], b, y, RefBlocks(i, a, z))
<1>1. i # j /\ a <= z /\ b <= y /\ z <= N(i) /\ y <= N(j) /\ data' = data
  BY DEF ExchangeVariable, MovesOnly
<1>2. ideal' = [ideal EXCEPT ![i] = c, ![j] = e]
  BY <1>1 DEF ExchangeVariable
<1>3. /\ files'[i] = ReplaceRange(files[i], a, z, Slice(j, b, y))
      /\ files'[j] = ReplaceRange(files[j], b, y, Slice(i, a, z))
  BY <1>1 DEF ExchangeVariable, FileInv
<1>4. c = Content(data', files'[i])
  BY <1>1, <1>3, TakenRange
<1>5. e = Content(data', files'[j])
  BY <1>1, <1>3, TakenRange
<1> HIDE DEF c, e
<1> QED
  BY <1>1, <1>2, <1>4, <1>5, <1>0, TwoContent

\* Ranges of equal length change places.
LEMMA ExchangeRangesStep ==
  ASSUME FileInv, NEW i \in File, NEW j \in File, NEW a \in Nat, NEW b \in Nat,
         NEW n \in Nat, ExchangeRanges(i, a, j, b, n)
  PROVE  Confined({i, j})
<1>0. Apart({i, j})
  BY ExchangeRangesApart
<1> SUFFICES ASSUME ContentInv PROVE ContentInv'
  BY <1>0 DEF Confined
<1> DEFINE z == a + n
           y == b + n
           c == RefSplice(ideal[i], a, z, RefBlocks(j, b, y))
           e == RefSplice(ideal[j], b, y, RefBlocks(i, a, z))
<1>1. /\ i # j /\ a < z /\ b < y /\ a <= z /\ b <= y /\ z <= N(i) /\ y <= N(j)
      /\ z \in Nat /\ y \in Nat /\ data' = data
  BY DEF ExchangeRanges, MovesOnly
<1>2. ideal' = [ideal EXCEPT ![i] = c, ![j] = e]
  BY <1>1 DEF ExchangeRanges
<1>3. /\ files'[i] = [files[i] EXCEPT !.blocks = Splice(@, a, z, Slice(j, b, y))]
      /\ files'[j] = [files[j] EXCEPT !.blocks = Splice(@, b, y, Slice(i, a, z))]
  BY <1>1 DEF ExchangeRanges, FileInv
<1>4. z - a = n /\ y - b = n
  OBVIOUS
<1> HIDE DEF z, y
<1>5. Slice(j, b, y) \in Seq(Block) /\ Len(Slice(j, b, y)) = n
  <2>1. Len(Slice(j, b, y)) = y - b
    BY <1>1, SliceFacts
  <2> QED
    BY <1>1, <1>4, <2>1, SliceFacts
<1>6. Slice(i, a, z) \in Seq(Block) /\ Len(Slice(i, a, z)) = n
  <2>1. Len(Slice(i, a, z)) = z - a
    BY <1>1, SliceFacts
  <2> QED
    BY <1>1, <1>4, <2>1, SliceFacts
<1>7. files'[i] = ReplaceRange(files[i], a, z, Slice(j, b, y))
  <2> DEFINE f == files[i]
             q == Slice(j, b, y)
  <2>1. f \in FileRecord /\ z <= Len(f.blocks) /\ q \in Seq(Block) /\ Len(q) = z - a
    BY <1>1, <1>4, <1>5, FileFacts DEF N
  <2>2. files'[i] = [f EXCEPT !.blocks = Splice(@, a, z, q)]
    BY <1>3
  <2> HIDE DEF f, q
  <2>3. ReplaceRange(f, a, z, q) = [blocks |-> Splice(f.blocks, a, z, q), len |-> f.len]
    BY <1>1, <2>1, EqualReplacement
  <2>4. [f EXCEPT !.blocks = Splice(@, a, z, q)] = [blocks |-> Splice(f.blocks, a, z, q), len |-> f.len]
    BY <2>1 DEF FileRecord
  <2>5. files'[i] = ReplaceRange(f, a, z, q)
    BY <2>2, <2>3, <2>4
  <2> QED
    BY <2>5 DEF f, q
<1>8. files'[j] = ReplaceRange(files[j], b, y, Slice(i, a, z))
  <2> DEFINE f == files[j]
             q == Slice(i, a, z)
  <2>1. f \in FileRecord /\ y <= Len(f.blocks) /\ q \in Seq(Block) /\ Len(q) = y - b
    BY <1>1, <1>4, <1>6, FileFacts DEF N
  <2>2. files'[j] = [f EXCEPT !.blocks = Splice(@, b, y, q)]
    BY <1>3
  <2> HIDE DEF f, q
  <2>3. ReplaceRange(f, b, y, q) = [blocks |-> Splice(f.blocks, b, y, q), len |-> f.len]
    BY <1>1, <2>1, EqualReplacement
  <2>4. [f EXCEPT !.blocks = Splice(@, b, y, q)] = [blocks |-> Splice(f.blocks, b, y, q), len |-> f.len]
    BY <2>1 DEF FileRecord
  <2>5. files'[j] = ReplaceRange(f, b, y, q)
    BY <2>2, <2>3, <2>4
  <2> QED
    BY <2>5 DEF f, q
<1>9. c = Content(data', files'[i])
  BY <1>1, <1>7, TakenRange
<1>10. e = Content(data', files'[j])
  BY <1>1, <1>8, TakenRange
<1> HIDE DEF c, e
<1> QED
  BY <1>1, <1>2, <1>9, <1>10, <1>0, TwoContent

\* A range leaves one file and enters another.
LEMMA TransferRangeStep ==
  ASSUME FileInv, NEW i \in File, NEW j \in File, NEW a \in Nat, NEW z \in Nat,
         NEW b \in Nat, TransferRange(i, a, z, j, b)
  PROVE  Confined({i, j})
<1>0. Apart({i, j})
  BY TransferRangeApart
<1> SUFFICES ASSUME ContentInv PROVE ContentInv'
  BY <1>0 DEF Confined
<1> DEFINE c == RefSplice(ideal[i], a, z, <<>>)
           e == RefSplice(ideal[j], b, b, RefBlocks(i, a, z))
<1>1. i # j /\ a <= z /\ b <= b /\ z <= N(i) /\ b <= N(j) /\ data' = data
  BY DEF TransferRange, MovesOnly
<1>2. ideal' = [ideal EXCEPT ![i] = c, ![j] = e]
  BY <1>1 DEF TransferRange
<1>3. /\ files'[i] = ReplaceRange(files[i], a, z, <<>>)
      /\ files'[j] = ReplaceRange(files[j], b, b, Slice(i, a, z))
  BY <1>1 DEF TransferRange, FileInv
<1>4. c = Content(data', files'[i])
  <2> DEFINE f == files[i]
             o == <<>>
  <2>1. /\ f \in FileRecord /\ z <= Len(f.blocks) /\ data \in [Block -> Image]
        /\ ideal[i] = Content(data, f) /\ o \in Seq(Block) /\ Flat(ImagesIn(data, o)) = o
    BY <1>1, FileFacts, ContentAt, EmptySeq, EmptyContent DEF FileInv, N
  <2>2. files'[i] = ReplaceRange(f, a, z, o) /\ c = RefSplice(ideal[i], a, z, o)
    BY <1>3
  <2> HIDE DEF f, o, c
  <2>3. Content(data, ReplaceRange(f, a, z, o)) = RefSplice(Content(data, f), a, z, Flat(ImagesIn(data, o)))
    BY <1>1, <2>1, ReplacedContent
  <2> QED
    BY <1>1, <2>1, <2>2, <2>3
<1>5. e = Content(data', files'[j])
  BY <1>1, <1>3, TakenRange
<1> HIDE DEF c, e
<1> QED
  BY <1>1, <1>2, <1>4, <1>5, <1>0, TwoContent

\* The reference of one file whose vector is rearranged.
LEMMA RearrangedContent ==
  ASSUME FileInv, ContentInv, NEW i \in File, NEW w, NEW u,
         files' = [files EXCEPT ![i].blocks = w], ideal' = [ideal EXCEPT ![i].bytes = u],
         MovesOnly, u = Flat(ImagesIn(data, w)), Apart({i})
  PROVE  ContentInv'
<1> DEFINE c == [bytes |-> u, eof |-> files[i].len]
<1>1. files[i] \in FileRecord /\ data' = data
  BY FileFacts DEF MovesOnly
<1>2. files'[i].blocks = w /\ files'[i].len = files[i].len
  BY <1>1 DEF FileInv, FileRecord
<1>3. c = Content(data', files'[i])
  BY <1>1, <1>2 DEF Content
<1>4. ideal' = [ideal EXCEPT ![i] = c]
  <2>1. [ideal[i] EXCEPT !.bytes = u] = c
    <3>1. ideal[i] = Content(data, files[i])
      BY ContentAt
    <3>2. [Content(data, files[i]) EXCEPT !.bytes = u] = c
      BY DEF Content
    <3> QED
      BY <3>1, <3>2
  <2> QED
    BY <2>1 DEF ContentInv
<1> HIDE DEF c
<1> QED
  BY <1>3, <1>4, OneContent

\* A range moves within its file.
LEMMA MoveRangeStep ==
  ASSUME FileInv, NEW i \in File, NEW a \in Nat, NEW z \in Nat, NEW b \in Nat,
         MoveRange(i, a, z, b)
  PROVE  Confined({i})
<1>0. Apart({i})
  BY MoveRangeApart
<1> SUFFICES ASSUME ContentInv PROVE ContentInv'
  BY <1>0 DEF Confined
<1> DEFINE s == files[i].blocks
           mid == Slice(i, a, z)
           o == <<>>
           t == Splice(s, a, z, o)
           w == Splice(t, b, b, mid)
           v == Splice(Padded(i), BlockSize * a, BlockSize * z, o)
           u == Splice(v, BlockSize * b, BlockSize * b, RefBlocks(i, a, z))
<1>1. a <= z /\ z <= N(i) /\ N(i) \in Nat /\ b <= N(i) - (z - a)
  BY FileFacts DEF MoveRange
<1>2. files' = [files EXCEPT ![i].blocks = w] /\ MovesOnly
  BY DEF MoveRange
<1>3. ideal' = [ideal EXCEPT ![i].bytes = u]
  BY ContentAt DEF MoveRange
<1>4. /\ s \in Seq(Block) /\ data \in [Block -> Image] /\ z <= Len(s) /\ mid \in Seq(Block)
      /\ Padded(i) = Flat(ImagesIn(data, s)) /\ RefBlocks(i, a, z) = Flat(ImagesIn(data, mid))
  <2>1. s \in Seq(Block) /\ data \in [Block -> Image] /\ z <= Len(s)
    BY <1>1, FileFacts DEF FileInv, N
  <2>2. mid \in Seq(Block)
    BY <1>1, SliceFacts
  <2>3. Padded(i) = Flat(ImagesIn(data, s))
    BY DEF Padded, Images, ImagesIn
  <2>4. RefBlocks(i, a, z) = Flat(ImagesIn(data, mid))
    BY <1>1, RangeBytes
  <2> QED
    BY <2>1, <2>2, <2>3, <2>4
<1>5. o \in Seq(Block) /\ Flat(ImagesIn(data, o)) = o
  BY <1>4, EmptySeq, EmptyContent
<1>6. t \in Seq(Block) /\ b <= Len(t)
  BY <1>1, CutFile
<1> HIDE DEF s, mid, o
<1>7. Flat(ImagesIn(data, t)) = v
  <2>1. Flat(ImagesIn(data, t)) = Splice(Flat(ImagesIn(data, s)), BlockSize * a, BlockSize * z, Flat(ImagesIn(data, o)))
    BY <1>1, <1>4, <1>5, SplicedBytes
  <2> QED
    BY <1>4, <1>5, <2>1
<1> HIDE DEF t, v
<1>8. Flat(ImagesIn(data, w)) = u
  <2>1. Flat(ImagesIn(data, w)) = Splice(Flat(ImagesIn(data, t)), BlockSize * b, BlockSize * b, Flat(ImagesIn(data, mid)))
    BY <1>4, <1>6, SplicedBytes
  <2> QED
    BY <1>4, <1>7, <2>1
<1> HIDE DEF u, w
<1> QED
  BY <1>2, <1>3, <1>8, <1>0, RearrangedContent

\* Some blocks come in: the unused bytes of the last block are as many as before.
LEMMA NonEmptyReplacement ==
  ASSUME NEW f \in FileRecord, NEW a \in Nat, NEW z \in Nat, a <= z, z <= Len(f.blocks),
         NEW new \in Seq(Block), new # <<>>
  PROVE  ReplaceRange(f, a, z, new) =
           [blocks |-> Splice(f.blocks, a, z, new),
            len |-> BlockSize * Len(Splice(f.blocks, a, z, new)) - (BlockSize * Len(f.blocks) - f.len)]
<1> DEFINE t == f.blocks
           w == Splice(t, a, z, new)
<1>1. t \in Seq(Block) /\ z <= Len(t)
  BY DEF FileRecord
<1>2. Len(t) \in Nat /\ Len(new) \in Nat /\ Len(new) # 0
  BY <1>1, EmptySeq, LenProperties
<1> HIDE DEF t
<1>3. w \in Seq(Block) /\ Len(w) = Len(t) - (z - a) + Len(new)
  <2>1. w \in Seq(Block)
    BY <1>1, SpliceMembers
  <2>2. Len(w) = Len(t) - (z - a) + Len(new)
    BY <1>1, SpliceMembers
  <2> QED
    BY <2>1, <2>2
<1> HIDE DEF w
<1>4. w # <<>>
  <2>1. Len(w) # 0
    BY <1>1, <1>2, <1>3
  <2> QED
    BY <2>1, EmptySeq
<1> QED
  BY <1>4 DEF ReplaceRange, t, w

\* q is what s has from its index k on.
StandsAt(q, s, k) == \A x \in 1 .. Len(q) : q[x] = s[k + x]

\* Two ranges of a vector change places, one after the other.
LEMMA ExchangedRecord ==
  ASSUME NEW f \in FileRecord, BlockCount(f.len) = Len(f.blocks),
         NEW a \in Nat, NEW p \in Seq(Block), NEW q \in Seq(Block), NEW r \in Seq(Block),
         a + Len(p) + Len(q) + Len(r) <= Len(f.blocks), p # <<>>, r # <<>>,
         StandsAt(q, f.blocks, a + Len(p))
  PROVE  ReplaceRange(ReplaceRange(f, a + Len(p) + Len(q), a + Len(p) + Len(q) + Len(r), p),
                      a, a + Len(p), r)
           = [blocks |-> Splice(f.blocks, a, a + Len(p) + Len(q) + Len(r), r \o q \o p),
              len |-> f.len]
<1> DEFINE s == f.blocks
           z == a + Len(p)
           b == a + Len(p) + Len(q)
           y == a + Len(p) + Len(q) + Len(r)
           n == Len(s)
           t == Splice(s, b, y, p)
           w == Splice(t, a, z, r)
           g == ReplaceRange(f, b, y, p)
<1>1. s \in Seq(Block) /\ n \in Nat /\ f.len \in Nat
  BY LenProperties DEF FileRecord
<1>2. /\ Len(p) \in Nat /\ Len(q) \in Nat /\ Len(r) \in Nat
      /\ z \in Nat /\ b \in Nat /\ y \in Nat /\ a <= z /\ z <= b /\ b <= y /\ y <= n
      /\ y - b = Len(r) /\ z - a = Len(p)
  <2> DEFINE lp == Len(p)
             lq == Len(q)
             lr == Len(r)
  <2>1. lp \in Nat /\ lq \in Nat /\ lr \in Nat /\ a + lp + lq + lr <= n
    BY LenProperties
  <2>2. z = a + lp /\ b = a + lp + lq /\ y = a + lp + lq + lr
    OBVIOUS
  <2> HIDE DEF z, b, y, lp, lq, lr, n
  <2>3. /\ z \in Nat /\ b \in Nat /\ y \in Nat /\ a <= z /\ z <= b /\ b <= y /\ y <= n
        /\ y - b = lr /\ z - a = lp
    BY <1>1, <2>1, <2>2
  <2> QED
    BY <2>1, <2>3 DEF lp, lq, lr
<1>3. w = Splice(s, a, y, r \o q \o p)
  <2> HIDE DEF s
  <2>1. \A x \in 1 .. Len(q) : q[x] = s[a + Len(p) + x]
    BY DEF s, StandsAt
  <2>2. a + Len(p) + Len(q) + Len(r) <= Len(s)
    BY DEF s
  <2> QED
    BY <1>1, <2>1, <2>2, ExchangedVector
<1> HIDE DEF z, b, y
<1>4. g = [blocks |-> t, len |-> BlockSize * Len(t) - (BlockSize * n - f.len)]
  BY <1>2, NonEmptyReplacement
<1>5. g \in FileRecord
  BY <1>2, ReplaceRangeFacts
<1> HIDE DEF s, g
<1>6. t \in Seq(Block) /\ Len(t) = n - (y - b) + Len(p)
  <2>1. s \in Seq(Block) /\ b \in Nat /\ y \in Nat /\ b <= y /\ y <= Len(s)
    BY <1>1, <1>2
  <2> QED
    BY <2>1, SpliceMembers
<1> HIDE DEF t
<1>7. g.blocks = t /\ g.len = BlockSize * Len(t) - (BlockSize * n - f.len)
  BY <1>4
<1>8. z <= Len(t)
  <2> DEFINE lp == Len(p)
             lr == Len(r)
             lt == Len(t)
  <2>1. lt = n - (y - b) + lp
    BY <1>6
  <2>2. lp \in Nat /\ lr \in Nat /\ n \in Nat /\ z \in Nat /\ b \in Nat /\ y \in Nat /\ z <= b /\ y <= n
    BY <1>1, <1>2
  <2> HIDE DEF lp, lr, lt, n
  <2>3. z <= lt
    BY <2>1, <2>2
  <2> QED
    BY <2>3 DEF lt
<1>9. ReplaceRange(g, a, z, r) =
        [blocks |-> w, len |-> BlockSize * Len(w) - (BlockSize * Len(t) - g.len)]
  <2>1. z <= Len(g.blocks)
    BY <1>7, <1>8
  <2>2. ReplaceRange(g, a, z, r) =
          [blocks |-> Splice(g.blocks, a, z, r),
           len |-> BlockSize * Len(Splice(g.blocks, a, z, r)) - (BlockSize * Len(g.blocks) - g.len)]
    BY <1>2, <1>5, <2>1, NonEmptyReplacement
  <2> QED
    BY <1>7, <2>2
<1>10. Len(w) = Len(t) - (z - a) + Len(r)
  <2>1. t \in Seq(Block) /\ z \in Nat /\ a <= z /\ z <= Len(t)
    BY <1>2, <1>6, <1>8
  <2> QED
    BY <2>1, SpliceMembers
<1> HIDE DEF w
<1>11. Len(w) = n
  <2> DEFINE lp == Len(p)
             lr == Len(r)
             lt == Len(t)
             lw == Len(w)
  <2>1. lp \in Nat /\ lr \in Nat /\ n \in Nat /\ y - b = lr /\ z - a = lp
    BY <1>1, <1>2
  <2>2. lt = n - (y - b) + lp /\ lw = lt - (z - a) + lr
    BY <1>6, <1>10
  <2> HIDE DEF lp, lr, lt, lw, n
  <2>3. lt = n - lr + lp /\ lw = lt - lp + lr
    BY <2>1, <2>2
  <2>4. lw = n
    BY <2>1, <2>3
  <2> QED
    BY <2>4 DEF lw
<1>12. BlockSize * Len(w) - (BlockSize * Len(t) - g.len) = f.len
  <2> DEFINE u == BlockSize * Len(t)
             v == BlockSize * n
  <2>1. u \in Int /\ v \in Int
    <3>1. Len(t) \in Nat /\ BlockSize \in Nat
      BY <1>6, LenProperties, GeometryAssumption
    <3> QED
      BY <1>1, <3>1, SMT
  <2>2. g.len = u - (v - f.len) /\ BlockSize * Len(w) = v
    BY <1>7, <1>11
  <2> HIDE DEF u, v
  <2>3. v - (u - (u - (v - f.len))) = f.len
    BY <1>1, <2>1
  <2> QED
    BY <2>2, <2>3 DEF u
<1>13. ReplaceRange(g, a, z, r) = [blocks |-> Splice(s, a, y, r \o q \o p), len |-> f.len]
  BY <1>3, <1>9, <1>12
<1> QED
  BY <1>13 DEF g, z, b, y, s

\* Two ranges of one file change places: each is replaced by the other.
LEMMA ExchangeWithinStep ==
  ASSUME FileInv, NEW i \in File, NEW a \in Nat, NEW z \in Nat, NEW b \in Nat,
         NEW y \in Nat, ExchangeWithin(i, a, z, b, y)
  PROVE  Confined({i})
<1>0. Apart({i})
  BY ExchangeWithinApart
<1> SUFFICES ASSUME ContentInv PROVE ContentInv'
  BY <1>0 DEF Confined
<1> DEFINE f == files[i]
           s == f.blocks
           p == Slice(i, a, z)
           q == Slice(i, z, b)
           r == Slice(i, b, y)
           g == ReplaceRange(f, b, y, p)
           h == ReplaceRange(g, a, z, r)
           new == r \o q \o p
           c == RefSplice(RefSplice(ideal[i], b, y, RefBlocks(i, a, z)), a, z, RefBlocks(i, b, y))
<1>1. /\ a < z /\ z <= b /\ b < y /\ y <= N(i) /\ a <= z /\ b <= y /\ z <= N(i) /\ b <= N(i)
      /\ N(i) \in Nat /\ N(i) = Len(s)
  BY FileFacts DEF ExchangeWithin, N
<1>2. f \in FileRecord /\ BlockCount(f.len) = Len(f.blocks) /\ data \in [Block -> Image]
  BY FileFacts DEF FileInv
<1>3. p \in Seq(Block) /\ Len(p) = z - a
  BY <1>1, SliceFacts
<1>4. q \in Seq(Block) /\ Len(q) = b - z
  BY <1>1, SliceFacts
<1>5. r \in Seq(Block) /\ Len(r) = y - b
  BY <1>1, SliceFacts
<1>6. z = a + Len(p) /\ b = a + Len(p) + Len(q) /\ y = a + Len(p) + Len(q) + Len(r)
  BY <1>1, <1>3, <1>4, <1>5
<1>7. p # <<>> /\ r # <<>>
  <2>1. Len(p) # 0 /\ Len(r) # 0
    BY <1>1, <1>3, <1>5
  <2> QED
    BY <2>1, EmptySeq
<1>8. \A x \in 1 .. Len(q) : q[x] = s[z + x]
  <2>1. \A x \in z + 1 .. b : s[x] \in Block
    BY <1>1, FileFacts
  <2>2. q = SubSeq(s, z + 1, b)
    BY DEF Slice
  <2> HIDE DEF s, q
  <2>3. \A x \in 1 .. b - (z + 1) + 1 : SubSeq(s, z + 1, b)[x] = s[(z + 1) + x - 1]
    BY <2>1, SubSeqProperties
  <2>4. b - (z + 1) + 1 = b - z
    OBVIOUS
  <2>5. \A x \in 1 .. b - z : (z + 1) + x - 1 = z + x
    OBVIOUS
  <2> QED
    BY <1>4, <2>2, <2>3, <2>4, <2>5
<1>9. h = [blocks |-> Splice(s, a, y, new), len |-> f.len]
  <2> HIDE DEF f, p, q, r
  <2>1. StandsAt(q, f.blocks, a + Len(p))
    BY <1>6, <1>8 DEF StandsAt
  <2>2. a + Len(p) + Len(q) + Len(r) <= Len(f.blocks)
    BY <1>1, <1>6
  <2>3. ReplaceRange(ReplaceRange(f, a + Len(p) + Len(q), a + Len(p) + Len(q) + Len(r), p), a, a + Len(p), r)
           = [blocks |-> Splice(f.blocks, a, a + Len(p) + Len(q) + Len(r), r \o q \o p), len |-> f.len]
    <3>1. p \in Seq(Block) /\ q \in Seq(Block) /\ r \in Seq(Block)
      BY <1>3, <1>4, <1>5
    <3>2. f \in FileRecord /\ BlockCount(f.len) = Len(f.blocks)
      BY <1>2
    <3> QED
      BY <1>7, <2>1, <2>2, <3>1, <3>2, ExchangedRecord
  <2> QED
    BY <1>6, <2>3
<1>10. files'[i] = h /\ data' = data
  <2>1. files' = [files EXCEPT ![i].blocks = Splice(@, a, y, new)] /\ data' = data
    BY DEF ExchangeWithin, MovesOnly
  <2>2. files'[i] = [f EXCEPT !.blocks = Splice(@, a, y, new)]
    BY <2>1 DEF FileInv
  <2> HIDE DEF f, new, h
  <2>3. [f EXCEPT !.blocks = Splice(@, a, y, new)] = [blocks |-> Splice(s, a, y, new), len |-> f.len]
    BY <1>2 DEF FileRecord
  <2> QED
    BY <1>9, <2>1, <2>2, <2>3
<1>11. c = Content(data, h)
  <2>1. Content(data, g) = RefSplice(ideal[i], b, y, RefBlocks(i, a, z))
    <3>1. b <= y /\ y <= N(i) /\ a <= z /\ z <= N(i)
      BY <1>1
    <3>2. Content(data, ReplaceRange(files[i], b, y, Slice(i, a, z))) =
            RefSplice(ideal[i], b, y, RefBlocks(i, a, z))
      BY <3>1, TakenRange
    <3> QED
      BY <3>2
  <2>2. RefBlocks(i, b, y) = Flat(ImagesIn(data, r))
    BY <1>1, RangeBytes
  <2>3. g \in FileRecord /\ g.blocks = Splice(s, b, y, p)
    BY <1>1, <1>2, <1>3, ReplaceRangeFacts
  <2>4. z <= Len(g.blocks)
    <3>1. s \in Seq(Block)
      BY FileFacts
    <3> HIDE DEF s, p, g
    <3>2. Len(Splice(s, b, y, p)) = Len(s) - (y - b) + Len(p)
      <4>1. p \in Seq(Block) /\ b <= y /\ y <= Len(s)
        BY <1>1, <1>3
      <4> QED
        BY <3>1, <4>1, SpliceMembers
    <3> QED
      BY <1>1, <1>3, <2>3, <3>2
  <2> HIDE DEF g, r
  <2>5. Content(data, ReplaceRange(g, a, z, r)) = RefSplice(Content(data, g), a, z, Flat(ImagesIn(data, r)))
    BY <1>1, <1>2, <1>5, <2>3, <2>4, ReplacedContent
  <2> QED
    BY <2>1, <2>2, <2>5
<1>12. ideal' = [ideal EXCEPT ![i] = c]
  BY DEF ExchangeWithin
<1> HIDE DEF c, h
<1> QED
  BY <1>10, <1>11, <1>12, <1>0, OneContent

(***************************************************************************)
(* Whole files.                                                            *)
(***************************************************************************)
\* File i takes over the blocks and the length of file j: it is what file j was.
LEMMA TakenOverIs ==
  ASSUME FileInv, NEW i \in File, NEW j \in File
  PROVE  [ReplaceRange(files[i], 0, N(i), files[j].blocks) EXCEPT !.len = files[j].len] = files[j]
<1> DEFINE s == files[i].blocks
           q == files[j].blocks
           h == ReplaceRange(files[i], 0, N(i), q)
<1>1. s \in Seq(Block) /\ q \in Seq(Block) /\ files[j] \in FileRecord /\ N(i) = Len(s)
  BY FileFacts DEF N
<1>2. Splice(s, 0, N(i), q) = q
  <2> HIDE DEF s, q
  <2>1. Splice(s, 0, Len(s), q) = q
    BY <1>1, SpliceAll
  <2> QED
    BY <1>1, <2>1
<1>3. [h EXCEPT !.len = files[j].len] = [blocks |-> Splice(s, 0, N(i), q), len |-> files[j].len]
  BY DEF ReplaceRange
<1>4. files[j] = [blocks |-> q, len |-> files[j].len]
  BY <1>1 DEF FileRecord
<1> QED
  BY <1>2, <1>3, <1>4

\* Two files exchange all their blocks and their lengths.
LEMMA WholeExchangeStep ==
  ASSUME FileInv, NEW i \in File, NEW j \in File, WholeExchange(i, j)
  PROVE  Confined({i, j})
<1>0. Apart({i, j})
  BY WholeExchangeApart
<1> SUFFICES ASSUME ContentInv PROVE ContentInv'
  BY <1>0 DEF Confined
<1> DEFINE c == ideal[j]
           e == ideal[i]
<1>1. i # j /\ data' = data /\ ideal' = [ideal EXCEPT ![i] = c, ![j] = e]
  BY DEF WholeExchange, MovesOnly
<1>2. files'[i] = files[j] /\ files'[j] = files[i]
  <2>1. /\ files'[i] = [ReplaceRange(files[i], 0, N(i), files[j].blocks) EXCEPT !.len = files[j].len]
        /\ files'[j] = [ReplaceRange(files[j], 0, N(j), files[i].blocks) EXCEPT !.len = files[i].len]
    BY <1>1 DEF WholeExchange, FileInv
  <2> QED
    BY <2>1, TakenOverIs
<1>3. c = Content(data', files'[i])
  BY <1>1, <1>2, ContentAt
<1>4. e = Content(data', files'[j])
  BY <1>1, <1>2, ContentAt
<1> HIDE DEF c, e
<1> QED
  BY <1>1, <1>3, <1>4, <1>0, TwoContent

\* An empty inode.
LEMMA EmptyFile ==
  ASSUME NEW D \in [Block -> Image]
  PROVE  RefExact(<<>>) = Content(D, [blocks |-> <<>>, len |-> 0])
         /\ RefExact(<<>>) = [bytes |-> <<>>, eof |-> 0]
<1> DEFINE o == <<>>
<1>1. BlockCount(0) = 0 /\ BlockSize * 0 - 0 = 0 /\ BlockSize \in Nat \ {0}
  <2>1. BlockSize \in Nat \ {0} /\ BlockSize * 0 - 0 = 0
    BY GeometryAssumption, SMT
  <2>2. 0 \in 0 .. BlockSize - 1
    BY <2>1
  <2>3. BlockCount(BlockSize * 0 - 0) = 0
    BY <2>1, <2>2, BlockCountOf
  <2> QED
    BY <2>1, <2>3
<1>2. Len(o) = 0
  OBVIOUS
<1>3. Zeros(0) = o
  <2>1. Zeros(0) \in Seq(Byte) /\ Len(Zeros(0)) = 0
    BY ZerosType
  <2> QED
    BY <2>1, EmptySeq
<1>4. o \o o = o
  BY EmptySeq, ConcatEmptySeq
<1>5. RefExact(o) = [bytes |-> o \o Zeros(BlockSize * BlockCount(Len(o)) - Len(o)), eof |-> Len(o)]
  BY DEF RefExact
<1>6. RefExact(o) = [bytes |-> o, eof |-> 0]
  BY <1>1, <1>2, <1>3, <1>4, <1>5
<1>7. Flat(ImagesIn(D, o)) = o
  BY EmptyContent
<1>8. Content(D, [blocks |-> o, len |-> 0]) = [bytes |-> o, eof |-> 0]
  BY <1>7 DEF Content
<1> QED
  BY <1>6, <1>8

\* One file takes all blocks of another, which is left empty.
LEMMA WholeTransferReplaceStep ==
  ASSUME FileInv, NEW i \in File, NEW j \in File, WholeTransferReplace(i, j)
  PROVE  Confined({i, j})
<1>0. Apart({i, j})
  BY WholeTransferReplaceApart
<1> SUFFICES ASSUME ContentInv PROVE ContentInv'
  BY <1>0 DEF Confined
<1> DEFINE c == RefExact(<<>>)
           e == ideal[i]
<1>1. i # j /\ data' = data /\ ideal' = [ideal EXCEPT ![i] = c, ![j] = e]
  BY DEF WholeTransferReplace
<1>2. /\ files'[i] = ReplaceRange(files[i], 0, N(i), <<>>)
      /\ files'[j] = [ReplaceRange(files[j], 0, N(j), files[i].blocks) EXCEPT !.len = files[i].len]
  BY <1>1 DEF WholeTransferReplace, FileInv
<1>3. files'[i] = [blocks |-> <<>>, len |-> 0]
  <2> DEFINE s == files[i].blocks
             o == <<>>
  <2>1. s \in Seq(Block) /\ N(i) = Len(s) /\ o \in Seq(Block)
    BY FileFacts, EmptySeq DEF N
  <2>2. Splice(s, 0, N(i), o) = o
    <3> HIDE DEF s, o
    <3>1. Splice(s, 0, Len(s), o) = o
      BY <2>1, SpliceAll
    <3> QED
      BY <2>1, <3>1
  <2> QED
    BY <1>2, <2>2 DEF ReplaceRange
<1>4. files'[j] = files[i]
  BY <1>2, TakenOverIs
<1>5. c = Content(data', files'[i])
  <2>1. data \in [Block -> Image]
    BY DEF FileInv
  <2> QED
    BY <1>1, <1>3, <2>1, EmptyFile
<1>6. e = Content(data', files'[j])
  BY <1>1, <1>4, ContentAt
<1> HIDE DEF c, e
<1> QED
  BY <1>1, <1>5, <1>6, <1>0, TwoContent

(***************************************************************************)
(* Writing in place.                                                       *)
(***************************************************************************)
\* The blocks of one file are rewritten.
LEMMA InPlaceContent ==
  ASSUME FileInv, ContentInv, NEW i \in File, NEW d \in Seq(Image), Len(d) = N(i),
         UNCHANGED <<alloc, files>>, data' = Stored(files[i].blocks, d),
         NEW u, u = Flat(d), ideal' = [ideal EXCEPT ![i].bytes = u]
  PROVE  ContentInv'
<1> DEFINE s == files[i].blocks
           c == [bytes |-> u, eof |-> files[i].len]
<1>1. s \in Seq(Block) /\ IsInjective(s) /\ Len(s) = Len(d) /\ data \in [Block -> Image]
  BY FileFacts DEF FileInv, N
<1>2. data' = Stored(s, d) /\ files'[i] = files[i]
  OBVIOUS
<1>3. ImagesIn(data', s) = d
  <2> HIDE DEF s
  <2> QED
    BY <1>1, <1>2, StoredImages
<1>4. c = Content(data', files'[i])
  BY <1>2, <1>3 DEF Content
<1>5. ideal' = [ideal EXCEPT ![i] = c]
  <2>1. [ideal[i] EXCEPT !.bytes = u] = c
    <3>1. ideal[i] = Content(data, files[i])
      BY ContentAt
    <3>2. [Content(data, files[i]) EXCEPT !.bytes = u] = c
      BY DEF Content
    <3> QED
      BY <3>1, <3>2
  <2> QED
    BY <2>1 DEF ContentInv
<1>6. Apart({i})
  BY InPlaceApart
<1> HIDE DEF c
<1> QED
  BY <1>4, <1>5, <1>6, OneContent

\* Whole blocks are overwritten in place.
LEMMA OverwriteStep ==
  ASSUME FileInv, NEW i \in File, NEW w, \A n \in DOMAIN w : w[n] \in Image,
         OverwriteBlocks(i, w)
  PROVE  Confined({i})
<1>0. Apart({i})
  BY OverwriteApart
<1> SUFFICES ASSUME ContentInv PROVE ContentInv'
  BY <1>0 DEF Confined
<1> DEFINE new == [n \in 1 .. N(i) |-> IF n - 1 \in DOMAIN w THEN w[n - 1]
                                       ELSE data[files[i].blocks[n]]]
           u == Flat(new)
<1>1. N(i) \in Nat /\ \A x \in 1 .. N(i) : data[files[i].blocks[x]] \in Image
  BY FileFacts DEF FileInv
<1>2. new \in [1 .. N(i) -> Image]
  BY <1>1
<1>3. /\ UNCHANGED <<alloc, files>> /\ data' = Stored(files[i].blocks, new)
      /\ ideal' = [ideal EXCEPT ![i].bytes = RefOverwrite(Padded(i), w)]
  <2>1. ideal[i].bytes = Padded(i)
    BY ContentAt
  <2> QED
    BY <2>1 DEF OverwriteBlocks
<1> HIDE DEF new
<1>4. new \in Seq(Image) /\ Len(new) = N(i) /\ u = Flat(new)
  BY <1>1, <1>2, SeqOfFunction
<1>5. RefOverwrite(Padded(i), w) = u
  <2> DEFINE old == Images(files[i].blocks)
             v == Flat(old)
             at(x) == (x - 1) \div BlockSize
             in(x) == ((x - 1) % BlockSize) + 1
  <2>1. v = Padded(i) /\ RefOverwrite(v, w) =
          [x \in DOMAIN v |-> IF at(x) \in DOMAIN w THEN w[at(x)][in(x)] ELSE v[x]]
    BY DEF Padded, RefOverwrite
  <2>2. /\ files[i].blocks \in Seq(Block) /\ Len(files[i].blocks) = N(i)
        /\ data \in [Block -> Image]
    BY FileFacts DEF FileInv, N
  <2>3. Len(old) = N(i) /\ \A n \in 1 .. N(i) : old[n] = data[files[i].blocks[n]]
    <3>1. DOMAIN files[i].blocks = 1 .. N(i)
      BY <2>2, LenProperties
    <3> QED
      BY <2>2, <3>1, ImagesType DEF Images
  <2> HIDE DEF old
  <2>4. /\ v = [x \in 1 .. BlockSize * N(i) |-> old[at(x) + 1][in(x)]]
        /\ u = [x \in 1 .. BlockSize * N(i) |-> new[at(x) + 1][in(x)]]
    BY <1>4, <2>3 DEF Flat
  <2>5. ASSUME NEW x \in 1 .. BlockSize * N(i)
        PROVE  (IF at(x) \in DOMAIN w THEN w[at(x)][in(x)] ELSE v[x]) = new[at(x) + 1][in(x)]
    <3>1. at(x) \in Int /\ at(x) + 1 \in 1 .. N(i)
      <4>1. PICK c \in 0 .. N(i) - 1, y \in 0 .. BlockSize - 1 : x = BlockSize * c + y + 1
        BY <1>1, ByteIndex
      <4>2. at(x) = c
        <5>1. BlockSize \in Nat \ {0} /\ c \in Nat /\ BlockSize * c \in Nat
          BY <1>1, GeometryAssumption, SMT
        <5>2. x - 1 \in Nat /\ BlockSize * c <= x - 1 /\ x - 1 < BlockSize * c + BlockSize
          BY <4>1, <5>1
        <5> QED
          BY <5>1, <5>2, QuotientUnique
      <4> QED
        BY <1>1, <4>2
    <3> HIDE DEF at, in
    <3>2. new[at(x) + 1] = IF at(x) \in DOMAIN w THEN w[at(x)] ELSE old[at(x) + 1]
      <4>1. at(x) + 1 - 1 = at(x)
        BY <3>1
      <4> QED
        BY <2>3, <3>1, <4>1 DEF new
    <3>3. v[x] = old[at(x) + 1][in(x)]
      BY <2>4
    <3> QED
      BY <3>2, <3>3
  <2>6. DOMAIN v = 1 .. BlockSize * N(i)
    BY <2>4
  <2> HIDE DEF v, at, in, u
  <2> QED
    BY <2>1, <2>4, <2>5, <2>6
<1> HIDE DEF u
<1> QED
  BY <1>3, <1>4, <1>5, InPlaceContent

\* Bytes are overwritten in place, across block boundaries.
LEMMA WriteAsStep ==
  ASSUME FileInv, NEW i \in File, NEW off \in Nat, NEW d \in Seq(Byte), NEW ref,
         WriteAs(i, off, d, ref), ContentInv => ref = d
  PROVE  Confined({i})
<1>0. Apart({i})
  BY WriteAsApart
<1> SUFFICES ASSUME ContentInv PROVE ContentInv'
  BY <1>0 DEF Confined
<1> DEFINE s == Padded(i)
           z == off + Len(d)
           t == Splice(s, off, z, d)
           e == Chunks(t)
<1>1. /\ s \in Seq(Byte) /\ Len(s) = BlockSize * N(i) /\ BlockSize * N(i) \in Nat
      /\ files[i].len <= BlockSize * N(i) /\ files[i].len \in Nat /\ N(i) \in Nat
      /\ Len(d) \in Nat
  BY PaddedType, FileFacts, LenProperties
<1>2. z <= files[i].len
  BY DEF WriteAs
<1>3. z \in Nat /\ off <= z /\ z <= Len(s) /\ z - off = Len(d)
  BY <1>1, <1>2
<1>4. /\ UNCHANGED <<alloc, files>> /\ data' = Stored(files[i].blocks, e)
      /\ ideal' = [ideal EXCEPT ![i].bytes = t]
  <2>1. ideal[i].bytes = s /\ ref = d
    BY ContentAt
  <2> QED
    BY <2>1 DEF WriteAs, RefWrite
<1> HIDE DEF s, z
<1>5. t \in Seq(Byte)
  BY <1>1, <1>3, SpliceMembers
<1>6. Len(t) = Len(s) - (z - off) + Len(d)
  <2>1. s \in Seq(Byte) /\ z \in Nat /\ off <= z /\ z <= Len(s)
    BY <1>1, <1>3
  <2> QED
    BY <2>1, SpliceMembers
<1> HIDE DEF t
<1>7. Len(t) = BlockSize * N(i)
  BY <1>1, <1>3, <1>6
<1>8. e \in Seq(Image) /\ Len(e) = N(i)
  BY <1>1, <1>5, <1>7, ChunksType
<1>9. t = Flat(e)
  BY <1>1, <1>5, <1>7, FlatChunks
<1> HIDE DEF e
<1> QED
  BY <1>4, <1>8, <1>9, InPlaceContent

\* write_file_range_journaled.
LEMMA WriteRangeStep ==
  ASSUME FileInv, NEW i \in File, NEW off \in Nat, NEW d \in Seq(Byte),
         WriteRange(i, off, d)
  PROVE  Confined({i})
BY WriteAsStep DEF WriteRange

(***************************************************************************)
(* Changing the end of file.                                               *)
(***************************************************************************)
\* The bytes u, followed by zeros up to the block end.
LEMMA ExactBytes ==
  ASSUME NEW u \in Seq(Byte), NEW w \in Seq(Byte), Len(w) = BlockSize * BlockCount(Len(u)),
         \A p \in 1 .. Len(w) : w[p] = IF p <= Len(u) THEN u[p] ELSE 0
  PROVE  RefExact(u) = [bytes |-> w, eof |-> Len(u)]
<1> DEFINE n == Len(u)
           m == BlockSize * BlockCount(n)
           r == Zeros(m - n)
           v == u \o r
<1>1. n \in Nat
  BY LenProperties
<1>2. m \in Nat /\ m - n \in Nat
  <2> HIDE DEF n
  <2>1. BlockCount(n) \in Nat /\ n <= m /\ BlockSize \in Nat
    BY <1>1, BlockCountBounds, GeometryAssumption
  <2>2. m \in Nat
    BY <2>1, SMT
  <2> QED
    BY <1>1, <2>1, <2>2
<1>3. RefExact(u) = [bytes |-> v, eof |-> n]
  BY DEF RefExact
<1>4. Len(w) = m /\ \A p \in 1 .. m : w[p] = IF p <= n THEN u[p] ELSE 0
  OBVIOUS
<1> HIDE DEF n, m
<1>5. r \in Seq(Byte) /\ Len(r) = m - n /\ \A x \in 1 .. m - n : r[x] = 0
  BY <1>2, ZerosType DEF Zeros
<1> HIDE DEF r
<1>6. v \in Seq(Byte) /\ Len(v) = n + Len(r)
      /\ \A x \in 1 .. n + Len(r) : v[x] = IF x <= n THEN u[x] ELSE r[x - n]
  <2>1. r \in Seq(Byte)
    BY <1>5
  <2> QED
    BY <2>1, ConcatProperties DEF n
<1> HIDE DEF v
<1>7. n + Len(r) = m
  BY <1>1, <1>2, <1>5
<1>8. ASSUME NEW x \in 1 .. m PROVE v[x] = w[x]
  <2>1. v[x] = IF x <= n THEN u[x] ELSE r[x - n]
    BY <1>6, <1>7
  <2>2. ~ (x <= n) => x - n \in 1 .. m - n
    BY <1>1, <1>2
  <2>3. ~ (x <= n) => r[x - n] = 0
    BY <1>5, <2>2
  <2> QED
    BY <1>4, <2>1, <2>3
<1>9. v = w
  BY <1>4, <1>6, <1>7, <1>8, SeqEqual
<1> QED
  BY <1>3, <1>9 DEF n

\* The bytes before the end of file, in the reference.
LEMMA RefVisibleIs ==
  ASSUME FileInv, ContentInv, NEW i \in File, NEW n \in Nat, n <= files[i].len
  PROVE  /\ SubSeq(ideal[i].bytes, 1, n) \in Seq(Byte) /\ Len(SubSeq(ideal[i].bytes, 1, n)) = n
         /\ \A p \in 1 .. n : SubSeq(ideal[i].bytes, 1, n)[p] = Padded(i)[p]
<1> DEFINE s == Padded(i)
           len == files[i].len
<1>1. s \in Seq(Byte) /\ len <= Len(s) /\ len \in Nat /\ Len(s) \in Nat
  BY PaddedType, FileFacts
<1>2. ideal[i].bytes = s
  BY ContentAt
<1>3. n <= Len(s)
  BY <1>1
<1> HIDE DEF s
<1>4. \A x \in 1 .. n : s[x] \in Byte
  BY <1>1, <1>3, ElementOfSeq
<1>5. SubSeq(s, 1, n) \in Seq(Byte) /\ Len(SubSeq(s, 1, n)) = n
  <2>1. Len(s) <= Len(s)
    BY <1>1
  <2> QED
    BY <1>1, <1>3, <2>1, CutInThree
<1>6. \A x \in 1 .. n - 1 + 1 : SubSeq(s, 1, n)[x] = s[1 + x - 1]
  BY <1>4, SubSeqProperties
<1>7. \A x \in 1 .. n : SubSeq(s, 1, n)[x] = s[x]
  BY <1>6
<1> QED
  BY <1>2, <1>5, <1>7 DEF s

\* The file gets fresh blocks at its end, and these bytes.
LEMMA ExtendContent ==
  ASSUME FileInv, ContentInv, NEW i \in File, NEW n \in Nat, n > files[i].len,
         NEW s, s \in Fresh(BlockCount(n) - N(i)),
         NEW bytes \in Seq(Byte), Len(bytes) = BlockSize * BlockCount(n),
         files' = [files EXCEPT ![i] = [blocks |-> files[i].blocks \o s, len |-> n]],
         alloc' = alloc \cup Range(s),
         data' = Stored(files[i].blocks \o s, Chunks(bytes)),
         NEW c, c = [bytes |-> bytes, eof |-> n], ideal' = [ideal EXCEPT ![i] = c]
  PROVE  ContentInv'
<1> DEFINE t == files[i].blocks
           u == t \o s
           d == Chunks(bytes)
           m == BlockCount(n)
<1>1. /\ t \in Seq(Block) /\ IsInjective(t) /\ Range(t) \subseteq alloc
      /\ Len(t) = N(i) /\ N(i) \in Nat /\ data \in [Block -> Image]
  BY FileFacts DEF FileInv, N, Holds
<1>2. m \in Nat /\ m - N(i) \in Nat
  <2>1. files[i].len \in Nat /\ BlockCount(files[i].len) = N(i)
    BY FileFacts DEF FileInv, N
  <2>2. files[i].len <= n
    BY <2>1
  <2>3. BlockCount(n) \in Nat /\ BlockCount(files[i].len) <= BlockCount(n)
    BY <2>1, <2>2, BlockCountOrder, BlockCountBounds
  <2> QED
    BY <1>1, <2>1, <2>3
<1>3. s \in Seq(Block) /\ Len(s) = m - N(i) /\ IsInjective(s) /\ Range(s) \cap alloc = {}
  BY <1>2, FreshFacts
<1>4. files'[i] = [blocks |-> u, len |-> n] /\ data' = Stored(u, d)
  BY DEF FileInv
<1> HIDE DEF t
<1>5. IsInjective(u)
  <2>1. Range(t) \cap Range(s) = {}
    BY <1>1, <1>3
  <2> QED
    BY <1>1, <1>3, <2>1, ConcatMembers
<1>6. u \in Seq(Block) /\ Len(u) = Len(t) + Len(s)
  BY <1>1, <1>3, ConcatProperties
<1> HIDE DEF u
<1>7. Len(u) = m
  BY <1>1, <1>2, <1>3, <1>6
<1>8. d \in Seq(Image) /\ Len(d) = m
  BY <1>2, ChunksType
<1>9. Flat(d) = bytes
  BY <1>2, FlatChunks
<1> HIDE DEF d
<1>10. ImagesIn(data', u) = d
  <2>1. Len(u) = Len(d) /\ data \in [Block -> Image] /\ u \in Seq(Block) /\ d \in Seq(Image)
    BY <1>1, <1>6, <1>7, <1>8
  <2> QED
    BY <1>4, <1>5, <2>1, StoredImages
<1>11. c = Content(data', files'[i])
  <2> DEFINE D == data'
             f == files'[i]
  <2>1. f.blocks = u /\ f.len = n /\ ImagesIn(D, u) = d
    BY <1>4, <1>10
  <2> HIDE DEF D, f
  <2>2. Content(D, f) = [bytes |-> Flat(ImagesIn(D, f.blocks)), eof |-> f.len]
    BY DEF Content
  <2>3. c = Content(D, f)
    BY <1>9, <2>1, <2>2
  <2> QED
    BY <2>3 DEF D, f
<1>12. Apart({i})
  BY ExtendApart
<1> QED
  BY <1>11, <1>12, OneContent

\* The file grows to a length in bytes:
\* the slack of its last block and the new blocks read as zeros.
LEMMA GrowToBytesStep ==
  ASSUME FileInv, NEW i \in File, NEW n \in Nat, NEW s, GrowToBytes(i, n, s)
  PROVE  Confined({i})
<1>0. Apart({i})
  BY GrowToBytesApart
<1> SUFFICES ASSUME ContentInv PROVE ContentInv'
  BY <1>0 DEF Confined
<1> DEFINE len == files[i].len
           old == Padded(i)
           k == BlockSize * N(i)
           g == BlockSize * Len(s)
           l == ZeroTail(old, len)
           r == Zeros(g)
           bytes == l \o r
           v == RefVisible(i)
           o == Zeros(n - len)
           u == v \o o
           c == RefExact(u)
<1>1. BlockSize \in Nat /\ N(i) \in Nat /\ k \in Nat /\ len \in Nat /\ len <= k
  BY GeometryAssumption, PaddedType, FileFacts
<1>2. n > len /\ n - len \in Nat
  BY <1>1 DEF GrowToBytes
<1>3. BlockCount(n) \in Nat /\ BlockCount(n) - N(i) \in Nat
  <2>1. BlockCount(len) = N(i) /\ len <= n
    BY <1>1, <1>2 DEF FileInv, N
  <2>2. BlockCount(n) \in Nat
    BY BlockCountBounds
  <2>3. BlockCount(len) <= BlockCount(n)
    <3>1. len \in Nat /\ len <= n
      BY <1>1, <2>1
    <3> HIDE DEF len
    <3> QED
      BY <3>1, BlockCountOrder
  <2> QED
    BY <1>1, <2>1, <2>2, <2>3
<1>4. Len(s) = BlockCount(n) - N(i)
  BY <1>3, FreshFacts DEF GrowToBytes
<1>5. g \in Nat /\ k + g = BlockSize * BlockCount(n)
  <2> DEFINE x == BlockCount(n)
             y == N(i)
  <2> HIDE DEF x, y
  <2>1. BlockSize * (x - y) \in Nat /\ BlockSize * y + BlockSize * (x - y) = BlockSize * x
    BY <1>1, <1>3, SMT DEF x, y
  <2> QED
    BY <1>4, <2>1 DEF x, y
<1>6. old \in Seq(Byte) /\ Len(old) = k /\ DOMAIN old = 1 .. k
  BY PaddedType, LenProperties
<1>7. /\ files' = [files EXCEPT ![i] = [blocks |-> files[i].blocks \o s, len |-> n]]
      /\ alloc' = alloc \cup Range(s) /\ data' = Stored(files[i].blocks \o s, Chunks(bytes))
      /\ ideal' = [ideal EXCEPT ![i] = c] /\ s \in Fresh(BlockCount(n) - N(i)) /\ n > files[i].len
  BY DEF GrowToBytes
<1>8. v \in Seq(Byte) /\ Len(v) = len /\ \A p \in 1 .. len : v[p] = old[p]
  <2>1. v = SubSeq(ideal[i].bytes, 1, files[i].len) /\ files[i].len <= files[i].len /\ files[i].len \in Nat
    BY <1>1, ContentAt DEF RefVisible
  <2> QED
    BY <2>1, RefVisibleIs
<1> HIDE DEF len, k, g, v, old
<1>9. l \in Seq(Byte) /\ Len(l) = k /\ \A p \in 1 .. k : l[p] = IF p <= len THEN old[p] ELSE 0
  <2>1. l \in Seq(Byte) /\ Len(l) = Len(old)
    BY <1>1, <1>6, ZeroTailType
  <2>2. \A p \in 1 .. k : l[p] = IF p <= len THEN old[p] ELSE 0
    BY <1>6 DEF ZeroTail
  <2> QED
    BY <1>6, <2>1, <2>2
<1>10. r \in Seq(Byte) /\ Len(r) = g /\ \A p \in 1 .. g : r[p] = 0
  BY <1>5, ZerosType DEF Zeros
<1>11. o \in Seq(Byte) /\ Len(o) = n - len /\ \A p \in 1 .. n - len : o[p] = 0
  BY <1>2, ZerosType DEF Zeros
<1> HIDE DEF l, r, o
<1>12. bytes \in Seq(Byte) /\ Len(bytes) = Len(l) + Len(r)
       /\ \A p \in 1 .. Len(l) + Len(r) : bytes[p] = IF p <= Len(l) THEN l[p] ELSE r[p - Len(l)]
  <2>1. l \in Seq(Byte) /\ r \in Seq(Byte)
    BY <1>9, <1>10
  <2> QED
    BY <2>1, ConcatProperties
<1>13. u \in Seq(Byte) /\ Len(u) = Len(v) + Len(o)
       /\ \A p \in 1 .. Len(v) + Len(o) : u[p] = IF p <= Len(v) THEN v[p] ELSE o[p - Len(v)]
  <2>1. v \in Seq(Byte) /\ o \in Seq(Byte)
    BY <1>8, <1>11
  <2> QED
    BY <2>1, ConcatProperties
<1> HIDE DEF bytes, u
<1>14. Len(bytes) = k + g /\ Len(u) = n
  BY <1>1, <1>2, <1>8, <1>9, <1>10, <1>11, <1>12, <1>13
<1>15. ASSUME NEW p \in 1 .. k + g PROVE bytes[p] = IF p <= len THEN old[p] ELSE 0
  <2>1. bytes[p] = IF p <= k THEN l[p] ELSE r[p - k]
    BY <1>9, <1>10, <1>12
  <2>2. CASE p <= k
    <3>1. p \in 1 .. k
      BY <1>1, <1>5, <2>2
    <3> QED
      BY <1>9, <2>1, <2>2, <3>1
  <2>3. CASE ~ (p <= k)
    <3>1. p - k \in 1 .. g /\ ~ (p <= len)
      BY <1>1, <1>5, <2>3
    <3> QED
      BY <1>10, <2>1, <2>3, <3>1
  <2> QED
    BY <2>2, <2>3
<1>16. ASSUME NEW p \in 1 .. n PROVE u[p] = IF p <= len THEN old[p] ELSE 0
  <2>0. len + (n - len) = n
    BY <1>1
  <2>1. u[p] = IF p <= len THEN v[p] ELSE o[p - len]
    BY <1>8, <1>11, <1>13, <2>0
  <2>2. CASE p <= len
    <3>1. p \in 1 .. len
      BY <1>1, <2>2
    <3> QED
      BY <1>8, <2>1, <2>2, <3>1
  <2>3. CASE ~ (p <= len)
    <3>1. p - len \in 1 .. n - len
      BY <1>1, <2>3
    <3> QED
      BY <1>11, <2>1, <2>3, <3>1
  <2> QED
    BY <2>2, <2>3
<1>17. \A p \in 1 .. Len(bytes) : bytes[p] = IF p <= Len(u) THEN u[p] ELSE 0
  <2> SUFFICES ASSUME NEW p \in 1 .. k + g PROVE bytes[p] = IF p <= n THEN u[p] ELSE 0
    BY <1>14
  <2>1. p <= n => p \in 1 .. n
    BY <1>1, <1>5
  <2>2. ~ (p <= n) => ~ (p <= len)
    BY <1>1, <1>2, <1>5
  <2> QED
    BY <1>15, <1>16, <2>1, <2>2
<1>18. Len(bytes) = BlockSize * BlockCount(Len(u))
  BY <1>5, <1>14
<1>19. c = [bytes |-> bytes, eof |-> n]
  <2>1. RefExact(u) = [bytes |-> bytes, eof |-> Len(u)]
    BY <1>12, <1>13, <1>17, <1>18, ExactBytes
  <2> QED
    BY <1>14, <2>1
<1>20. bytes \in Seq(Byte) /\ Len(bytes) = BlockSize * BlockCount(n)
  BY <1>12, <1>14, <1>18
<1> HIDE DEF c
<1> QED
  BY <1>7, <1>19, <1>20, ExtendContent

\* What is written, from off on, when it ends past the end of file: the bytes before
\* off, of which those past the old end are zero, and then d.
LEMMA ExtendingReference ==
  ASSUME NEW v \in Seq(Byte), NEW gap \in Nat, NEW off \in Nat, NEW d \in Seq(Byte), d # <<>>,
         off + Len(d) > Len(v), gap = IF off > Len(v) THEN off - Len(v) ELSE 0
  PROVE  /\ RefWrite(v \o Zeros(gap), off, d) \in Seq(Byte)
         /\ Len(RefWrite(v \o Zeros(gap), off, d)) = off + Len(d)
         /\ \A p \in 1 .. off + Len(d) :
              RefWrite(v \o Zeros(gap), off, d)[p] =
                IF p > off THEN d[p - off] ELSE IF p <= Len(v) THEN v[p] ELSE 0
<1> DEFINE n == Len(v)
           m == Len(d)
           o == Zeros(gap)
           t == v \o o
           l == SubSeq(t, 1, off)
           r == SubSeq(t, off + m + 1, Len(t))
           w == l \o d
<1>1. n \in Nat /\ m \in Nat /\ m # 0 /\ off + m > n
  BY LenProperties, EmptySeq
<1>2. o \in Seq(Byte) /\ Len(o) = gap /\ \A p \in 1 .. gap : o[p] = 0
  BY ZerosType DEF Zeros
<1>3. RefWrite(t, off, d) = l \o d \o r
  BY DEF RefWrite, Splice
<1>4. gap = IF off > n THEN off - n ELSE 0
  OBVIOUS
<1> HIDE DEF o
<1>5. t \in Seq(Byte) /\ Len(t) = n + Len(o)
      /\ \A p \in 1 .. n + Len(o) : t[p] = IF p <= n THEN v[p] ELSE o[p - n]
  <2>1. o \in Seq(Byte)
    BY <1>2
  <2> QED
    BY <2>1, ConcatProperties
<1> HIDE DEF n, m, t
<1>6. Len(t) = n + gap /\ off <= n + gap /\ n + gap < off + m
  BY <1>1, <1>2, <1>4, <1>5
<1>7. r = <<>>
  <2> DEFINE x == off + m + 1
             y == Len(t)
  <2>1. x \in Int /\ y \in Int /\ y < x
    BY <1>1, <1>6
  <2> HIDE DEF x, y
  <2>2. SubSeq(t, x, y) = <<>>
    BY <2>1, SubSeqEmpty
  <2> QED
    BY <2>2 DEF x, y
<1>8. l \in Seq(Byte) /\ Len(l) = off
  <2>1. off <= Len(t) /\ t \in Seq(Byte) /\ off <= off
    BY <1>1, <1>5, <1>6
  <2> QED
    BY <2>1, CutInThree
<1>9. \A p \in 1 .. off : l[p] = t[p]
  <2>1. \A x \in 1 .. off : t[x] \in Byte
    <3>1. \A x \in 1 .. off : x \in 1 .. Len(t)
      BY <1>1, <1>6
    <3> QED
      BY <1>5, <3>1, ElementOfSeq
  <2>2. \A x \in 1 .. off - 1 + 1 : l[x] = t[1 + x - 1]
    BY <2>1, SubSeqProperties
  <2> QED
    BY <2>2
<1>10. ASSUME NEW p \in 1 .. off PROVE t[p] = IF p <= n THEN v[p] ELSE 0
  <2>1. p \in 1 .. n + gap
    BY <1>1, <1>6
  <2>2. t[p] = IF p <= n THEN v[p] ELSE o[p - n]
    BY <1>2, <1>5, <2>1
  <2>3. ~ (p <= n) => p - n \in 1 .. gap
    BY <1>1, <2>1
  <2> QED
    BY <1>2, <2>2, <2>3
<1> HIDE DEF l, r
<1>11. w \in Seq(Byte) /\ Len(w) = off + m
       /\ \A p \in 1 .. off + m : w[p] = IF p <= off THEN l[p] ELSE d[p - off]
  <2>1. w \in Seq(Byte) /\ Len(w) = Len(l) + Len(d)
        /\ \A p \in 1 .. Len(l) + Len(d) : w[p] = IF p <= Len(l) THEN l[p] ELSE d[p - Len(l)]
    <3>1. l \in Seq(Byte)
      BY <1>8
    <3> QED
      BY <3>1, ConcatProperties
  <2> QED
    BY <1>8, <2>1 DEF m
<1> HIDE DEF w
<1>12. RefWrite(t, off, d) = w
  <2>1. w \o <<>> = w
    BY <1>11, ConcatEmptySeq
  <2> QED
    BY <1>3, <1>7, <2>1 DEF w
<1>13. ASSUME NEW p \in 1 .. off + m
       PROVE  w[p] = IF p > off THEN d[p - off] ELSE IF p <= n THEN v[p] ELSE 0
  <2>1. p > off <=> ~ (p <= off)
    BY <1>1
  <2>2. p <= off => p \in 1 .. off
    BY <1>1
  <2> QED
    BY <1>9, <1>10, <1>11, <2>1, <2>2
<1>14. /\ w \in Seq(Byte) /\ Len(w) = off + m
       /\ \A p \in 1 .. off + m : w[p] = IF p > off THEN d[p - off] ELSE IF p <= n THEN v[p] ELSE 0
  BY <1>11, <1>13
<1>15. RefWrite(v \o Zeros(gap), off, d) = w
  BY <1>12 DEF t, o
<1> HIDE DEF t, o
<1> QED
  BY <1>14, <1>15 DEF n, m

\* A write past the end of file, with the gap read as zeros.
LEMMA ExtendingWriteStep ==
  ASSUME FileInv, NEW i \in File, NEW off \in Nat, NEW d \in Seq(Byte), NEW s,
         ExtendingWrite(i, off, d, s)
  PROVE  Confined({i})
<1>0. Apart({i})
  BY ExtendingWriteApart
<1> SUFFICES ASSUME ContentInv PROVE ContentInv'
  BY <1>0 DEF Confined
<1>1. CASE WriteRange(i, off, d)
  BY <1>1, WriteRangeStep DEF Confined
<1>2. CASE ~ WriteRange(i, off, d)
  <2> DEFINE n == off + Len(d)
             old == Padded(i)
             eof == files[i].len
             bytes == ExtendedBytes(old, eof, off, d)
             m == BlockSize * BlockCount(n)
             v == RefVisible(i)
             gap == IF off > eof THEN off - eof ELSE 0
             u == RefWrite(v \o Zeros(gap), off, d)
             c == RefExact(u)
  <2>1. /\ n \in Nat /\ Len(d) \in Nat /\ eof \in Nat /\ m \in Nat
        /\ old \in Seq(Byte) /\ eof <= Len(old) /\ Len(old) \in Nat
    <3>1. n \in Nat /\ Len(d) \in Nat
      BY LenProperties
    <3>2. eof \in Nat /\ old \in Seq(Byte) /\ eof <= Len(old) /\ Len(old) \in Nat
      BY FileFacts, PaddedType
    <3>3. m \in Nat
      <4>1. BlockCount(n) \in Nat /\ BlockSize \in Nat
        BY <3>1, BlockCountBounds, GeometryAssumption
      <4> QED
        BY <4>1, SMT
    <3> QED
      BY <3>1, <3>2, <3>3
  <2>2. /\ d # <<>> /\ n > files[i].len /\ s \in Fresh(BlockCount(n) - N(i))
        /\ files' = [files EXCEPT ![i] = [blocks |-> files[i].blocks \o s, len |-> n]]
        /\ alloc' = alloc \cup Range(s)
        /\ data' = Stored(files[i].blocks \o s, Chunks(bytes))
    BY <1>2 DEF ExtendingWrite
  <2>3. ideal' = [ideal EXCEPT ![i] = c]
    <3>1. ideal[i].eof = eof
      BY ContentAt
    <3>2. ideal' = [ideal EXCEPT ![i] =
             LET gp == IF off > @.eof THEN off - @.eof ELSE 0
             IN RefExact(RefWrite(RefVisible(i) \o Zeros(gp), off, d))]
      BY <1>2 DEF ExtendingWrite
    <3> HIDE DEF eof
    <3> QED
      BY <3>1, <3>2
  <2>4. v \in Seq(Byte) /\ Len(v) = eof /\ \A p \in 1 .. eof : v[p] = old[p]
    <3>1. v = SubSeq(ideal[i].bytes, 1, files[i].len) /\ files[i].len <= files[i].len /\ files[i].len \in Nat
      BY <2>1, ContentAt DEF RefVisible
    <3> QED
      BY <3>1, RefVisibleIs
  <2> HIDE DEF v, old, eof
  <2>5. u \in Seq(Byte) /\ Len(u) = n
        /\ \A p \in 1 .. n : u[p] = IF p > off THEN d[p - off] ELSE IF p <= eof THEN v[p] ELSE 0
    <3> DEFINE lv == Len(v)
    <3>1. lv = eof /\ v \in Seq(Byte)
      BY <2>4
    <3>2. gap \in Nat
      BY <2>1
    <3>3. gap = IF off > Len(v) THEN off - Len(v) ELSE 0
      BY <3>1
    <3>4. off + Len(d) > Len(v)
      BY <2>2, <3>1 DEF eof
    <3> HIDE DEF gap
    <3>5. u \in Seq(Byte) /\ Len(u) = off + Len(d)
          /\ \A p \in 1 .. off + Len(d) :
                u[p] = IF p > off THEN d[p - off] ELSE IF p <= Len(v) THEN v[p] ELSE 0
      <4>1. v \in Seq(Byte) /\ d # <<>>
        BY <2>2, <3>1
      <4> QED
        BY <3>2, <3>3, <3>4, <4>1, ExtendingReference
    <3> QED
      BY <3>1, <3>5
  <2> HIDE DEF u
  <2>6. ASSUME NEW p \in 1 .. m
        PROVE  bytes[p] = IF p <= n THEN u[p] ELSE 0
    <3>0. bytes[p] = CASE p > off /\ p <= n -> d[p - off]
                       [] p <= off /\ p <= eof -> old[p]
                       [] OTHER -> 0
      BY DEF ExtendedBytes
    <3> HIDE DEF bytes, n, m
    <3>1. CASE p > off /\ p <= n
      <4>1. ~ (p <= off) /\ p \in 1 .. n
        BY <2>1, <3>1
      <4>2. bytes[p] = d[p - off]
        BY <3>0, <3>1, <4>1
      <4>3. u[p] = d[p - off]
        BY <2>5, <3>1, <4>1
      <4> QED
        BY <3>1, <4>2, <4>3
    <3>2. CASE p <= off /\ p <= eof
      <4>1. ~ (p > off) /\ p \in 1 .. n /\ p <= n /\ p \in 1 .. eof
        BY <2>1, <3>2 DEF n
      <4>2. bytes[p] = old[p]
        BY <3>0, <3>2, <4>1
      <4>3. u[p] = v[p]
        BY <2>5, <3>2, <4>1
      <4> QED
        BY <2>4, <4>1, <4>2, <4>3
    <3>3. CASE p <= off /\ ~ (p <= eof)
      <4>1. ~ (p > off) /\ p \in 1 .. n /\ p <= n
        BY <2>1, <3>3 DEF n
      <4>2. bytes[p] = 0
        BY <3>0, <3>3, <4>1
      <4>3. u[p] = 0
        BY <2>5, <3>3, <4>1
      <4> QED
        BY <4>1, <4>2, <4>3
    <3>4. CASE ~ (p <= n)
      <4>1. ~ (p <= off)
        BY <2>1, <3>4 DEF n
      <4>2. bytes[p] = 0
        BY <3>0, <3>4, <4>1
      <4> QED
        BY <3>4, <4>2
    <3>5. p > off \/ p <= off
      BY <2>1
    <3> QED
      BY <3>1, <3>2, <3>3, <3>4, <3>5
  <2>7. bytes \in Seq(Byte) /\ Len(bytes) = m
    <3>1. \A p \in 1 .. n : u[p] \in Byte
      BY <2>5, ElementOfSeq
    <3>2. \A p \in 1 .. m : bytes[p] \in Byte
      <4> SUFFICES ASSUME NEW p \in 1 .. m PROVE bytes[p] \in Byte
        OBVIOUS
      <4>1. p <= n => p \in 1 .. n
        BY <2>1
      <4> HIDE DEF bytes, n, m
      <4> QED
        BY <2>6, <3>1, <4>1, ByteAssumption
    <3>3. bytes = [p \in 1 .. m |-> bytes[p]]
      BY DEF ExtendedBytes
    <3> HIDE DEF bytes, m
    <3>4. bytes \in [1 .. m -> Byte]
      BY <3>2, <3>3
    <3> QED
      BY <2>1, <3>4, SeqOfFunction
  <2> HIDE DEF bytes, n
  <2>8. c = [bytes |-> bytes, eof |-> n]
    <3>1. Len(bytes) = BlockSize * BlockCount(Len(u))
      BY <2>5, <2>7
    <3>2. \A p \in 1 .. Len(bytes) : bytes[p] = IF p <= Len(u) THEN u[p] ELSE 0
      BY <2>5, <2>6, <2>7
    <3>3. u \in Seq(Byte) /\ bytes \in Seq(Byte)
      BY <2>5, <2>7
    <3>4. RefExact(u) = [bytes |-> bytes, eof |-> Len(u)]
      BY <3>1, <3>2, <3>3, ExactBytes
    <3> QED
      BY <2>5, <3>4
  <2> HIDE DEF c
  <2>9. bytes \in Seq(Byte) /\ Len(bytes) = BlockSize * BlockCount(n)
    BY <2>7
  <2> QED
    BY <2>1, <2>2, <2>3, <2>8, <2>9, ExtendContent
<1> QED
  BY <1>1, <1>2

\* The file is cut to a length in bytes and the rest of its last block zeroed.
LEMMA TruncateToBytesStep ==
  ASSUME FileInv, NEW i \in File, NEW n \in Nat, TruncateToBytes(i, n)
  PROVE  Confined({i})
<1>0. Apart({i})
  BY TruncateToBytesApart
<1> SUFFICES ASSUME ContentInv PROVE ContentInv'
  BY <1>0 DEF Confined
<1> DEFINE m == BlockCount(n)
           k == N(i)
           e == <<>>
           s == files[i].blocks
           h == ReplaceRange(files[i], m, k, e)
           f == [h EXCEPT !.len = n]
           v == Splice(s, m, k, e)
           kept == Slice(i, 0, m)
           b == BlockSize * m
           pad == Padded(i)
           old == SubSeq(pad, 1, b)
           bytes == ZeroTail(old, n)
           d == Chunks(bytes)
           u == SubSeq(ideal[i].bytes, 1, n)
           c == RefExact(u)
<1>1. /\ files' = [files EXCEPT ![i] = f] /\ data' = Stored(kept, d)
      /\ ideal' = [ideal EXCEPT ![i] = c]
  BY DEF TruncateToBytes
<1>2. n <= files[i].len /\ files[i].len \in Nat
  BY FileFacts DEF TruncateToBytes
<1>3. m \in Nat /\ k \in Nat /\ m <= k /\ k <= N(i) /\ 0 <= m /\ m <= N(i) /\ k = Len(s)
  <2>1. BlockCount(files[i].len) = N(i) /\ N(i) \in Nat
    BY FileFacts DEF FileInv, N
  <2>2. m \in Nat /\ m <= BlockCount(files[i].len)
    BY <1>2, <2>1, BlockCountOrder, BlockCountBounds
  <2> QED
    BY <2>1, <2>2 DEF N
<1>4. n <= b /\ b \in Nat
  <2>1. BlockSize \in Nat /\ n <= BlockSize * BlockCount(n)
    BY GeometryAssumption, BlockCountBounds
  <2>2. b \in Nat
    <3> HIDE DEF m
    <3> QED
      BY <1>3, <2>1, SMT
  <2> QED
    BY <2>1, <2>2
<1>5. s \in Seq(Block) /\ IsInjective(s) /\ data \in [Block -> Image]
  BY FileFacts DEF FileInv
<1>6. kept = SubSeq(s, 1, m) /\ kept \in Seq(Block) /\ IsInjective(kept) /\ Len(kept) = m
  <2> HIDE DEF m
  <2>1. kept = SubSeq(s, 0 + 1, m) /\ 0 + 1 = 1
    BY DEF Slice
  <2>2. kept \in Seq(Block) /\ IsInjective(kept)
    BY <1>3, SliceFacts
  <2>3. Len(kept) = m - 0
    BY <1>3, SliceFacts
  <2> QED
    BY <1>3, <2>1, <2>2, <2>3
<1>7. files'[i] = [blocks |-> v, len |-> n]
  <2>1. f = [blocks |-> v, len |-> n]
    BY DEF ReplaceRange
  <2> QED
    BY <1>1, <2>1 DEF FileInv
<1> HIDE DEF kept
<1>8. v = kept
  <2> HIDE DEF s, m
  <2> DEFINE r == SubSeq(s, k + 1, Len(s))
  <2>1. v = SubSeq(s, 1, m) \o e \o r
    BY DEF Splice
  <2>2. r = e
    <3> DEFINE x == k + 1
               y == Len(s)
    <3>1. x \in Int /\ y \in Int /\ y < x
      BY <1>3
    <3> HIDE DEF x, y
    <3>2. SubSeq(s, x, y) = <<>>
      BY <3>1, SubSeqEmpty
    <3> QED
      BY <3>2 DEF x, y
  <2>3. kept \o e = kept
    BY <1>6, ConcatEmptySeq
  <2> HIDE DEF r, e
  <2> QED
    BY <1>6, <2>1, <2>2, <2>3
<1>9. pad \in Seq(Byte) /\ b <= Len(pad)
  <2>1. BlockSize \in Nat /\ N(i) \in Nat
    BY GeometryAssumption, FileFacts
  <2>2. b <= BlockSize * N(i)
    BY <1>3, <2>1, ScaledOrder
  <2>3. pad \in Seq(Byte) /\ Len(pad) = BlockSize * N(i)
    BY PaddedType
  <2> QED
    BY <2>2, <2>3
<1>10. u \in Seq(Byte) /\ Len(u) = n /\ \A p \in 1 .. n : u[p] = pad[p]
  BY <1>2, RefVisibleIs
<1> HIDE DEF b, pad, u, m
<1>11. old \in Seq(Byte) /\ Len(old) = b
  <2>1. b <= b
    BY <1>4
  <2> QED
    BY <1>4, <1>9, <2>1, CutInThree
<1>12. \A p \in 1 .. b : old[p] = pad[p]
  <2>0. Len(pad) \in Nat
    BY <1>9, LenProperties
  <2>1. \A x \in 1 .. b : pad[x] \in Byte
    <3>1. \A x \in 1 .. b : x \in 1 .. Len(pad)
      BY <1>4, <1>9, <2>0
    <3> QED
      BY <1>9, <3>1, ElementOfSeq
  <2>2. \A x \in 1 .. b - 1 + 1 : old[x] = pad[1 + x - 1]
    BY <1>4, <2>1, SubSeqProperties
  <2> QED
    BY <1>4, <2>2
<1> HIDE DEF old
<1>13. bytes \in Seq(Byte) /\ Len(bytes) = b
  BY <1>11, ZeroTailType
<1>14. \A p \in 1 .. b : bytes[p] = IF p <= n THEN old[p] ELSE 0
  <2>1. DOMAIN old = 1 .. b
    BY <1>11, LenProperties
  <2> QED
    BY <2>1 DEF ZeroTail
<1> HIDE DEF bytes
<1>15. \A p \in 1 .. Len(bytes) : bytes[p] = IF p <= Len(u) THEN u[p] ELSE 0
  <2> SUFFICES ASSUME NEW p \in 1 .. b PROVE bytes[p] = IF p <= n THEN u[p] ELSE 0
    BY <1>10, <1>13
  <2>1. p <= n => p \in 1 .. n
    BY <1>4
  <2> QED
    BY <1>10, <1>12, <1>14, <2>1
<1>16. c = [bytes |-> bytes, eof |-> n]
  <2>1. Len(bytes) = BlockSize * BlockCount(Len(u))
    BY <1>10, <1>13 DEF b, m
  <2>2. u \in Seq(Byte) /\ bytes \in Seq(Byte)
    BY <1>10, <1>13
  <2>3. RefExact(u) = [bytes |-> bytes, eof |-> Len(u)]
    BY <1>15, <2>1, <2>2, ExactBytes
  <2> QED
    BY <1>10, <2>3
<1>17. d \in Seq(Image) /\ Len(d) = m /\ Flat(d) = bytes
  <2>1. Len(bytes) = BlockSize * m
    BY <1>13 DEF b
  <2> QED
    BY <1>3, <1>13, <2>1, ChunksType, FlatChunks
<1> HIDE DEF d, c
<1>18. ImagesIn(data', kept) = d
  <2>1. Len(kept) = Len(d)
    BY <1>6, <1>17
  <2> QED
    BY <1>1, <1>5, <1>6, <1>17, <2>1, StoredImages
<1>19. c = Content(data', files'[i])
  <2> DEFINE D == data'
             g == files'[i]
  <2>1. g.blocks = kept /\ g.len = n /\ ImagesIn(D, kept) = d
    BY <1>7, <1>8, <1>18
  <2> HIDE DEF D, g
  <2>2. Content(D, g) = [bytes |-> Flat(ImagesIn(D, g.blocks)), eof |-> g.len]
    BY DEF Content
  <2>3. c = Content(D, g)
    BY <1>16, <1>17, <2>1, <2>2
  <2> QED
    BY <2>3 DEF D, g
<1> QED
  BY <1>1, <1>19, <1>0, OneContent

(***************************************************************************)
(* The operations made of these.                                           *)
(***************************************************************************)
\* Appending, at the end of the file.
LEMMA AppendStep ==
  ASSUME FileInv, NEW i \in File, NEW s, NEW d \in Seq(Image),
         AppendBlocks(i, s, d) \/ AppendContiguous(i, s, d)
  PROVE  Confined({i})
<1>1. Brings(s, d) /\ Edit(i, N(i), N(i), s, d)
  BY FreshFacts, LenProperties DEF AppendBlocks, AppendContiguous, Brings
<1>2. N(i) \in Nat
  BY FileFacts
<1> QED
  BY <1>1, <1>2, EditStep

\* Inserting, anywhere up to the end.
LEMMA InsertStep ==
  ASSUME FileInv, NEW i \in File, NEW a \in Nat, NEW s, NEW d \in Seq(Image),
         InsertBlocks(i, a, s, d) \/ InsertContiguous(i, a, s, d)
  PROVE  Confined({i})
<1>1. Brings(s, d) /\ Edit(i, a, a, s, d) /\ a <= N(i)
  BY FreshFacts, LenProperties DEF InsertBlocks, InsertContiguous, Brings
<1> QED
  BY <1>1, EditStep

\* Replacing a range by as many blocks as are given.
LEMMA ReplaceStep ==
  ASSUME FileInv, NEW i \in File, NEW a \in Nat, NEW z \in Nat, NEW s, NEW d \in Seq(Image),
         ReplaceBlocks(i, a, z, s, d) \/ ReplaceContiguous(i, a, z, s, d)
  PROVE  Confined({i})
<1>1. Brings(s, d) /\ Edit(i, a, z, s, d) /\ a <= z /\ z <= N(i)
  BY FreshFacts, LenProperties DEF ReplaceBlocks, ReplaceContiguous, Brings
<1> QED
  BY <1>1, EditStep

\* Cutting a range out.
LEMMA CutStep ==
  ASSUME FileInv, NEW i \in File, NEW a \in Nat, NEW z \in Nat, a <= z, z <= N(i),
         Edit(i, a, z, <<>>, <<>>)
  PROVE  Confined({i})
<1>1. Brings(<<>>, <<>>)
  BY EmptySeq DEF Brings, IsInjective, Range
<1> QED
  BY <1>1, EditStep

\* The file is cut to whole blocks.
LEMMA TruncateToBlocksStep ==
  ASSUME FileInv, NEW i \in File, NEW n \in Nat, TruncateToBlocks(i, n)
  PROVE  Confined({i})
<1>1. N(i) \in Nat /\ n <= N(i) /\ Edit(i, n, N(i), <<>>, <<>>)
  BY FileFacts DEF TruncateToBlocks
<1> QED
  BY <1>1, CutStep

\* The file grows by whole blocks of zeros.
LEMMA GrowToBlocksStep ==
  ASSUME FileInv, NEW i \in File, NEW n \in Nat, NEW s, GrowToBlocks(i, n, s)
  PROVE  Confined({i})
<1>1. n - N(i) \in Nat
  BY FileFacts DEF GrowToBlocks
<1>2. [m \in 1 .. n - N(i) |-> Zeros(BlockSize)] \in Seq(Image)
  BY <1>1, PayloadImages
<1> QED
  BY <1>2, AppendStep DEF GrowToBlocks

\* zero_file_range_journaled.
LEMMA ZeroRangeStep ==
  ASSUME FileInv, NEW i \in File, NEW off \in Nat, NEW n \in Nat, ZeroRange(i, off, n)
  PROVE  Confined({i})
<1>1. Zeros(n) \in Seq(Byte) /\ WriteRange(i, off, Zeros(n))
  BY ZerosType DEF ZeroRange
<1> QED
  BY <1>1, WriteRangeStep

\* copy_file_range_journaled.
LEMMA CopyRangeStep ==
  ASSUME FileInv, NEW i \in File, NEW off \in Nat, NEW j \in File, NEW to \in Nat,
         NEW n \in Nat, CopyRange(i, off, j, to, n)
  PROVE  Confined({j})
<1> DEFINE s == Visible(i)
           r == RefVisible(i)
           z == off + n
<1>1. s \in Seq(Byte) /\ Len(s) = files[i].len
  BY VisibleType
<1>2. z \in Nat /\ off <= z /\ z <= Len(s) /\ WriteAs(j, to, SubSeq(s, off + 1, z), SubSeq(r, off + 1, z))
  BY <1>1 DEF CopyRange
<1>3. ContentInv => r = s
  BY ContentAt DEF RefVisible, Visible
<1> HIDE DEF s, r, z
<1>4. SubSeq(s, off + 1, z) \in Seq(Byte)
  BY <1>1, <1>2, CutInThree
<1> QED
  BY <1>2, <1>3, <1>4, WriteAsStep

\* A file without a name is empty.
NamesInv ==
  /\ names \in [Name -> File \cup {None}]
  /\ \A i \in File : (\A n \in Name : names[n] # i) => files[i].blocks = <<>>

(***************************************************************************)
(* The operations on paths.                                                *)
(***************************************************************************)
\* A path leads to a file that has a name.
LEMMA PathFacts ==
  ASSUME NamesInv, NEW p \in Paths
  PROVE  /\ At(p) \subseteq File
         /\ \A i \in At(p) : \E n \in Name : names[n] = i
<1>1. (IF p \in Name THEN p ELSE Symlink[p]) \in Name
  BY NameAssumption DEF Paths
<1> QED
  BY <1>1 DEF At, NamesInv

\* A call on one file that goes through to an operation on its data.
Plain(p) == \E i \in At(p) : Confined({i}) /\ Delegates({i})

\* The block-granular calls on one path.
LEMMA BlockCallsPlain ==
  ASSUME FileInv, NamesInv, NEW p \in Paths, BlockCalls(p)
  PROVE  Plain(p)
<1>0. At(p) \subseteq File /\ \A i \in At(p) : N(i) \in Nat
  BY PathFacts, FileFacts
<1>a. \A i \in At(p) : \A z \in Position(i) : z \in Nat /\ \A a \in Before(z) : a \in Nat
  BY <1>0 DEF Position, Before
<1>b. ImageSeqs \subseteq Seq(Image)
  BY PayloadImages
<1>1. CASE AppendBlocksAt(p)
  <2>1. PICK i \in At(p), d \in ImageSeqs : \E s \in Fresh(Len(d)) : AppendBlocks(i, s, d) /\ Delegates({i})
    BY <1>1 DEF AppendBlocksAt
  <2> QED
    BY <1>0, <2>1, AppendStep, PayloadImages DEF Plain
<1>2. CASE AppendContiguousAt(p)
  <2>1. PICK i \in At(p), d \in ImageSeqs : \E s \in FreshRun(Len(d)) : AppendContiguous(i, s, d) /\ Delegates({i})
    BY <1>2 DEF AppendContiguousAt
  <2> QED
    BY <1>0, <2>1, AppendStep, PayloadImages DEF Plain
<1>3. CASE AppendZeroedContiguousAt(p)
  <2>1. PICK i \in At(p), n \in 1 .. MaxRun :
          \E s \in FreshRun(n) : AppendContiguous(i, s, [m \in 1 .. n |-> Zeros(BlockSize)]) /\ Delegates({i})
    BY <1>3 DEF AppendZeroedContiguousAt
  <2>2. [m \in 1 .. n |-> Zeros(BlockSize)] \in Seq(Image)
    BY GeometryAssumption, PayloadImages
  <2> QED
    BY <1>0, <2>1, <2>2, AppendStep DEF Plain
<1>4. CASE InsertBlocksAt(p)
  <2>1. PICK i \in At(p) : \E a \in Position(i), d \in ImageSeqs :
          \E s \in Fresh(Len(d)) : InsertBlocks(i, a, s, d) /\ Delegates({i})
    BY <1>4 DEF InsertBlocksAt
  <2> QED
    BY <1>0, <1>a, <1>b, <2>1, InsertStep DEF Plain
<1>5. CASE InsertContiguousAt(p)
  <2>1. PICK i \in At(p) : \E a \in Position(i), d \in ImageSeqs :
          \E s \in FreshRun(Len(d)) : InsertContiguous(i, a, s, d) /\ Delegates({i})
    BY <1>5 DEF InsertContiguousAt
  <2> QED
    BY <1>0, <1>a, <1>b, <2>1, InsertStep DEF Plain
<1>6. CASE InsertZeroedContiguousAt(p)
  <2>1. PICK i \in At(p) : \E a \in Position(i), n \in 1 .. MaxRun :
          \E s \in FreshRun(n) : InsertContiguous(i, a, s, [m \in 1 .. n |-> Zeros(BlockSize)]) /\ Delegates({i})
    BY <1>6 DEF InsertZeroedContiguousAt
  <2>2. \A n \in 1 .. MaxRun : [m \in 1 .. n |-> Zeros(BlockSize)] \in Seq(Image)
    BY GeometryAssumption, PayloadImages
  <2> QED
    BY <1>0, <1>a, <2>1, <2>2, InsertStep DEF Plain
<1>7. CASE ReplaceBlocksAt(p)
  <2>1. PICK i \in At(p) : \E z \in Position(i), d \in ImageSeqs : \E a \in Before(z) :
          \E s \in Fresh(Len(d)) : ReplaceBlocks(i, a, z, s, d) /\ Delegates({i})
    BY <1>7 DEF ReplaceBlocksAt
  <2> QED
    BY <1>0, <1>a, <1>b, <2>1, ReplaceStep DEF Plain
<1>8. CASE ReplaceContiguousAt(p)
  <2>1. PICK i \in At(p) : \E z \in Position(i), d \in ImageSeqs : \E a \in Before(z) :
          \E s \in FreshRun(Len(d)) : ReplaceContiguous(i, a, z, s, d) /\ Delegates({i})
    BY <1>8 DEF ReplaceContiguousAt
  <2> QED
    BY <1>0, <1>a, <1>b, <2>1, ReplaceStep DEF Plain
<1>9. CASE ReplaceZeroedContiguousAt(p)
  <2>1. PICK i \in At(p) : \E a \in Position(i), n \in 1 .. MaxRun : \E s \in FreshRun(n) :
          /\ ReplaceContiguous(i, a, a + n, s, [m \in 1 .. n |-> Zeros(BlockSize)])
          /\ Delegates({i})
    BY <1>9 DEF ReplaceZeroedContiguousAt
  <2>2. \A n \in 1 .. MaxRun : n \in Nat /\ [m \in 1 .. n |-> Zeros(BlockSize)] \in Seq(Image)
    BY GeometryAssumption, PayloadImages
  <2>3. \A a \in Position(i), n \in 1 .. MaxRun : a \in Nat /\ a + n \in Nat
    BY <1>0, GeometryAssumption DEF Position
  <2> QED
    BY <1>0, <2>1, <2>2, <2>3, ReplaceStep DEF Plain
<1>10. CASE RemoveBlockAt(p) \/ CollapseRangeAt(p)
  <2>1. PICK i \in At(p) :
          /\ \/ \E a \in Position(i) : RemoveBlock(i, a)
             \/ \E z \in Position(i) : \E a \in Before(z) : CollapseRange(i, a, z)
          /\ Delegates({i})
    BY <1>10 DEF RemoveBlockAt, CollapseRangeAt
  <2>2. \E a, z \in Nat : a <= z /\ z <= N(i) /\ Edit(i, a, z, <<>>, <<>>)
    <3>1. ASSUME NEW a \in Position(i), RemoveBlock(i, a)
          PROVE  a \in Nat /\ a + 1 \in Nat /\ a <= a + 1 /\ a + 1 <= N(i)
                 /\ Edit(i, a, a + 1, <<>>, <<>>)
      BY <1>0, <3>1 DEF RemoveBlock, Position
    <3>2. ASSUME NEW z \in Position(i), NEW a \in Before(z), CollapseRange(i, a, z)
          PROVE  a \in Nat /\ z \in Nat /\ a <= z /\ z <= N(i) /\ Edit(i, a, z, <<>>, <<>>)
      BY <1>0, <3>2 DEF CollapseRange, Position, Before
    <3> QED
      BY <2>1, <3>1, <3>2
  <2> QED
    BY <1>0, <2>1, <2>2, CutStep DEF Plain
<1>11. CASE TruncateToBlocksAt(p)
  <2>1. PICK i \in At(p) : \E n \in Position(i) : TruncateToBlocks(i, n) /\ Delegates({i})
    BY <1>11 DEF TruncateToBlocksAt
  <2> QED
    BY <1>0, <2>1, TruncateToBlocksStep DEF Plain, Position
<1>12. CASE GrowToBlocksAt(p) \/ ResizeToBlocksAt(p)
  <2>1. PICK i \in At(p), n \in Index, s \in FreshSeqs :
          (GrowToBlocks(i, n, s) \/ TruncateToBlocks(i, n)) /\ Delegates({i})
    BY <1>12 DEF GrowToBlocksAt, ResizeToBlocksAt, ResizeToBlocks
  <2>2. n \in Nat
    BY GeometryAssumption DEF Index
  <2> QED
    BY <1>0, <2>1, <2>2, GrowToBlocksStep, TruncateToBlocksStep DEF Plain
<1>13. CASE MoveRangeAt(p)
  <2>1. PICK i \in At(p) : \E z, b \in Position(i) : \E a \in Before(z) :
          MoveRange(i, a, z, b) /\ Delegates({i})
    BY <1>13 DEF MoveRangeAt
  <2> QED
    BY <1>0, <1>a, <2>1, MoveRangeStep DEF Plain
<1>14. CASE OverwriteBlocksAt(p)
  <2>1. PICK i \in At(p) : \E S \in SUBSET (0 .. N(i) - 1) : \E v \in [S -> Payload] :
          OverwriteBlocks(i, v) /\ Delegates({i})
    BY <1>14 DEF OverwriteBlocksAt
  <2>a. PICK S \in SUBSET (0 .. N(i) - 1) : \E v \in [S -> Payload] :
          OverwriteBlocks(i, v) /\ Delegates({i})
    BY <2>1
  <2>b. PICK w \in [S -> Payload] : OverwriteBlocks(i, w) /\ Delegates({i})
    BY <2>a
  <2>2. \A n \in DOMAIN w : w[n] \in Image
    BY ByteAssumption
  <2>3. Confined({i})
    BY <1>0, <2>b, <2>2, OverwriteStep
  <2> QED
    BY <2>b, <2>3 DEF Plain
<1>15. CASE OneBlockOps(p)
  <2>1. PICK i \in At(p) :
          /\ \/ \E s \in Fresh(1), d \in Payload : AppendBlock(i, s, d)
             \/ \E s \in Fresh(1), d \in Payload, a \in Position(i) : InsertBlock(i, a, s, d)
             \/ \E n \in Position(i), d \in Payload : WriteBlock(i, n, d)
             \/ TruncateLastBlock(i)
             \/ TruncateToZero(i)
          /\ Delegates({i})
    BY <1>15 DEF OneBlockOps
  <2>0. i \in File /\ N(i) \in Nat
    BY <1>0
  <2>2. ASSUME NEW s \in Fresh(1), NEW d \in Payload PROVE Brings(s, <<d>>)
    <3>1. s \in Seq(Block) /\ Len(s) = 1 /\ IsInjective(s) /\ Range(s) \cap alloc = {}
      BY FreshFacts
    <3>2. <<d>> \in Seq(Image) /\ Len(<<d>>) = 1
      BY PayloadImages
    <3> QED
      BY <3>1, <3>2 DEF Brings
  <2>3. ASSUME NEW s \in Fresh(1), NEW d \in Payload, AppendBlock(i, s, d) PROVE Confined({i})
    BY <2>0, <2>2, <2>3, EditStep DEF AppendBlock
  <2>4. ASSUME NEW s \in Fresh(1), NEW d \in Payload, NEW a \in Position(i), InsertBlock(i, a, s, d)
        PROVE  Confined({i})
    <3>1. a \in Nat /\ a <= a /\ a <= N(i) /\ Edit(i, a, a, s, <<d>>)
      BY <2>0, <2>4 DEF InsertBlock, Position
    <3> QED
      BY <2>0, <2>2, <3>1, EditStep
  <2>5. ASSUME NEW n \in Position(i), NEW d \in Payload, WriteBlock(i, n, d) PROVE Confined({i})
    <3> DEFINE w == [m \in {n} |-> d]
    <3>1. OverwriteBlocks(i, w) /\ \A m \in DOMAIN w : w[m] \in Image
      BY <2>5, ByteAssumption DEF WriteBlock
    <3> HIDE DEF w
    <3> QED
      BY <2>0, <3>1, OverwriteStep
  <2>6. ASSUME TruncateLastBlock(i) PROVE Confined({i})
    <3>1. N(i) - 1 \in Nat /\ N(i) - 1 <= N(i) /\ Edit(i, N(i) - 1, N(i), <<>>, <<>>)
      BY <2>0, <2>6 DEF TruncateLastBlock
    <3> QED
      BY <2>0, <3>1, CutStep
  <2>7. ASSUME TruncateToZero(i) PROVE Confined({i})
    <3>1. 0 <= N(i) /\ Edit(i, 0, N(i), <<>>, <<>>)
      BY <2>0, <2>7 DEF TruncateToZero
    <3> QED
      BY <2>0, <3>1, CutStep
  <2> QED
    BY <2>1, <2>3, <2>4, <2>5, <2>6, <2>7 DEF Plain
<1> QED
  BY <1>1, <1>2, <1>3, <1>4, <1>5, <1>6, <1>7, <1>8, <1>9, <1>10, <1>11, <1>12, <1>13,
     <1>14, <1>15 DEF BlockCalls

\* The byte-granular calls on one path.
LEMMA ByteCallsPlain ==
  ASSUME FileInv, NamesInv, NEW p \in Paths, ByteCalls(p)
  PROVE  Plain(p)
<1>0. At(p) \subseteq File /\ \A i \in At(p) : files[i].len \in Nat
  BY PathFacts, FileFacts
<1>a. \A i \in At(p) : \A n \in ByteAt(i) : n \in Nat
  BY <1>0 DEF ByteAt
<1>b. ByteSeqs \subseteq Seq(Byte)
  <2> SUFFICES ASSUME NEW d \in ByteSeqs PROVE d \in Seq(Byte)
    OBVIOUS
  <2>1. PICK n \in 1 .. MaxRun : d \in [1 .. n -> Byte \ {0}]
    BY DEF ByteSeqs
  <2>2. n \in Nat /\ d \in [1 .. n -> Byte]
    BY <2>1, GeometryAssumption
  <2> QED
    BY <2>2, SeqOfFunction
<1>c. Offset \subseteq Nat
  <2>1. BlockSize * DataBlocks \in Nat
    BY GeometryAssumption, SMT
  <2> QED
    BY <2>1, GeometryAssumption DEF Offset
<1>1. CASE WriteRangeAt(p)
  <2>1. PICK i \in At(p) : \E off \in ByteAt(i), d \in ByteSeqs :
          WriteRange(i, off, d) /\ Delegates({i})
    BY <1>1 DEF WriteRangeAt
  <2> QED
    BY <1>0, <1>a, <1>b, <2>1, WriteRangeStep DEF Plain
<1>2. CASE ZeroRangeAt(p)
  <2>1. PICK i \in At(p) : \E off, n \in ByteAt(i) :
          ZeroRange(i, off, n) /\ Delegates({i})
    BY <1>2 DEF ZeroRangeAt
  <2> QED
    BY <1>0, <1>a, <2>1, ZeroRangeStep DEF Plain
<1>3. CASE ExtendingWriteAt(p)
  <2>1. PICK i \in At(p), off \in Offset, d \in ByteSeqs, s \in FreshSeqs :
          ExtendingWrite(i, off, d, s) /\ Delegates({i})
    BY <1>3 DEF ExtendingWriteAt
  <2>2. off \in Nat /\ d \in Seq(Byte) /\ i \in File
    BY <1>0, <1>b, <1>c
  <2>3. Confined({i})
    BY <2>1, <2>2, ExtendingWriteStep
  <2> QED
    BY <2>1, <2>3 DEF Plain
<1>4. CASE TruncateToBytesAt(p)
  <2>1. PICK i \in At(p) : \E n \in ByteAt(i) : TruncateToBytes(i, n) /\ Delegates({i})
    BY <1>4 DEF TruncateToBytesAt
  <2> QED
    BY <1>0, <1>a, <2>1, TruncateToBytesStep DEF Plain
<1>5. CASE GrowToBytesAt(p) \/ ResizeToBytesAt(p)
  <2>1. PICK i \in At(p), n \in Offset, s \in FreshSeqs :
          (GrowToBytes(i, n, s) \/ TruncateToBytes(i, n)) /\ Delegates({i})
    BY <1>5 DEF GrowToBytesAt, ResizeToBytesAt, ResizeToBytes
  <2>2. n \in Nat /\ i \in File
    BY <1>0, <1>c
  <2>3. Confined({i})
    BY <2>1, <2>2, GrowToBytesStep, TruncateToBytesStep
  <2> QED
    BY <2>1, <2>3 DEF Plain
<1> QED
  BY <1>1, <1>2, <1>3, <1>4, <1>5 DEF ByteCalls

\* replace_file_at_path_journaled.
LEMMA ReplaceFileStep ==
  ASSUME FileInv, NEW i \in File, NEW d \in Seq(Image), ReplaceFile(i, d)
  PROVE  Confined({i})
<1>0. N(i) \in Nat
  BY FileFacts
<1>1. CASE \E s \in Fresh(Len(d)) : AppendBlocks(i, s, d)
  BY <1>1, AppendStep
<1>2. CASE TruncateToBlocks(i, 0)
  BY <1>2, TruncateToBlocksStep
<1>3. CASE \E s \in Fresh(Len(d)) : ReplaceBlocks(i, 0, N(i), s, d)
  BY <1>0, <1>3, ReplaceStep
<1> QED
  BY <1>1, <1>2, <1>3 DEF ReplaceFile

\* The calls that choose by what the inode is.
LEMMA WholeCallsPlain ==
  ASSUME FileInv, NamesInv, NEW p \in Paths, WholeCalls(p)
  PROVE  Plain(p)
<1>0. At(p) \subseteq File /\ \A i \in At(p) : N(i) \in Nat
  BY PathFacts, FileFacts
<1>b. \A d \in ImageSeqs \cup {<<>>} : d \in Seq(Image)
  BY PayloadImages
<1>1. CASE WriteFileBlocksAt(p)
  <2>1. PICK i \in At(p), d \in ImageSeqs : WriteRange(i, 0, Flat(d)) /\ Delegates({i})
    BY <1>1 DEF WriteFileBlocksAt
  <2>2. d \in Seq(Image) /\ i \in File
    BY <1>0, <1>b
  <2>3. Flat(d) \in Seq(Byte)
    BY <2>2, FlatType
  <2>4. Confined({i})
    BY <2>1, <2>2, <2>3, WriteRangeStep
  <2> QED
    BY <2>1, <2>4 DEF Plain
<1>2. CASE ReplaceFileAt(p)
  <2>1. PICK i \in At(p), d \in ImageSeqs \cup {<<>>} : ReplaceFile(i, d) /\ Delegates({i})
    BY <1>2 DEF ReplaceFileAt
  <2>2. d \in Seq(Image) /\ i \in File
    BY <1>0, <1>b
  <2>3. Confined({i})
    BY <2>1, <2>2, ReplaceFileStep
  <2> QED
    BY <2>1, <2>3 DEF Plain
<1>3. CASE ZeroFileAt(p)
  <2>1. PICK i \in At(p) : ZeroRange(i, 0, BlockSize * N(i)) /\ Delegates({i})
    BY <1>3 DEF ZeroFileAt, Metadata
  <2>2. BlockSize * N(i) \in Nat /\ i \in File
    BY <1>0, PaddedType
  <2>3. Confined({i})
    <3> DEFINE n == BlockSize * N(i)
    <3> HIDE DEF n
    <3>1. n \in Nat /\ ZeroRange(i, 0, n)
      BY <2>1, <2>2 DEF n
    <3> QED
      BY <2>2, <3>1, ZeroRangeStep
  <2> QED
    BY <2>1, <2>3 DEF Plain
<1> QED
  BY <1>1, <1>2, <1>3 DEF WholeCalls

\* A call on two paths: it changes the second file, or both.
Paired(p, q) == \E i \in At(p), j \in At(q) :
  /\ \/ Confined({i, j}) /\ Delegates({i, j})
     \/ Confined({j}) /\ (Delegates({j}) \/ call' = [kind |-> "clone over", on |-> {j}, new |-> i])

\* Cloning, moving and exchanging between two paths.
LEMMA TwoPathCallsPaired ==
  ASSUME FileInv, NamesInv, NEW p \in Paths, NEW q \in Paths, TwoPathCalls(p, q)
  PROVE  Paired(p, q) /\ UNCHANGED names
<1>0. /\ At(p) \subseteq File /\ At(q) \subseteq File /\ At(q) \ At(p) \subseteq At(q)
      /\ \A i \in At(p) \cup At(q) : N(i) \in Nat /\ files[i].len \in Nat
  BY PathFacts, FileFacts
<1>a. \A i \in At(p) \cup At(q) : \A z \in Position(i) : z \in Nat /\ \A a \in Before(z) : a \in Nat
  BY <1>0 DEF Position, Before
<1>b. \A i \in At(p) \cup At(q) : \A n \in ByteAt(i) : n \in Nat
  BY <1>0 DEF ByteAt
<1>c. \A S : Delegates(S) => UNCHANGED names
  BY DEF Delegates
<1>d. ASSUME NEW i \in At(p), NEW j \in At(q), NEW z \in Position(i), NEW a \in Before(z),
             NEW b \in Nat, NEW y \in Nat, NEW s, s \in Fresh(z - a) \/ s \in FreshRun(z - a),
             Copying(i, a, z, j, b, y, s), Delegates({j})
      PROVE  Paired(p, q) /\ UNCHANGED names
  <2>1. i \in File /\ j \in File /\ z \in Nat /\ a \in Nat /\ a < z /\ z <= N(i)
    BY <1>0, <1>a DEF Position, Before
  <2>2. Confined({j})
    BY <1>d, <2>1, CopyingStep
  <2> QED
    BY <1>c, <1>d, <2>2 DEF Paired
<1>1. CASE CloneAppendAt(p, q) \/ ContiguousCloneAppendAt(p, q)
  <2>1. PICK i \in At(p), j \in At(q) :
          \E z \in Position(i) : \E a \in Before(z) : \E s :
          /\ s \in Fresh(z - a) \/ s \in FreshRun(z - a)
          /\ Copying(i, a, z, j, N(j), N(j), s) /\ Delegates({j})
    <3>1. CASE CloneAppendAt(p, q)
      BY <3>1, ZenonT(30) DEF CloneAppendAt, CloneAppend
    <3>2. CASE ContiguousCloneAppendAt(p, q)
      BY <3>2, ZenonT(30) DEF ContiguousCloneAppendAt
    <3> QED
      BY <1>1, <3>1, <3>2
  <2>2. PICK z \in Position(i) : \E a \in Before(z) : \E s :
          /\ s \in Fresh(z - a) \/ s \in FreshRun(z - a)
          /\ Copying(i, a, z, j, N(j), N(j), s) /\ Delegates({j})
    BY <2>1
  <2>3. PICK a \in Before(z) : \E s :
          /\ s \in Fresh(z - a) \/ s \in FreshRun(z - a)
          /\ Copying(i, a, z, j, N(j), N(j), s) /\ Delegates({j})
    BY <2>2
  <2>4. PICK s :
          /\ s \in Fresh(z - a) \/ s \in FreshRun(z - a)
          /\ Copying(i, a, z, j, N(j), N(j), s) /\ Delegates({j})
    BY <2>3
  <2> DEFINE end == N(j)
  <2>5. end \in Nat
    BY <1>0
  <2>6. Copying(i, a, z, j, end, end, s)
    BY <2>4
  <2> HIDE DEF end
  <2> QED
    BY <1>d, <2>4, <2>5, <2>6
<1>2. CASE CloneInsertAt(p, q) \/ ContiguousCloneInsertAt(p, q)
  <2>1. PICK i \in At(p), j \in At(q) :
          \E z \in Position(i), at \in Position(j) : \E a \in Before(z) : \E s :
          /\ s \in Fresh(z - a) \/ s \in FreshRun(z - a)
          /\ Copying(i, a, z, j, at, at, s) /\ Delegates({j})
    <3>1. CASE CloneInsertAt(p, q)
      BY <3>1, ZenonT(30) DEF CloneInsertAt, CloneInsert
    <3>2. CASE ContiguousCloneInsertAt(p, q)
      BY <3>2, ZenonT(30) DEF ContiguousCloneInsertAt
    <3> QED
      BY <1>2, <3>1, <3>2
  <2>2. PICK z \in Position(i), at \in Position(j) : \E a \in Before(z) : \E s :
          /\ s \in Fresh(z - a) \/ s \in FreshRun(z - a)
          /\ Copying(i, a, z, j, at, at, s) /\ Delegates({j})
    BY <2>1
  <2>3. PICK a \in Before(z) : \E s :
          /\ s \in Fresh(z - a) \/ s \in FreshRun(z - a)
          /\ Copying(i, a, z, j, at, at, s) /\ Delegates({j})
    BY <2>2
  <2>4. PICK s :
          /\ s \in Fresh(z - a) \/ s \in FreshRun(z - a)
          /\ Copying(i, a, z, j, at, at, s) /\ Delegates({j})
    BY <2>3
  <2>5. at \in Nat
    BY <1>a
  <2> QED
    BY <1>d, <2>4, <2>5
<1>3. CASE CloneReplaceAt(p, q) \/ ContiguousCloneReplaceAt(p, q)
  <2>1. PICK i \in At(p), j \in At(q) :
          \E z \in Position(i), b \in Position(j) : \E a \in Before(z) : \E s :
          /\ s \in Fresh(z - a) \/ s \in FreshRun(z - a)
          /\ Copying(i, a, z, j, b, b + z - a, s) /\ Delegates({j})
    <3>1. CASE CloneReplaceAt(p, q)
      BY <3>1, ZenonT(30) DEF CloneReplaceAt, CloneReplace
    <3>2. CASE ContiguousCloneReplaceAt(p, q)
      BY <3>2, ZenonT(30) DEF ContiguousCloneReplaceAt
    <3> QED
      BY <1>3, <3>1, <3>2
  <2>2. PICK z \in Position(i), b \in Position(j) : \E a \in Before(z) : \E s :
          /\ s \in Fresh(z - a) \/ s \in FreshRun(z - a)
          /\ Copying(i, a, z, j, b, b + z - a, s) /\ Delegates({j})
    BY <2>1
  <2>3. PICK a \in Before(z) : \E s :
          /\ s \in Fresh(z - a) \/ s \in FreshRun(z - a)
          /\ Copying(i, a, z, j, b, b + z - a, s) /\ Delegates({j})
    BY <2>2
  <2>4. PICK s :
          /\ s \in Fresh(z - a) \/ s \in FreshRun(z - a)
          /\ Copying(i, a, z, j, b, b + z - a, s) /\ Delegates({j})
    BY <2>3
  <2> DEFINE y == b + z - a
  <2>5. b \in Nat /\ y \in Nat
    BY <1>a DEF Before
  <2>6. Copying(i, a, z, j, b, y, s)
    BY <2>4
  <2> HIDE DEF y
  <2> QED
    BY <1>d, <2>4, <2>5, <2>6
<1>4. CASE CloneSpliceAt(p, q) \/ ContiguousCloneSpliceAt(p, q)
  <2>1. PICK i \in At(p), j \in At(q) :
          \E z \in Position(i), y \in Position(j) : \E a \in Before(z), b \in Before(y) : \E s :
          /\ s \in Fresh(z - a) \/ s \in FreshRun(z - a)
          /\ Copying(i, a, z, j, b, y, s) /\ Delegates({j})
    <3>1. CASE CloneSpliceAt(p, q)
      <4>1. PICK i \in At(p), j \in At(q) :
              \E z \in Position(i), y \in Position(j) : \E a \in Before(z), b \in Before(y) :
              \E s \in Fresh(z - a) : CloneSplice(i, a, z, j, b, y, s) /\ Delegates({j})
        BY <3>1 DEF CloneSpliceAt
      <4>2. PICK z \in Position(i), y \in Position(j) : \E a \in Before(z), b \in Before(y) :
              \E s \in Fresh(z - a) : CloneSplice(i, a, z, j, b, y, s) /\ Delegates({j})
        BY <4>1
      <4>3. PICK a \in Before(z), b \in Before(y) :
              \E s \in Fresh(z - a) : CloneSplice(i, a, z, j, b, y, s) /\ Delegates({j})
        BY <4>2
      <4>4. PICK s \in Fresh(z - a) : CloneSplice(i, a, z, j, b, y, s) /\ Delegates({j})
        BY <4>3
      <4>5. Copying(i, a, z, j, b, y, s)
        BY <4>4 DEF CloneSplice
      <4> QED
        BY <4>4, <4>5
    <3>2. CASE ContiguousCloneSpliceAt(p, q)
      BY <3>2, ZenonT(30) DEF ContiguousCloneSpliceAt
    <3> QED
      BY <1>4, <3>1, <3>2
  <2>2. PICK z \in Position(i), y \in Position(j) : \E a \in Before(z), b \in Before(y) : \E s :
          /\ s \in Fresh(z - a) \/ s \in FreshRun(z - a)
          /\ Copying(i, a, z, j, b, y, s) /\ Delegates({j})
    BY <2>1
  <2>3. PICK a \in Before(z), b \in Before(y) : \E s :
          /\ s \in Fresh(z - a) \/ s \in FreshRun(z - a)
          /\ Copying(i, a, z, j, b, y, s) /\ Delegates({j})
    BY <2>2
  <2>4. PICK s :
          /\ s \in Fresh(z - a) \/ s \in FreshRun(z - a)
          /\ Copying(i, a, z, j, b, y, s) /\ Delegates({j})
    BY <2>3
  <2>5. b \in Nat /\ y \in Nat
    BY <1>a
  <2> QED
    BY <1>d, <2>4, <2>5
<1>5. CASE ExchangeRangesAt(p, q)
  <2>1. PICK i \in At(p), j \in At(q) : \E a, n \in Position(i), b \in Position(j) :
          ExchangeRanges(i, a, j, b, n) /\ Delegates({i, j})
    BY <1>5 DEF ExchangeRangesAt
  <2>2. Confined({i, j}) /\ Delegates({i, j})
    BY <1>0, <1>a, <2>1, ExchangeRangesStep
  <2> QED
    BY <1>c, <2>2 DEF Paired
<1>6. CASE ExchangeVariableAt(p, q)
  <2>1. PICK i \in At(p), j \in At(q) :
          \E z \in Position(i), y \in Position(j) : \E a \in Before(z), b \in Before(y) :
          ExchangeVariable(i, a, z, j, b, y) /\ Delegates({i, j})
    BY <1>6 DEF ExchangeVariableAt
  <2>2. Confined({i, j}) /\ Delegates({i, j})
    BY <1>0, <1>a, <2>1, ExchangeVariableStep
  <2> QED
    BY <1>c, <2>2 DEF Paired
<1>7. CASE ExchangeWithinAt(p, q)
  <2>1. PICK i \in At(p) : i \in At(q) /\ \E z, y \in Position(i) :
          \E a \in Before(z), b \in Before(y) : ExchangeWithin(i, a, z, b, y) /\ Delegates({i})
    BY <1>7 DEF ExchangeWithinAt
  <2>2. Confined({i}) /\ Delegates({i})
    BY <1>0, <1>a, <2>1, ExchangeWithinStep
  <2> QED
    BY <1>c, <2>1, <2>2 DEF Paired
<1>8. CASE TransferRangeAt(p, q)
  <2>1. PICK i \in At(p), j \in At(q) :
          \E z \in Position(i), b \in Position(j) : \E a \in Before(z) :
          TransferRange(i, a, z, j, b) /\ Delegates({i, j})
    BY <1>8 DEF TransferRangeAt
  <2>2. Confined({i, j}) /\ Delegates({i, j})
    BY <1>0, <1>a, <2>1, TransferRangeStep
  <2> QED
    BY <1>c, <2>2 DEF Paired
<1>9. CASE WholeExchangeAt(p, q) \/ WholeTransferReplaceAt(p, q)
  <2>1. PICK i \in At(p), j \in At(q) :
          (WholeExchange(i, j) \/ WholeTransferReplace(i, j)) /\ Delegates({i, j})
    BY <1>9 DEF WholeExchangeAt, WholeTransferReplaceAt
  <2>2. Confined({i, j})
    BY <1>0, <2>1, WholeExchangeStep, WholeTransferReplaceStep
  <2> QED
    BY <1>c, <2>1, <2>2 DEF Paired
<1>10. CASE CopyRangeAt(p, q)
  <2>1. PICK i \in At(p), j \in At(q) :
          \E off, n \in ByteAt(i), to \in ByteAt(j) :
          CopyRange(i, off, j, to, n) /\ Delegates({j})
    BY <1>10 DEF CopyRangeAt
  <2>2. Confined({j}) /\ Delegates({j})
    BY <1>0, <1>b, <2>1, CopyRangeStep
  <2> QED
    BY <1>c, <2>2 DEF Paired
<1>11. CASE CloneOverAt(p, q)
  <2>1. PICK i \in At(p), j \in At(q) :
          /\ ReplaceFile(j, Chunks(ReadFile(i)))
          /\ UNCHANGED names
          /\ call' = [kind |-> "clone over", on |-> {j}, new |-> i]
    BY <1>11 DEF CloneOverAt
  <2>2. Chunks(ReadFile(i)) \in Seq(Image) /\ j \in File
    BY <1>0, VisibleType, ChunksType DEF ReadFile
  <2>3. Confined({j})
    BY <2>1, <2>2, ReplaceFileStep
  <2> QED
    BY <2>1, <2>3 DEF Paired
<1> QED
  BY <1>1, <1>2, <1>3, <1>4, <1>5, <1>6, <1>7, <1>8, <1>9, <1>10, <1>11 DEF TwoPathCalls

(***************************************************************************)
(* Names come and go.                                                      *)
(***************************************************************************)
\* What a path reads, before and after the step.
Undisturbed ==
  \A p \in Paths : \A i \in At(p) :
     At(p)' = {i} /\ (call'.kind = "clone file" \/ i \notin call'.on) => Same(i)

\* What clone_file_to_path_journaled does.
Copied ==
  call'.kind = "clone file" =>
    \A i \in call'.on, j \in {call'.new} :
       /\ ReadFile(j)' = ReadFile(i)
       /\ ReadFile(i)' = ReadFile(i)
       /\ Range(files'[i].blocks) \cap Range(files'[j].blocks) = {}
       /\ \A x \in files'[j].len + 1 .. BlockSize * Len(files'[j].blocks) : Padded(j)'[x] = 0

\* What every step does to the files and the names ...
NamesGoal == FileInv' /\ NamesInv' /\ Undisturbed /\ (ContentInv => ContentInv')

\* ... and in all.
StepGoal == NamesGoal /\ Copied

\* The name a path leads to.
Leads(p) == IF p \in Name THEN p ELSE Symlink[p]

\* A path leads to one name, and what it opens is what that name names.
LEMMA LeadsToName ==
  ASSUME NEW p \in Paths
  PROVE  /\ Leads(p) \in Name
         /\ \A i : i \in At(p) => names[Leads(p)] = i /\ i # None
         /\ \A i : At(p)' = {i} => names'[Leads(p)] = i
<1>1. Leads(p) \in Name
  BY NameAssumption DEF Paths, Leads
<1>2. At(p) = {names[Leads(p)]} \ {None} /\ At(p)' = {names'[Leads(p)]} \ {None}
  BY DEF At, Leads
<1> QED
  BY <1>1, <1>2

\* A new file changes no other, and no path named it before.
LEMMA NewFileStep ==
  ASSUME FileInv, NamesInv, NEW p \in Name, NEW i \in File, NEW s, NEW d, Brings(s, d),
         NEW len \in Nat, BlockCount(len) = Len(s), NEW bytes, NewFile(p, i, s, d, len, bytes),
         ContentInv => bytes = Flat(d)
  PROVE  NamesGoal /\ (\A k \in File \ {i} : Same(k)) /\ ImagesIn(data', s) = d
<1> DEFINE f == [blocks |-> s, len |-> len]
<1>1. /\ names[p] = None /\ (\A n \in Name : names[n] # i)
      /\ names' = [names EXCEPT ![p] = i] /\ files' = [files EXCEPT ![i] = f]
      /\ data' = Stored(s, d) /\ alloc' = (alloc \cup Range(s)) \ {}
  BY DEF NewFile
<1>2. /\ f \in FileRecord /\ f.blocks = s /\ f.len = len
  BY DEF FileRecord, Brings
<1>3. Holds(i) = {}
  <2>1. files[i].blocks = <<>>
    BY <1>1 DEF NamesInv
  <2> QED
    BY <2>1 DEF Holds, Range
<1>4. /\ data' \in [Block -> Image]
      /\ \A b \in Block : b \notin Range(s) => data'[b] = data[b]
  <2>1. data \in [Block -> Image] /\ s \in Seq(Block) /\ d \in Seq(Image) /\ Len(s) <= Len(d)
    BY LenProperties DEF FileInv, Brings
  <2>2. Stored(s, d) \in [Block -> Image] /\ \A b \in Block : b \notin Range(s) => Stored(s, d)[b] = data[b]
    BY <2>1, StoredType
  <2> QED
    BY <1>1, <2>2
<1> HIDE DEF f
<1>5. /\ BlockCount(f.len) = Len(f.blocks) /\ IsInjective(f.blocks) /\ Range(s) \cap alloc = {}
      /\ Range(f.blocks) = (Holds(i) \ {}) \cup Range(s) /\ {} \subseteq Holds(i)
      /\ \A b \in Block : b \notin Holds(i) \cup Range(s) => data'[b] = data[b]
  BY <1>2, <1>3, <1>4 DEF Brings
<1>6. Apart({i})
  BY <1>1, <1>2, <1>4, <1>5, OneFileApart
<1>7. NamesInv'
  <2>1. names' \in [Name -> File \cup {None}] /\ names'[p] = i
    BY <1>1 DEF NamesInv
  <2>2. ASSUME NEW k \in File, \A n \in Name : names'[n] # k PROVE files'[k].blocks = <<>>
    <3>1. k # i
      BY <2>1, <2>2
    <3>2. \A n \in Name : names[n] # k
      BY <1>1, <2>2, NameAssumption DEF NamesInv
    <3>3. files'[k] = files[k]
      BY <1>6, <3>1 DEF Apart, Same
    <3> QED
      BY <3>2, <3>3 DEF NamesInv
  <2> QED
    BY <2>1, <2>2 DEF NamesInv
<1>8. Undisturbed
  <2> SUFFICES ASSUME NEW q \in Paths, NEW k \in At(q) PROVE Same(k)
    BY DEF Undisturbed
  <2>1. k \in File /\ k # i
    BY <1>1, PathFacts, LeadsToName
  <2> QED
    BY <1>6, <2>1 DEF Apart
<1>9. ImagesIn(data', s) = d
  <2>1. /\ data \in [Block -> Image] /\ s \in Seq(Block) /\ IsInjective(s)
        /\ d \in Seq(Image) /\ Len(s) = Len(d)
    BY DEF FileInv, Brings
  <2> QED
    BY <1>1, <2>1, StoredImages
<1>10. ASSUME ContentInv PROVE ContentInv'
  <2> DEFINE c == [bytes |-> bytes, eof |-> len]
  <2>1. ideal' = [ideal EXCEPT ![i] = c]
    BY DEF NewFile
  <2>2. c = Content(data', files'[i])
    <3> DEFINE D == data'
               g == files'[i]
    <3>1. g = f /\ ImagesIn(D, s) = d
      BY <1>1, <1>9 DEF FileInv
    <3>2. g.blocks = s /\ g.len = len
      BY <1>2, <3>1
    <3> HIDE DEF D, g
    <3>3. Content(D, g) = [bytes |-> Flat(ImagesIn(D, g.blocks)), eof |-> g.len]
      BY DEF Content
    <3>4. c = Content(D, g)
      BY <1>10, <3>1, <3>2, <3>3
    <3> QED
      BY <3>4 DEF D, g
  <2> HIDE DEF c
  <2> QED
    BY <1>6, <1>10, <2>1, <2>2, OneContent
<1> QED
  BY <1>6, <1>7, <1>8, <1>9, <1>10 DEF NamesGoal, Apart

\* So many whole blocks of bytes need so many blocks.
LEMMA WholeBlocks ==
  ASSUME NEW n \in Nat
  PROVE  BlockSize * n \in Nat /\ BlockCount(BlockSize * n) = n
<1>1. BlockSize \in Nat \ {0} /\ 0 \in 0 .. BlockSize - 1
  BY GeometryAssumption
<1>2. BlockSize * n \in Nat /\ BlockSize * n - 0 = BlockSize * n
  BY <1>1, SMT
<1>3. BlockCount(BlockSize * n - 0) = n
  <2> DEFINE slack == 0
  <2>1. slack \in 0 .. BlockSize - 1 /\ BlockSize * n - slack \in Nat
    BY <1>1, <1>2
  <2> HIDE DEF slack
  <2>2. BlockCount(BlockSize * n - slack) = n
    BY <2>1, BlockCountOf
  <2> QED
    BY <2>2 DEF slack
<1> QED
  BY <1>2, <1>3

\* The bytes of a file, padded, make as many images as the file has blocks.
LEMMA PaddedChunksType ==
  ASSUME NEW bytes \in Seq(Byte)
  PROVE  PaddedChunks(bytes) \in Seq(Image) /\ Len(PaddedChunks(bytes)) = BlockCount(Len(bytes))
<1> DEFINE n == Len(bytes)
           m == BlockCount(n)
           r == Zeros(BlockSize * m - n)
           t == bytes \o r
<1>1. n \in Nat /\ m \in Nat /\ BlockSize * m - n \in Nat /\ BlockSize * m \in Nat
  <2>1. n \in Nat
    BY LenProperties
  <2> HIDE DEF n
  <2>2. m \in Nat /\ BlockSize * m - n \in 0 .. BlockSize - 1
    BY <2>1, BlockCountBounds
  <2> HIDE DEF m
  <2>3. BlockSize * m \in Nat
    BY <2>2, GeometryAssumption, SMT
  <2> QED
    BY <2>1, <2>2, <2>3, GeometryAssumption
<1>2. PaddedChunks(bytes) = Chunks(t)
  BY DEF PaddedChunks
<1> HIDE DEF m
<1>3. r \in Seq(Byte) /\ Len(r) = BlockSize * m - n
  BY <1>1, ZerosType
<1> HIDE DEF r
<1>4. t \in Seq(Byte) /\ Len(t) = n + Len(r)
  BY <1>3, ConcatProperties
<1> HIDE DEF t, n
<1>5. Len(t) = BlockSize * m
  BY <1>1, <1>3, <1>4
<1>6. Chunks(t) \in Seq(Image) /\ Len(Chunks(t)) = m
  BY <1>1, <1>4, <1>5, ChunksType
<1> QED
  BY <1>2, <1>6 DEF m, n

\* What keeps its inode and the images of its blocks reads as before.
LEMMA SameReadsSame ==
  ASSUME FileInv, NEW i \in File, Same(i)
  PROVE  ReadFile(i)' = ReadFile(i)
<1> DEFINE s == files[i].blocks
<1>1. files'[i] = files[i] /\ \A n \in DOMAIN s : data'[s[n]] = data[s[n]]
  BY DEF Same, Holds, Range
<1>2. Images(files[i].blocks)' = Images(files[i].blocks)
  BY <1>1 DEF Images
<1> QED
  BY <1>1, <1>2 DEF ReadFile, Visible, Padded, Flat

\* What clone_file_to_path_journaled stores: the bytes it read, and zeros after them.
LEMMA PaddedCopy ==
  ASSUME NEW bytes \in Seq(Byte), NEW c, c = Flat(PaddedChunks(bytes))
  PROVE  /\ SubSeq(c, 1, Len(bytes)) = bytes
         /\ \A x \in Len(bytes) + 1 .. BlockSize * BlockCount(Len(bytes)) : c[x] = 0
         /\ RefExact(bytes).bytes = c
<1> DEFINE n == Len(bytes)
           m == BlockCount(n)
           k == BlockSize * m - n
           r == Zeros(k)
           t == bytes \o r
<1>1. n \in Nat /\ m \in Nat /\ k \in Nat /\ BlockSize * m \in Nat
  <2>1. n \in Nat
    BY LenProperties
  <2> HIDE DEF n
  <2>2. m \in Nat /\ k \in 0 .. BlockSize - 1
    BY <2>1, BlockCountBounds
  <2> HIDE DEF m
  <2>3. BlockSize * m \in Nat
    BY <2>2, GeometryAssumption, SMT
  <2> QED
    BY <2>1, <2>2, <2>3, GeometryAssumption
<1>2. PaddedChunks(bytes) = Chunks(t)
  BY DEF PaddedChunks
<1>3. n + k = BlockSize * m
  BY <1>1
<1>a. RefExact(bytes).bytes = t
  BY DEF RefExact
<1> HIDE DEF m, k
<1>4. r \in Seq(Byte) /\ Len(r) = k /\ \A x \in 1 .. k : r[x] = 0
  <2>1. r \in Seq(Byte) /\ Len(r) = k
    BY <1>1, ZerosType
  <2>2. \A x \in 1 .. k : r[x] = 0
    BY DEF Zeros
  <2> QED
    BY <2>1, <2>2
<1> HIDE DEF r
<1>5. /\ t \in Seq(Byte) /\ Len(t) = n + k
      /\ \A x \in 1 .. n + k : t[x] = IF x <= n THEN bytes[x] ELSE r[x - n]
  BY <1>4, ConcatProperties
<1> HIDE DEF t, n
<1>6. c = t
  <2>1. Len(t) = BlockSize * m
    BY <1>3, <1>5
  <2>2. Flat(Chunks(t)) = t
    BY <1>1, <1>5, <2>1, FlatChunks
  <2> QED
    BY <1>2, <2>2
<1>7. SubSeq(t, 1, n) = bytes
  <2> DEFINE w == SubSeq(t, 1, n)
  <2>1. \A x \in 1 .. n : t[x] \in Byte
    <3>1. \A x \in 1 .. Len(t) : t[x] \in Byte
      BY <1>5, ElementOfSeq
    <3> QED
      BY <1>1, <1>5, <3>1
  <2>2. w \in Seq(Byte) /\ Len(w) = n /\ \A x \in 1 .. n : w[x] = t[x]
    <3> DEFINE one == 1
    <3>1. one \in Int /\ n \in Int /\ \A x \in one .. n : t[x] \in Byte
      BY <1>1, <2>1
    <3> HIDE DEF one
    <3>2. /\ SubSeq(t, one, n) \in Seq(Byte)
          /\ Len(SubSeq(t, one, n)) = IF one <= n THEN n - one + 1 ELSE 0
          /\ \A x \in 1 .. n - one + 1 : SubSeq(t, one, n)[x] = t[one + x - 1]
      BY <3>1, SubSeqProperties
    <3> QED
      BY <1>1, <3>2 DEF one
  <2> HIDE DEF w
  <2>3. \A x \in 1 .. n : w[x] = bytes[x]
    BY <1>1, <1>5, <2>2
  <2>4. Len(w) = Len(bytes) /\ \A x \in 1 .. Len(w) : w[x] = bytes[x]
    BY <2>2, <2>3 DEF n
  <2>5. w = bytes
    BY <2>2, <2>4, SeqEqual
  <2> QED
    BY <2>5 DEF w
<1>8. \A x \in n + 1 .. BlockSize * m : t[x] = 0
  <2> SUFFICES ASSUME NEW x \in n + 1 .. n + k PROVE t[x] = 0
    BY <1>3
  <2>1. x \in 1 .. n + k /\ ~ (x <= n) /\ x - n \in 1 .. k
    BY <1>1
  <2> QED
    BY <1>4, <1>5, <2>1
<1> QED
  BY <1>a, <1>6, <1>7, <1>8 DEF n, m

\* The calls that create a file.
LEMMA CreationStep ==
  ASSUME FileInv, NamesInv, NEW p \in Name,
         \/ CreateFileAt(p) \/ CreateContiguousAt(p)
         \/ \E q \in Paths : CloneBlocksTo(q, p) \/ ContiguousCloneBlocksTo(q, p) \/ CloneFileTo(q, p)
  PROVE  StepGoal
<1>a. ASSUME NEW i \in File, NEW d \in Seq(Image), NEW n, n = Len(d),
             NEW s, s \in Fresh(n) \/ s \in FreshRun(n), NEW bytes,
             NewFile(p, i, s, d, BlockSize * n, bytes), ContentInv => bytes = Flat(d)
      PROVE  NamesGoal
  <2>1. n \in Nat
    BY <1>a, LenProperties
  <2>2. s \in Seq(Block) /\ Len(s) = n /\ IsInjective(s) /\ Range(s) \cap alloc = {}
    BY <1>a, <2>1, FreshFacts
  <2>3. Brings(s, d)
    BY <1>a, <2>2 DEF Brings
  <2>4. BlockSize * n \in Nat /\ BlockCount(BlockSize * n) = n
    BY <2>1, WholeBlocks
  <2> DEFINE len == BlockSize * n
  <2>5. len \in Nat /\ BlockCount(len) = Len(s) /\ NewFile(p, i, s, d, len, bytes)
    BY <1>a, <2>2, <2>4
  <2> HIDE DEF len
  <2> QED
    BY <1>a, <2>3, <2>5, NewFileStep
<1>b. ASSUME call'.kind = "create" PROVE Copied
  BY <1>b DEF Copied
<1>1. CASE CreateFileAt(p) \/ CreateContiguousAt(p)
  <2>1. PICK i \in File, d \in ImageSeqs \cup {<<>>} :
          \E s : /\ s \in Fresh(Len(d)) \/ s \in FreshRun(Len(d))
                 /\ NewFile(p, i, s, d, BlockSize * Len(d), Flat(d))
    BY <1>1 DEF CreateFileAt, CreateContiguousAt
  <2>2. d \in Seq(Image)
    BY PayloadImages
  <2>3. NamesGoal
    BY <1>a, <2>1, <2>2
  <2>4. call'.kind = "create"
    BY <1>1 DEF CreateFileAt, CreateContiguousAt, Called
  <2> QED
    BY <1>b, <2>3, <2>4 DEF StepGoal
<1>2. CASE \E q \in Paths : CloneBlocksTo(q, p) \/ ContiguousCloneBlocksTo(q, p)
  <2>1. PICK q \in Paths : CloneBlocksTo(q, p) \/ ContiguousCloneBlocksTo(q, p)
    BY <1>2
  <2>2. PICK i \in At(q), j \in File : \E z \in Position(i) : \E a \in Before(z) :
          \E s : /\ s \in Fresh(z - a) \/ s \in FreshRun(z - a)
                 /\ NewFile(p, j, s, Copies(i, a, z), BlockSize * (z - a), RefBlocks(i, a, z))
    BY <2>1 DEF CloneBlocksTo, ContiguousCloneBlocksTo
  <2>3. PICK z \in Position(i), a \in 0 .. N(i) : a \in Before(z) /\
          \E s : /\ s \in Fresh(z - a) \/ s \in FreshRun(z - a)
                 /\ NewFile(p, j, s, Copies(i, a, z), BlockSize * (z - a), RefBlocks(i, a, z))
    <3>1. i \in File /\ N(i) \in Nat
      BY PathFacts, FileFacts
    <3>2. \A z \in Position(i) : \A a \in Before(z) : a \in 0 .. N(i)
      BY <3>1 DEF Position, Before
    <3> QED
      BY <2>2, <3>2
  <2>4. PICK s : /\ s \in Fresh(z - a) \/ s \in FreshRun(z - a)
                 /\ NewFile(p, j, s, Copies(i, a, z), BlockSize * (z - a), RefBlocks(i, a, z))
    BY <2>3
  <2>5. i \in File /\ z \in Nat /\ a \in Nat /\ a <= z /\ z <= N(i)
    <3>1. i \in File /\ N(i) \in Nat
      BY PathFacts, FileFacts
    <3> QED
      BY <2>3, <3>1 DEF Position, Before
  <2> DEFINE d == Copies(i, a, z)
             n == z - a
             bytes == RefBlocks(i, a, z)
  <2>6. d \in Seq(Image)
    BY <2>5, SliceFacts
  <2>7. n = Len(d)
    <3>1. Slice(i, a, z) \in Seq(Block) /\ Len(Slice(i, a, z)) = z - a
      BY <2>5, SliceFacts
    <3>2. Len(Images(Slice(i, a, z))) = Len(Slice(i, a, z))
      BY <3>1, ImagesType DEF FileInv
    <3> QED
      BY <3>1, <3>2 DEF Copies
  <2>8. (s \in Fresh(n) \/ s \in FreshRun(n)) /\ NewFile(p, j, s, d, BlockSize * n, bytes)
    BY <2>4
  <2>a. ASSUME ContentInv PROVE bytes = Flat(d)
    <3>1. bytes = Flat(ImagesIn(data, Slice(i, a, z)))
      BY <2>5, <2>a, RangeBytes
    <3>2. d = ImagesIn(data, Slice(i, a, z))
      BY DEF Copies, Images, ImagesIn
    <3> QED
      BY <3>1, <3>2
  <2> HIDE DEF d, n, bytes
  <2>9. NamesGoal
    BY <1>a, <2>6, <2>7, <2>8, <2>a
  <2>10. call'.kind = "create"
    BY <2>1 DEF CloneBlocksTo, ContiguousCloneBlocksTo, Called
  <2> QED
    BY <1>b, <2>9, <2>10 DEF StepGoal
<1>3. CASE \E q \in Paths : CloneFileTo(q, p)
  <2>1. PICK q \in Paths : CloneFileTo(q, p)
    BY <1>3
  <2>2. PICK i \in At(q), j \in File :
          /\ \E s \in Fresh(N(i)) :
               NewFile(p, j, s, PaddedChunks(ReadFile(i)), files[i].len, RefExact(RefVisible(i)).bytes)
          /\ call' = [kind |-> "clone file", on |-> {i}, new |-> j]
    BY <2>1 DEF CloneFileTo, Metadata
  <2> DEFINE n == N(i)
             d == PaddedChunks(ReadFile(i))
             len == files[i].len
             ref == RefExact(RefVisible(i)).bytes
  <2>3. PICK s \in Fresh(n) : NewFile(p, j, s, d, len, ref)
    BY <2>2
  <2>4. i \in File /\ n \in Nat /\ len \in Nat /\ BlockCount(len) = n
    <3>1. i \in File
      BY PathFacts
    <3> QED
      BY <3>1, FileFacts DEF FileInv, N
  <2>5. d \in Seq(Image) /\ Len(d) = n
    <3>1. ReadFile(i) \in Seq(Byte) /\ Len(ReadFile(i)) = len
      BY <2>4, VisibleType DEF ReadFile
    <3>2. d \in Seq(Image) /\ Len(d) = BlockCount(Len(ReadFile(i)))
      BY <3>1, PaddedChunksType
    <3> QED
      BY <2>4, <3>1, <3>2
  <2>a. ASSUME ContentInv PROVE ref = Flat(d)
    <3>1. RefVisible(i) = ReadFile(i)
      BY <2>4, <2>a, ContentAt DEF RefVisible, ReadFile, Visible
    <3>2. ReadFile(i) \in Seq(Byte)
      BY <2>4, VisibleType DEF ReadFile
    <3>3. RefExact(ReadFile(i)).bytes = Flat(PaddedChunks(ReadFile(i)))
      BY <3>2, PaddedCopy
    <3> QED
      BY <3>1, <3>3
  <2> HIDE DEF n, d, len, ref
  <2>6. s \in Seq(Block) /\ Len(s) = n /\ IsInjective(s) /\ Range(s) \cap alloc = {}
    BY <2>4, FreshFacts
  <2>7. Brings(s, d) /\ BlockCount(len) = Len(s)
    BY <2>4, <2>5, <2>6 DEF Brings
  <2>8. NamesGoal /\ (\A k \in File \ {j} : Same(k)) /\ ImagesIn(data', s) = d
    BY <2>3, <2>4, <2>7, <2>a, NewFileStep
  <2>9. i # j
    BY <2>3, LeadsToName DEF NewFile
  <2>10. files'[j].blocks = s /\ files'[j].len = len
    <3>1. files' = [files EXCEPT ![j] = [blocks |-> s, len |-> len]]
      BY <2>3 DEF NewFile
    <3> QED
      BY <3>1 DEF FileInv
  <2>11. ReadFile(i)' = ReadFile(i)
    <3>1. Same(i)
      BY <2>4, <2>8, <2>9
    <3> QED
      BY <2>4, <3>1, SameReadsSame
  <2>12. Range(files'[i].blocks) \cap Range(files'[j].blocks) = {}
    <3>1. FileInv'
      BY <2>8 DEF NamesGoal
    <3>2. Holds(i)' \cap Holds(j)' = {}
      BY <2>4, <2>9, <3>1 DEF FileInv
    <3> QED
      BY <3>2 DEF Holds
  <2> DEFINE c == Flat(d)
             bytes == ReadFile(i)
  <2>13. Padded(j)' = c
    <3>1. Images(files[j].blocks)' = d
      BY <2>8, <2>10 DEF Images, ImagesIn
    <3> QED
      BY <3>1 DEF Padded, Flat
  <2>14. bytes \in Seq(Byte) /\ Len(bytes) = len
    BY <2>4, VisibleType DEF ReadFile, len
  <2>15. c = Flat(PaddedChunks(bytes))
    BY DEF d
  <2>16. Len(files'[j].blocks) = BlockCount(Len(bytes))
    BY <2>4, <2>6, <2>10, <2>14
  <2>17. ReadFile(j)' = SubSeq(c, 1, len)
    BY <2>10, <2>13 DEF ReadFile, Visible
  <2> HIDE DEF c, bytes
  <2>18. SubSeq(c, 1, len) = bytes
    BY <2>14, <2>15, PaddedCopy
  <2>19. \A x \in len + 1 .. BlockSize * BlockCount(Len(bytes)) : c[x] = 0
    BY <2>14, <2>15, PaddedCopy
  <2>20. \A x \in files'[j].len + 1 .. BlockSize * Len(files'[j].blocks) : Padded(j)'[x] = 0
    BY <2>10, <2>13, <2>16, <2>19
  <2>21. ReadFile(j)' = ReadFile(i)
    BY <2>17, <2>18 DEF bytes
  <2>22. Copied
    BY <2>2, <2>11, <2>12, <2>20, <2>21 DEF Copied
  <2> QED
    BY <2>8, <2>22 DEF StepGoal
<1> QED
  BY <1>1, <1>2, <1>3

\* hard_link_file_at_path_journaled: one more name, and nothing else.
LEMMA LinkStep ==
  ASSUME FileInv, NamesInv, NEW p \in Name, NEW q \in Paths, LinkAt(q, p)
  PROVE  StepGoal
<1>1. PICK i \in At(q) : names[p] = None /\ names' = [names EXCEPT ![p] = i] /\ UNCHANGED vars
  BY DEF LinkAt
<1>2. i \in File
  BY PathFacts
<1>3. FileInv' /\ \A k \in File : Same(k)
  BY <1>1 DEF FileInv, Same, Holds, vars
<1>4. NamesInv'
  <2>1. names' \in [Name -> File \cup {None}]
    BY <1>1, <1>2 DEF NamesInv
  <2>2. ASSUME NEW k \in File, \A n \in Name : names'[n] # k PROVE files'[k].blocks = <<>>
    <3>1. \A n \in Name : names[n] # k
      BY <1>1, <2>2, NameAssumption DEF NamesInv
    <3> QED
      BY <1>1, <3>1 DEF NamesInv, vars
  <2> QED
    BY <2>1, <2>2 DEF NamesInv
<1>5. Undisturbed
  BY <1>3, PathFacts DEF Undisturbed
<1>6. ContentInv => ContentInv'
  BY <1>1 DEF ContentInv, vars
<1>7. Copied
  BY DEF LinkAt, Called, Copied
<1> QED
  BY <1>3, <1>4, <1>5, <1>6, <1>7 DEF StepGoal, NamesGoal

\* unlink_at_path_journaled: the name goes; the last one takes the file with it, and
\* then no path leads to the file any more.
LEMMA UnlinkStep ==
  ASSUME FileInv, NamesInv, NEW p \in Name, UnlinkAt(p)
  PROVE  StepGoal
<1>1. PICK i \in At(p) :
        /\ names' = [names EXCEPT ![p] = None]
        /\ IF Metadata(i).references = 1 THEN Retire(i) ELSE UNCHANGED vars
  BY DEF UnlinkAt
<1> DEFINE S == {n \in Name : names[n] = i}
<1>2. i \in File /\ p \in S /\ p \in Paths /\ i # None
  <2>1. p \in Paths /\ Leads(p) = p
    BY DEF Paths, Leads
  <2> QED
    BY <2>1, PathFacts, LeadsToName
<1>3. IsFiniteSet(S) /\ Metadata(i).references = Cardinality(S)
  BY NameAssumption, FS_Subset DEF Metadata
<1>4. names' \in [Name -> File \cup {None}] /\ names'[p] = None /\ \A n \in Name \ {p} : names'[n] = names[n]
  BY <1>1 DEF NamesInv
<1>5. ASSUME NEW k \in File, k # i, \A n \in Name : names'[n] # k PROVE files[k].blocks = <<>>
  <2>1. \A n \in Name : names[n] # k
    BY <1>2, <1>4, <1>5
  <2> QED
    BY <2>1 DEF NamesInv
<1>a. Copied
  BY DEF UnlinkAt, Called, Copied
<1>6. CASE Metadata(i).references = 1
  <2> DEFINE f == [blocks |-> <<>>, len |-> 0]
  <2>1. /\ files' = [files EXCEPT ![i] = f] /\ alloc' = (alloc \cup {}) \ Holds(i) /\ data' = data
    BY <1>1, <1>6 DEF Retire, Holds
  <2>2. S = {p}
    BY <1>2, <1>3, <1>6, CountsByMembers
  <2>3. f \in FileRecord /\ f.blocks = <<>> /\ f.len = 0
    BY EmptySeq DEF FileRecord
  <2>4. BlockCount(f.len) = Len(f.blocks)
    <3>1. BlockSize * 0 = 0 /\ BlockCount(BlockSize * 0) = 0
      BY WholeBlocks, GeometryAssumption, SMT
    <3> QED
      BY <2>3, <3>1, EmptySeq
  <2>5. /\ IsInjective(f.blocks) /\ Range(f.blocks) = {}
    BY <2>3 DEF IsInjective, Range
  <2> HIDE DEF f
  <2>6. /\ Range(f.blocks) = (Holds(i) \ Holds(i)) \cup {} /\ {} \cap alloc = {}
        /\ Holds(i) \subseteq Holds(i) /\ data' \in [Block -> Image]
        /\ \A b \in Block : b \notin Holds(i) \cup {} => data'[b] = data[b]
    BY <2>1, <2>5 DEF FileInv
  <2>7. Apart({i})
    BY <1>2, <2>1, <2>3, <2>4, <2>5, <2>6, OneFileApart
  <2>8. NamesInv'
    <3>1. ASSUME NEW k \in File, \A n \in Name : names'[n] # k PROVE files'[k].blocks = <<>>
      <4>1. CASE k = i
        BY <1>2, <2>1, <2>3, <4>1 DEF FileInv
      <4>2. CASE k # i
        <5>1. files'[k] = files[k]
          BY <2>7, <4>2 DEF Apart, Same
        <5> QED
          BY <1>5, <3>1, <4>2, <5>1
      <4> QED
        BY <4>1, <4>2
    <3> QED
      BY <1>4, <3>1 DEF NamesInv
  <2>9. Undisturbed
    <3> SUFFICES ASSUME NEW q \in Paths, NEW k \in At(q), At(q)' = {k} PROVE Same(k)
      BY DEF Undisturbed
    <3>1. k \in File /\ Leads(q) \in Name /\ names[Leads(q)] = k /\ names'[Leads(q)] = k /\ k # None
      BY PathFacts, LeadsToName
    <3>2. Leads(q) # p
      BY <1>4, <3>1
    <3>3. k # i
      BY <2>2, <3>1, <3>2
    <3> QED
      BY <2>7, <3>1, <3>3 DEF Apart
  <2>10. ASSUME ContentInv PROVE ContentInv'
    <3> DEFINE c == [bytes |-> <<>>, eof |-> 0]
    <3>1. ideal' = [ideal EXCEPT ![i] = c]
      BY <1>1, <1>6 DEF Retire
    <3>2. files'[i] = [blocks |-> <<>>, len |-> 0]
      BY <1>2, <2>1 DEF FileInv, f
    <3>3. data' \in [Block -> Image]
      BY <2>6
    <3>4. c = Content(data', files'[i])
      BY <3>2, <3>3, EmptyFile
    <3> HIDE DEF c
    <3> QED
      BY <1>2, <2>7, <2>10, <3>1, <3>4, OneContent
  <2> QED
    BY <1>a, <2>7, <2>8, <2>9, <2>10 DEF StepGoal, NamesGoal, Apart
<1>7. CASE Metadata(i).references # 1
  <2>1. UNCHANGED vars
    BY <1>1, <1>7
  <2>2. FileInv' /\ \A k \in File : Same(k)
    BY <2>1 DEF FileInv, Same, Holds, vars
  <2>3. PICK m \in S : m # p
    <3>1. ~ \E x : S = {x}
      BY <1>3, <1>7, CountsByMembers
    <3>2. S # {p}
      BY <3>1
    <3> QED
      BY <1>2, <3>2
  <2>4. names'[m] = i /\ m \in Name
    BY <1>4, <2>3
  <2>5. NamesInv'
    <3>1. ASSUME NEW k \in File, \A n \in Name : names'[n] # k PROVE files'[k].blocks = <<>>
      <4>1. k # i
        BY <2>4, <3>1
      <4> QED
        BY <1>5, <2>1, <3>1, <4>1 DEF vars
    <3> QED
      BY <1>4, <3>1 DEF NamesInv
  <2>6. Undisturbed
    BY <2>2, PathFacts DEF Undisturbed
  <2>7. ContentInv => ContentInv'
    BY <2>1 DEF ContentInv, vars
  <2> QED
    BY <1>a, <2>2, <2>5, <2>6, <2>7 DEF StepGoal, NamesGoal
<1> QED
  BY <1>6, <1>7

\* A call that leaves the names alone and changes only files that have one, which it
\* says it changes.
LEMMA DataStep ==
  ASSUME NamesInv, NEW S, \A i \in S : i \in File /\ \E n \in Name : names[n] = i,
         Confined(S), UNCHANGED names, S \subseteq call'.on, call'.kind # "clone file"
  PROVE  StepGoal
<1>1. NamesInv'
  <2>1. names' \in [Name -> File \cup {None}]
    BY DEF NamesInv
  <2>2. ASSUME NEW k \in File, \A n \in Name : names'[n] # k PROVE files'[k].blocks = <<>>
    <3>1. k \notin S /\ files[k].blocks = <<>>
      BY <2>2 DEF NamesInv
    <3> QED
      BY <3>1 DEF Confined, Apart, Same
  <2> QED
    BY <2>1, <2>2 DEF NamesInv
<1>2. Undisturbed
  BY PathFacts DEF Undisturbed, Confined, Apart
<1> QED
  BY <1>1, <1>2 DEF StepGoal, NamesGoal, Copied, Confined, Apart

\* A call on one path.
LEMMA PlainStep ==
  ASSUME NamesInv, NEW p \in Paths, Plain(p)
  PROVE  StepGoal
<1>1. PICK i \in At(p) : Confined({i}) /\ Delegates({i})
  BY DEF Plain
<1>2. UNCHANGED names /\ {i} \subseteq call'.on /\ call'.kind # "clone file"
  BY <1>1 DEF Delegates, Called
<1>3. i \in File /\ \E n \in Name : names[n] = i
  BY PathFacts
<1> QED
  BY <1>1, <1>2, <1>3, DataStep

\* A call on two paths.
LEMMA PairedStep ==
  ASSUME NamesInv, NEW p \in Paths, NEW q \in Paths, Paired(p, q), UNCHANGED names
  PROVE  StepGoal
<1>1. PICK i \in At(p), j \in At(q) :
        \/ Confined({i, j}) /\ Delegates({i, j})
        \/ Confined({j}) /\ (Delegates({j}) \/ call' = [kind |-> "clone over", on |-> {j}, new |-> i])
  BY DEF Paired
<1>2. /\ i \in File /\ \E n \in Name : names[n] = i
      /\ j \in File /\ \E n \in Name : names[n] = j
  BY PathFacts
<1>3. CASE Confined({i, j}) /\ Delegates({i, j})
  <2>1. {i, j} \subseteq call'.on /\ call'.kind # "clone file"
    BY <1>3 DEF Delegates, Called
  <2> QED
    BY <1>2, <1>3, <2>1, DataStep
<1>4. CASE Confined({j}) /\ (Delegates({j}) \/ call' = [kind |-> "clone over", on |-> {j}, new |-> i])
  <2>1. {j} \subseteq call'.on /\ call'.kind # "clone file"
    <3>1. CASE Delegates({j})
      BY <3>1 DEF Delegates, Called
    <3>2. CASE call' = [kind |-> "clone over", on |-> {j}, new |-> i]
      BY <3>2
    <3> QED
      BY <1>4, <3>1, <3>2
  <2> QED
    BY <1>2, <1>4, <2>1, DataStep
<1> QED
  BY <1>1, <1>3, <1>4

\* Some path leads to every file that has a name.
LEMMA SomePathsArePaths ==
  ASSUME NamesInv
  PROVE  SomePaths \subseteq Paths
<1> SUFFICES ASSUME NEW i \in Range(names) \ {None}
             PROVE  (CHOOSE p \in Paths : At(p) = {i}) \in Paths
  BY DEF SomePaths
<1>1. PICK n \in Name : names[n] = i
  BY DEF Range, NamesInv
<1>2. n \in Paths /\ At(n) = {i}
  BY <1>1 DEF Paths, At
<1> QED
  BY <1>2

(***************************************************************************)
(* The theorems.                                                           *)
(***************************************************************************)
\* A fresh volume.
LEMMA InitGoal == PathInit => FileInv /\ NamesInv /\ ContentInv
<1> SUFFICES ASSUME PathInit PROVE FileInv /\ NamesInv /\ ContentInv
  OBVIOUS
<1>1. /\ alloc = {} /\ files = [i \in File |-> [blocks |-> <<>>, len |-> 0]]
      /\ data = [b \in Block |-> Zeros(BlockSize)] /\ names = [n \in Name |-> None]
  BY DEF PathInit, Init
<1>2. Zeros(BlockSize) \in Image
  BY ByteAssumption DEF Zeros, Image
<1>3. files \in [File -> FileRecord]
  BY <1>1, EmptySeq DEF FileRecord
<1>4. \A i \in File : files[i].blocks = <<>> /\ files[i].len = 0
  BY <1>1
<1>5. \A i \in File : Holds(i) = {} /\ IsInjective(files[i].blocks)
  BY <1>4 DEF Holds, Range, IsInjective
<1>6. \A i \in File : BlockCount(files[i].len) = Len(files[i].blocks)
  <2>1. BlockSize * 0 = 0 /\ BlockCount(BlockSize * 0) = 0
    BY WholeBlocks, GeometryAssumption, SMT
  <2> QED
    BY <1>4, <2>1, EmptySeq
<1>7. FileInv
  BY <1>1, <1>2, <1>3, <1>5, <1>6 DEF FileInv
<1>8. NamesInv
  BY <1>1, <1>4 DEF NamesInv
<1>9. ContentInv
  <2> DEFINE f == [blocks |-> <<>>, len |-> 0]
  <2>1. data \in [Block -> Image]
    BY <1>7 DEF FileInv
  <2>2. Content(data, f) = [bytes |-> <<>>, eof |-> 0]
    BY <2>1, EmptyFile
  <2>3. ideal = [i \in File |-> [bytes |-> <<>>, eof |-> 0]]
    BY DEF PathInit, Init
  <2> QED
    BY <1>1, <2>2, <2>3 DEF ContentInv
<1> QED
  BY <1>7, <1>8, <1>9

\* Every call.
LEMMA NextGoal == FileInv /\ NamesInv /\ PathNext => StepGoal
<1> SUFFICES ASSUME FileInv, NamesInv, PathNext PROVE StepGoal
  OBVIOUS
<1>1. ASSUME NEW p \in Name, NameCalls(p) PROVE StepGoal
  BY <1>1, CreationStep, LinkStep, UnlinkStep DEF NameCalls
<1>2. ASSUME NEW p \in SomePaths, BlockCalls(p) \/ ByteCalls(p) \/ WholeCalls(p) PROVE StepGoal
  <2>1. p \in Paths
    BY SomePathsArePaths
  <2> QED
    BY <1>2, <2>1, BlockCallsPlain, ByteCallsPlain, WholeCallsPlain, PlainStep
<1>3. ASSUME NEW p \in SomePaths, NEW q \in SomePaths, TwoPathCalls(p, q) PROVE StepGoal
  <2>1. p \in Paths /\ q \in Paths
    BY SomePathsArePaths
  <2> QED
    BY <1>3, <2>1, TwoPathCallsPaired, PairedStep
<1> QED
  BY <1>1, <1>2, <1>3 DEF PathNext

\* The invariant says what strict fsck checks of blocks, and that an unnamed file is
\* empty.
LEMMA InvariantGoal == FileInv /\ NamesInv => BlocksHaveNamedOwners
<1> SUFFICES ASSUME FileInv, NamesInv PROVE BlocksHaveNamedOwners
  OBVIOUS
<1>1. TypeOK
  <2>1. \A i \in File : /\ files[i].blocks \in Seq(Block) /\ files[i].len \in Nat
                        /\ BlockCount(files[i].len) = N(i)
    BY FileFacts DEF FileInv, N
  <2>2. alloc \subseteq Block
    <3>1. \A i \in File : Holds(i) \subseteq Block
      BY FileFacts
    <3> QED
      BY <3>1 DEF FileInv
  <2> QED
    BY <2>1, <2>2 DEF TypeOK, FileInv
<1>2. ASSUME NEW i \in File, Metadata(i).references = 0 PROVE files[i].blocks = <<>>
  <2> DEFINE S == {n \in Name : names[n] = i}
  <2>1. IsFiniteSet(S) /\ Metadata(i).references = Cardinality(S)
    BY NameAssumption, FS_Subset DEF Metadata
  <2>2. S = {}
    BY <1>2, <2>1, CountsByMembers
  <2> QED
    BY <2>2 DEF NamesInv
<1>3. PathTypeOK
  BY <1>1, <1>2 DEF PathTypeOK, NamesInv
<1>4. DOMAIN files = File
  BY DEF FileInv
<1>5. BlocksIn(files, DOMAIN files) = alloc
  BY <1>4 DEF BlocksIn, FileInv, Holds
<1>6. \A i, j \in File : \A x \in DOMAIN files[i].blocks, y \in DOMAIN files[j].blocks :
         files[i].blocks[x] = files[j].blocks[y] => i = j /\ x = y
  <2> SUFFICES ASSUME NEW i \in File, NEW j \in File,
                      NEW x \in DOMAIN files[i].blocks, NEW y \in DOMAIN files[j].blocks,
                      files[i].blocks[x] = files[j].blocks[y]
               PROVE  i = j /\ x = y
    OBVIOUS
  <2>1. files[i].blocks[x] \in Holds(i) /\ files[j].blocks[y] \in Holds(j)
    BY DEF Holds, Range
  <2>2. i = j
    BY <2>1 DEF FileInv
  <2>3. IsInjective(files[i].blocks)
    BY DEF FileInv
  <2> QED
    BY <2>2, <2>3 DEF IsInjective
<1>7. Ownership
  BY <1>4, <1>5, <1>6 DEF Ownership, BlocksOwnedOnce, OrphanedAllocations
<1> QED
  BY <1>3, <1>7 DEF BlocksHaveNamedOwners

\* The inductive invariant of the content calls, without the bytes.
LEMMA InductiveStep == FileInv /\ NamesInv /\ [PathNext]_pathVars => (FileInv /\ NamesInv)'
<1>1. FileInv /\ NamesInv /\ UNCHANGED pathVars => (FileInv /\ NamesInv)'
  <2> SUFFICES ASSUME FileInv, NamesInv, UNCHANGED pathVars PROVE (FileInv /\ NamesInv)'
    OBVIOUS
  <2>1. FileInv'
    BY DEF pathVars, vars, FileInv, Holds
  <2>2. NamesInv'
    BY DEF pathVars, vars, NamesInv
  <2> QED
    BY <2>1, <2>2
<1> QED
  BY <1>1, NextGoal DEF StepGoal, NamesGoal

\* Every reachable state of the content calls: the tables are well typed, the end of
\* file lies in the last block, a block is allocated exactly when one named file
\* refers to it, once - for any files, names, links, sizes and block size.
THEOREM BlocksHaveNamedOwnersHolds == PathSpec => []BlocksHaveNamedOwners
BY InductiveStep, InitGoal, InvariantGoal, PTL DEF PathSpec

\* No call changes what a path reads unless the path names a file the call was given,
\* whatever the aliases, the reuse of freed blocks and the moves between files.
THEOREM OthersKeepTheirBytesHolds == PathSpec => OthersKeepTheirBytes
<1> DEFINE A == \A p \in Paths : \A i \in At(p) :
                  At(p)' = {i} /\ (call'.kind = "clone file" \/ i \notin call'.on) =>
                    ReadFile(i)' = ReadFile(i)
<1>1. FileInv /\ NamesInv /\ [PathNext]_pathVars => [A]_pathVars
  <2> SUFFICES ASSUME FileInv, NamesInv, PathNext PROVE A
    OBVIOUS
  <2>1. Undisturbed
    BY NextGoal DEF StepGoal, NamesGoal
  <2> SUFFICES ASSUME NEW p \in Paths, NEW i \in At(p), At(p)' = {i},
                      call'.kind = "clone file" \/ i \notin call'.on
               PROVE  ReadFile(i)' = ReadFile(i)
    OBVIOUS
  <2>2. i \in File /\ Same(i)
    BY <2>1, PathFacts DEF Undisturbed
  <2> QED
    BY <2>2, SameReadsSame
<1> QED
  BY <1>1, InductiveStep, InitGoal, PTL DEF PathSpec, OthersKeepTheirBytes

\* Every reachable state of the content calls: the blocks of a file hold exactly the
\* bytes, and its inode the length, that the byte-level reference assigns to it - for
\* any files, names, sizes and block size, whatever the call, the reuse of freed
\* blocks and the moves of blocks between files.
THEOREM ContentsAsSpecifiedHolds == PathSpec => []ContentsAsSpecified
<1> DEFINE Inv == FileInv /\ NamesInv /\ ContentInv
<1>1. PathInit => Inv
  BY InitGoal
<1>2. Inv /\ [PathNext]_pathVars => Inv'
  <2>1. ContentInv /\ UNCHANGED pathVars => ContentInv'
    BY DEF pathVars, vars, ContentInv
  <2> QED
    BY <2>1, InductiveStep, NextGoal DEF StepGoal, NamesGoal
<1>3. Inv => ContentsAsSpecified
  <2> SUFFICES ASSUME ContentInv PROVE ContentsAsSpecified
    OBVIOUS
  <2>1. \A i \in File : ideal[i].bytes = Padded(i) /\ ideal[i].eof = files[i].len
    BY ContentAt
  <2> QED
    BY <2>1 DEF ContentsAsSpecified
<1> HIDE DEF Inv
<1> QED
  BY <1>1, <1>2, <1>3, PTL DEF PathSpec

\* clone_file_to_path_journaled gives the new name the bytes of the source, leaves the
\* source as it reads, shares no block with it and copies nothing that lies past its
\* end of file - for any files, names, sizes and block size.
THEOREM ClonesAreCopiesHolds == PathSpec => ClonesAreCopies
<1>1. FileInv /\ NamesInv /\ [PathNext]_pathVars => [Copied]_pathVars
  BY NextGoal DEF StepGoal
<1>2. FileInv /\ NamesInv /\ [PathNext]_pathVars =>
        [call'.kind = "clone file" =>
           \A i \in call'.on, j \in {call'.new} :
              /\ ReadFile(j)' = ReadFile(i)
              /\ ReadFile(i)' = ReadFile(i)
              /\ Range(files'[i].blocks) \cap Range(files'[j].blocks) = {}
              /\ \A x \in files'[j].len + 1 .. BlockSize * Len(files'[j].blocks) : Padded(j)'[x] = 0]_pathVars
  BY <1>1 DEF Copied
<1> QED
  BY <1>2, InductiveStep, InitGoal, PTL DEF PathSpec, ClonesAreCopies
=============================================================================
