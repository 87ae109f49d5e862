------------------------- MODULE SparseArray_proofs -------------------------
(* Lemmas on one sparse array and on where slots lie in a vector of them:  *)
(* offsets and indices of a packed array, the parts of a slot number, and  *)
(* that nb_sparse_buckets gives an array to every slot.                    *)
EXTENDS SparseArray, Foundations

-----------------------------------------------------------------------------
(* One sparse array. *)

Indices == 0 .. Bits - 1

(* As many dense values as bits, and no index both a value and a tombstone.*)
PackedOver(V) ==
  { a \in [values : Seq(V), bitmap_vals : SUBSET Indices,
           bitmap_deleted_vals : SUBSET Indices] :
      /\ Len(a.values) = Cardinality(a.bitmap_vals)
      /\ a.bitmap_vals \cap a.bitmap_deleted_vals = {} }

LEMMA BitsOK == Bits \in Nat \ {0} /\ \E e \in 0 .. Bits : Bits = 2 ^ e
<1>1. PICK e \in 0 .. Bits : Bits = 2 ^ e
  BY BitsAssumption
<1>2. Bits \in Int
  <2>1. e \in Int
    OBVIOUS
  <2>2. 2 ^ e \in Int
    BY <2>1
  <2> QED
    BY <1>1, <2>2
<1>3. Bits >= 0 /\ e \in Nat
  BY <1>2
<1>4. Bits # 0
  <2> SUFFICES ASSUME Bits = 0
               PROVE  FALSE
    OBVIOUS
  <2>1. e = 0
    BY <1>2
  <2>2. Bits = 2 ^ 0
    BY <1>1, <2>1, Zenon
  <2> QED
    BY <2>2
<1> QED
  BY <1>1, <1>2, <1>3, <1>4

LEMMA Bitmap ==
  ASSUME NEW S \in SUBSET Indices
  PROVE  /\ IsFiniteSet(S) /\ S \subseteq Nat /\ Cardinality(S) \in Nat
         /\ Cardinality(S) <= Bits
<1>1. IsFiniteSet(Indices) /\ Cardinality(Indices) = Bits
  <2>1. 0 \in Int /\ Bits - 1 \in Int /\ ~ (0 > Bits - 1) /\ (Bits - 1) - 0 + 1 = Bits
    BY BitsOK
  <2> QED
    BY <2>1, FS_Interval DEF Indices
<1>2. IsFiniteSet(S) /\ Cardinality(S) <= Cardinality(Indices)
  BY <1>1, FS_Subset
<1>3. S \subseteq Nat
  BY DEF Indices
<1> QED
  BY <1>1, <1>2, <1>3, FS_CardinalityType

(* Offsets and indices of the values of a packed array.                    *)
LEMMA Offsets ==
  ASSUME NEW V, NEW a \in PackedOver(V)
  PROVE  /\ Len(a.values) \in 0 .. Bits
         /\ \A i \in Indices : IndexToOffset(a, i) = RankIn(a.bitmap_vals, i)
         /\ \A i \in Indices : IndexToOffset(a, i) \in 0 .. Len(a.values)
         /\ \A i \in a.bitmap_vals :
              i \in Indices /\ IndexToOffset(a, i) \in 0 .. Len(a.values) - 1
         /\ \A i, j \in a.bitmap_vals :
              /\ IndexToOffset(a, i) = IndexToOffset(a, j) => i = j
              /\ IndexToOffset(a, i) < IndexToOffset(a, j) <=> i < j
         /\ \A off \in 0 .. Len(a.values) - 1 :
              /\ OffsetToIndex(a, off) \in a.bitmap_vals
              /\ IndexToOffset(a, OffsetToIndex(a, off)) = off
<1> DEFINE S == a.bitmap_vals
           n == Len(a.values)
<1>1. S \in SUBSET Indices /\ n = Cardinality(S)
  BY DEF PackedOver
<1>2. IsFiniteSet(S) /\ S \subseteq Nat /\ n \in Nat /\ n <= Bits
  BY <1>1, Bitmap
<1>3. \A i : IndexToOffset(a, i) = RankIn(S, i)
  BY DEF IndexToOffset, RankIn
<1>4. ASSUME NEW i \in Indices
      PROVE  RankIn(S, i) \in 0 .. n /\ (i \in S => RankIn(S, i) \in 0 .. n - 1)
  <2>1. i \in Int
    BY BitsOK DEF Indices
  <2> HIDE DEF S, n
  <2> QED
    BY <1>1, <1>2, <2>1, RankRange
<1>5. ASSUME NEW i \in S, NEW j \in S
      PROVE  (RankIn(S, i) = RankIn(S, j) => i = j) /\ (RankIn(S, i) < RankIn(S, j) <=> i < j)
  BY <1>2, RankInjective
<1>6. ASSUME NEW off \in 0 .. n - 1
      PROVE  OffsetToIndex(a, off) \in S /\ RankIn(S, OffsetToIndex(a, off)) = off
  <2>1. \E i \in S : RankIn(S, i) = off
    <3> HIDE DEF S, n
    <3> QED
      BY <1>1, <1>2, RankTaken
  <2>2. \E i \in S : IndexToOffset(a, i) = off
    BY <1>3, <2>1
  <2>3. OffsetToIndex(a, off) \in S /\ IndexToOffset(a, OffsetToIndex(a, off)) = off
    BY <2>2 DEF OffsetToIndex
  <2> QED
    BY <1>3, <2>3
<1>7. n \in 0 .. Bits
  BY <1>2, BitsOK
<1>8. \A i \in S : i \in Indices
  BY <1>1
<1> HIDE DEF S, n
<1> QED
  BY <1>3, <1>4, <1>5, <1>6, <1>7, <1>8 DEF S, n

-----------------------------------------------------------------------------
(* Slot numbers. *)

LEMMA SlotNumber ==
  ASSUME NEW s \in Nat, NEW b \in Indices
  PROVE  s * Bits + b \in Nat /\ SparseBucket(s * Bits + b) = s /\ IndexIn(s * Bits + b) = b
<1> DEFINE x == s * Bits + b
<1>1. Bits \in Nat \ {0} /\ b \in 0 .. Bits - 1
  BY BitsOK DEF Indices
<1>2. x \in Nat /\ x = Bits * s + b
  BY <1>1, NatProduct
<1> HIDE DEF x
<1>3. x % Bits = b
  BY <1>1, <1>2, ModUnique
<1> DEFINE d == x \div Bits
<1>4. d \in Nat /\ x = Bits * d + b
  BY <1>1, <1>2, <1>3, DivMod
<1> HIDE DEF d
<1>5. ~ (d < s) /\ ~ (s < d)
  <2>1. /\ d < s => Bits * d + Bits <= Bits * s
        /\ s < d => Bits * s + Bits <= Bits * d
    BY <1>1, <1>4, MultiplesApart
  <2>2. Bits * d \in Nat /\ Bits * s \in Nat
    BY <1>1, <1>4, NatProduct
  <2> QED
    BY <1>1, <1>2, <1>4, <2>1, <2>2
<1>6. d = s
  BY <1>4, <1>5
<1> QED
  BY <1>2, <1>3, <1>6 DEF SparseBucket, IndexIn, x, d

LEMMA SlotParts ==
  ASSUME NEW i \in Nat
  PROVE  /\ SparseBucket(i) \in Nat /\ IndexIn(i) \in Indices
         /\ i = SparseBucket(i) * Bits + IndexIn(i)
<1> DEFINE d == i \div Bits
           m == i % Bits
<1>1. d \in Nat /\ m \in 0 .. Bits - 1 /\ i = Bits * d + m
  BY BitsOK, DivMod
<1> HIDE DEF d, m
<1>2. Bits * d = d * Bits
  BY <1>1, BitsOK
<1> QED
  BY <1>1, <1>2 DEF SparseBucket, IndexIn, Indices, d, m

(* Slots are ordered by array, then by index.                              *)
LEMMA SlotOrder ==
  ASSUME NEW i \in Nat, NEW j \in Nat
  PROVE  i < j <=> \/ SparseBucket(i) < SparseBucket(j)
                   \/ SparseBucket(i) = SparseBucket(j) /\ IndexIn(i) < IndexIn(j)
<1> DEFINE s == SparseBucket(i)
           t == SparseBucket(j)
           b == IndexIn(i)
           c == IndexIn(j)
<1>1. /\ s \in Nat /\ t \in Nat /\ b \in 0 .. Bits - 1 /\ c \in 0 .. Bits - 1
      /\ i = s * Bits + b /\ j = t * Bits + c
  BY SlotParts DEF Indices
<1>2. Bits \in Nat \ {0}
  BY BitsOK
<1> HIDE DEF s, t, b, c
<1>3. /\ s < t => s * Bits + Bits <= t * Bits
      /\ t < s => t * Bits + Bits <= s * Bits
  <2>1. /\ s < t => Bits * s + Bits <= Bits * t
        /\ t < s => Bits * t + Bits <= Bits * s
    BY <1>1, <1>2, MultiplesApart
  <2>2. Bits * s = s * Bits /\ Bits * t = t * Bits
    BY <1>1, <1>2
  <2> QED
    BY <2>1, <2>2
<1>4. s * Bits \in Nat /\ t * Bits \in Nat
  BY <1>1, <1>2, NatProduct
<1> DEFINE x == s * Bits
           y == t * Bits
<1>5. /\ x \in Nat /\ y \in Nat /\ i = x + b /\ j = y + c
      /\ (s < t => x + Bits <= y) /\ (t < s => y + Bits <= x) /\ (s = t => x = y)
  BY <1>1, <1>3, <1>4
<1> HIDE DEF x, y
<1> QED
  BY <1>1, <1>2, <1>5 DEF s, t, b, c

(* The arrays hold every slot.                                             *)
LEMMA SlotsCovered ==
  ASSUME NEW n \in Nat, Doubling(n + Bits)
  PROVE  /\ NbSparseBuckets(n) \in Nat /\ (n > 0 => NbSparseBuckets(n) > 0)
         /\ \A i \in 0 .. n - 1 :
              SparseBucket(i) \in 0 .. NbSparseBuckets(n) - 1 /\ IndexIn(i) \in Indices
<1> DEFINE top == n + Bits
           end == NbSparseBuckets(n)
           E == CHOOSE e \in 0 .. n : 2 ^ e >= n /\ \A d \in 0 .. e - 1 : 2 ^ d < n
           P == RoundUpToPowerOfTwo(n)
<1>1. n \in Nat /\ Bits \in Nat \ {0} /\ top \in Nat
  BY BitsOK
<1>2. Doubling(top)
  OBVIOUS
<1>3. \A k \in 0 .. n : k \in 0 .. top /\ 2 ^ k \in Nat \ {0}
  BY <1>1, <1>2, DoublingPositive
<1>4. 2 ^ n >= n
  <2> DEFINE Bad == { k \in 0 .. n : ~ (2 ^ k >= k) }
  <2>0. n \in 0 .. n
    BY <1>1
  <2> SUFFICES ASSUME Bad # {}
               PROVE  FALSE
    <3>1. n \in Bad \/ 2 ^ n >= n
      BY <2>0
    <3> QED
      BY <3>1
  <2>1. PICK k \in Bad : \A j \in Bad : k <= j
    <3>1. Bad \subseteq Nat
      BY <1>1
    <3> HIDE DEF Bad
    <3> QED
      BY <3>1, LeastNatural
  <2>2. k \in 0 .. n /\ ~ (2 ^ k >= k)
    OBVIOUS
  <2>3. k # 0
    <3> SUFFICES ASSUME k = 0
                 PROVE  FALSE
      OBVIOUS
    <3>1. ~ (2 ^ 0 >= 0)
      BY <2>2, Zenon
    <3> QED
      BY <3>1
  <2>4. k - 1 \in 0 .. n /\ k - 1 \in 0 .. top - 1 /\ (k - 1) + 1 = k
    BY <1>1, <2>2, <2>3
  <2>5. 2 ^ (k - 1) >= k - 1
    BY <2>1, <2>2, <2>4
  <2>6. 2 ^ ((k - 1) + 1) = 2 * 2 ^ (k - 1)
    BY <1>2, <2>4 DEF Doubling
  <2>7. 2 ^ (k - 1) \in Nat \ {0} /\ 2 ^ k = 2 * 2 ^ (k - 1)
    BY <1>3, <2>4, <2>6
  <2> QED
    BY <2>2, <2>5, <2>7
<1>5. E \in 0 .. n /\ 2 ^ E >= n
  <2> DEFINE G == { e \in 0 .. n : 2 ^ e >= n }
  <2>1. G \subseteq Nat /\ G # {}
    <3>1. n \in 0 .. n /\ 0 .. n \subseteq Nat
      BY <1>1
    <3>2. n \in G
      BY <1>4, <3>1, Zenon
    <3> QED
      BY <3>1, <3>2
  <2>2. \E e \in G : \A d \in G : e <= d
    <3> HIDE DEF G
    <3> QED
      BY <2>1, LeastNatural
  <2>3. PICK e \in G : \A d \in G : e <= d
    BY <2>2
  <2>4. ASSUME NEW d \in 0 .. e - 1
        PROVE  2 ^ d < n
    <3>1. e \in 0 .. n /\ d \in 0 .. n /\ ~ (e <= d)
      BY <1>1
    <3>2. ~ (2 ^ d >= n)
      BY <2>3, <3>1
    <3> QED
      BY <1>1, <1>3, <3>1, <3>2
  <2>5. \E x \in 0 .. n : 2 ^ x >= n /\ \A d \in 0 .. x - 1 : 2 ^ d < n
    BY <2>4
  <2> HIDE DEF G
  <2> QED
    BY <2>5
<1>6. P = 2 ^ E
  BY DEF RoundUpToPowerOfTwo
<1> HIDE DEF E
<1>7. P \in Nat \ {0} /\ P >= n
  BY <1>3, <1>5, <1>6
<1>8. PICK e \in 0 .. Bits : Bits = 2 ^ e
  BY BitsOK
<1>9. e \in 0 .. top /\ E \in 0 .. top /\ e \in Nat /\ E \in Nat
  BY <1>1, <1>5
<1> HIDE DEF top, P
<1>10. P < Bits \/ \E c \in Nat \ {0} : P = Bits * c
  <2>1. CASE E < e
    <3>1. 2 * 2 ^ E <= 2 ^ e
      BY <1>1, <1>2, <1>9, <2>1, DoublingGrows
    <3>2. 2 * P <= Bits
      BY <1>6, <1>8, <3>1
    <3> QED
      BY <1>1, <1>7, <3>2
  <2>2. CASE e <= E
    <3>1. PICK c \in Nat \ {0} : 2 ^ E = c * 2 ^ e
      BY <1>1, <1>2, <1>9, <2>2, DoublingDivides
    <3>2. P = c * Bits
      BY <1>6, <1>8, <3>1
    <3>3. c * Bits = Bits * c
      BY <1>1
    <3> QED
      BY <3>2, <3>3
  <2> QED
    BY <1>9, <2>1, <2>2
<1> DEFINE q == P \div Bits
<1>11. q \in Nat
  BY <1>1, <1>7, DivMod
<1>12. end = IF n = 0 THEN 0 ELSE IF q > 1 THEN q ELSE 1
  BY DEF end, NbSparseBuckets, SparseBucket, P
<1>13. ASSUME NEW i \in 0 .. n - 1
       PROVE  SparseBucket(i) < end /\ SparseBucket(i) \in Nat
  <2> DEFINE d == SparseBucket(i)
  <2>1. i \in Nat /\ n # 0 /\ i < P
    BY <1>1, <1>7
  <2>2. d \in Nat /\ (1 <= d => Bits * 1 <= i) /\ \A c \in Nat : c <= d => Bits * c <= i
    BY <1>1, <2>1, DivMod, Quotient DEF SparseBucket
  <2> HIDE DEF d
  <2>3. CASE P < Bits
    <3>1. d = 0
      BY <1>1, <1>7, <2>1, <2>2, <2>3
    <3> QED
      BY <1>11, <1>12, <2>1, <3>1 DEF d
  <2>4. CASE \E c \in Nat \ {0} : P = Bits * c
    <3>1. PICK c \in Nat \ {0} : P = Bits * c
      BY <2>4
    <3>2. q = c
      BY <1>1, <3>1, ExactQuotient
    <3> HIDE DEF q
    <3>3. ~ (c <= d)
      BY <1>7, <2>1, <2>2, <3>1
    <3>4. d < end /\ d \in Nat
      BY <1>12, <2>1, <2>2, <3>2, <3>3
    <3> QED
      BY <3>4 DEF d
  <2> QED
    BY <1>10, <2>3, <2>4
<1> HIDE DEF q, end
<1>14. end \in Nat /\ (n > 0 => end > 0)
  BY <1>1, <1>11, <1>12
<1>15. ASSUME NEW i \in 0 .. n - 1
       PROVE  SparseBucket(i) \in 0 .. end - 1 /\ IndexIn(i) \in Indices
  <2>1. i \in Nat
    BY <1>1
  <2> QED
    BY <1>13, <1>14, <2>1, SlotParts
<1> QED
  BY <1>14, <1>15 DEF end
=============================================================================
