------------------------ MODULE SparseArrays_proofs ------------------------
(* The vector of sparse arrays keeps its arrays packed and its counters    *)
(* right, and implements the flat table of slots that the engine is        *)
(* modelled with: for every number of slots and bits, every set of values  *)
(* and every call.                                                         *)
EXTENDS SparseArrays, SparseArray_proofs, SequenceTheorems

-----------------------------------------------------------------------------
(* One sparse array. *)

PackedArrays == PackedOver(Value)

(* What a slot holds, for marks that are no values.                        *)
LEMMA Reports ==
  ASSUME NEW a \in PackedArrays, NEW i \in Indices
  PROVE  /\ i \in a.bitmap_vals => Report(a, i, Empty, Deleted) \in Value
         /\ Report(a, i, Empty, Deleted) \in Value => i \in a.bitmap_vals
         /\ Report(a, i, Empty, Deleted) = Deleted <=> i \in a.bitmap_deleted_vals
         /\ Report(a, i, Empty, Deleted) = Empty
              <=> i \notin a.bitmap_vals \cup a.bitmap_deleted_vals
<1>1. ASSUME i \in a.bitmap_vals
      PROVE  Dense(a, IndexToOffset(a, i)) \in Value /\ i \notin a.bitmap_deleted_vals
  <2> DEFINE off == IndexToOffset(a, i)
  <2>1. off \in 0 .. Len(a.values) - 1 /\ a.values \in Seq(Value)
    BY <1>1, Offsets DEF PackedArrays, PackedOver
  <2> HIDE DEF off
  <2>2. a.values[off + 1] \in Value
    BY <2>1
  <2>3. i \notin a.bitmap_deleted_vals
    BY <1>1 DEF PackedArrays, PackedOver
  <2> QED
    BY <2>2, <2>3 DEF Dense, off
<1> QED
  BY <1>1, SizeAssumption DEF Report, HasValue, HasDeletedValue

LEMMA NewArrayOK ==
  /\ NewArray \in PackedArrays /\ NewArray.bitmap_vals = {}
  /\ NewArray.bitmap_deleted_vals = {} /\ Len(NewArray.values) = 0
<1>1. <<>> \in Seq(Value) /\ Len(<<>>) = 0 /\ Cardinality({}) = 0
  BY FS_EmptySet
<1> QED
  BY <1>1 DEF NewArray, FromParts, PackedArrays, PackedOver

(* set                                                                     *)
LEMMA SetOK ==
  ASSUME NEW a \in PackedArrays, NEW i \in Indices \ a.bitmap_vals, NEW v \in Value
  PROVE  /\ Set(a, i, v) \in PackedArrays
         /\ Set(a, i, v).bitmap_vals = a.bitmap_vals \cup {i}
         /\ Set(a, i, v).bitmap_deleted_vals = a.bitmap_deleted_vals \ {i}
         /\ Report(Set(a, i, v), i, Empty, Deleted) = v
         /\ \A j \in Indices \ {i} :
              Report(Set(a, i, v), j, Empty, Deleted) = Report(a, j, Empty, Deleted)
<1> DEFINE b == Set(a, i, v)
           S == a.bitmap_vals
           off == IndexToOffset(a, i)
           n == Len(a.values)
<1>1. /\ S \in SUBSET Indices /\ a.bitmap_deleted_vals \in SUBSET Indices
      /\ S \cap a.bitmap_deleted_vals = {} /\ a.values \in Seq(Value) /\ n = Cardinality(S)
  BY DEF PackedArrays, PackedOver
<1>2. IsFiniteSet(S) /\ S \subseteq Nat /\ i \in Nat \ S
  BY <1>1, Bitmap, BitsOK DEF Indices
<1>3. off \in 0 .. n /\ n \in Nat
  BY Offsets DEF PackedArrays
<1>4. /\ b.values = InsertAt(a.values, off + 1, v)
      /\ b.bitmap_vals = S \cup {i} /\ b.bitmap_deleted_vals = a.bitmap_deleted_vals \ {i}
      /\ b = [values |-> b.values, bitmap_vals |-> b.bitmap_vals,
              bitmap_deleted_vals |-> b.bitmap_deleted_vals]
  BY DEF Set
<1> HIDE DEF off, n
<1>5. /\ b.values \in Seq(Value) /\ Len(b.values) = n + 1 /\ b.values[off + 1] = v
      /\ \A q \in 0 .. n - 1 : b.values[IF q < off THEN q + 1 ELSE q + 2] = a.values[q + 1]
  BY <1>1, <1>3, <1>4, InsertShifts DEF n
<1> HIDE DEF b
<1>6. Cardinality(S \cup {i}) = n + 1
  <2> HIDE DEF S
  <2> QED
    BY <1>1, <1>2, FS_AddElement
<1>7. b \in PackedArrays
  <2>1. /\ b.values \in Seq(Value) /\ b.bitmap_vals \in SUBSET Indices
        /\ b.bitmap_deleted_vals \in SUBSET Indices
        /\ b.bitmap_vals \cap b.bitmap_deleted_vals = {}
    BY <1>1, <1>4, <1>5
  <2>2. Len(b.values) = Cardinality(b.bitmap_vals)
    BY <1>4, <1>5, <1>6
  <2>3. b \in [values : Seq(Value), bitmap_vals : SUBSET Indices,
               bitmap_deleted_vals : SUBSET Indices]
    BY <1>4, <2>1
  <2> QED
    BY <2>1, <2>2, <2>3 DEF PackedArrays, PackedOver
<1>8. ASSUME NEW j \in Indices
      PROVE  IndexToOffset(b, j)
               = IF i < j THEN IndexToOffset(a, j) + 1 ELSE IndexToOffset(a, j)
  <2>1. j \in Int
    BY BitsOK DEF Indices
  <2>2. RankIn(S \cup {i}, j) = IF i < j THEN RankIn(S, j) + 1 ELSE RankIn(S, j)
    BY <1>2, <2>1, RankAdd
  <2>3. IndexToOffset(b, j) = RankIn(S \cup {i}, j) /\ IndexToOffset(a, j) = RankIn(S, j)
    BY <1>4 DEF IndexToOffset, RankIn
  <2> QED
    BY <2>2, <2>3
<1>9. Report(b, i, Empty, Deleted) = v
  <2>1. IndexToOffset(b, i) = off
    BY <1>2, <1>8 DEF off
  <2> QED
    BY <1>4, <1>5, <2>1 DEF Report, HasValue, Dense
<1>10. ASSUME NEW j \in Indices \ {i}
       PROVE  Report(b, j, Empty, Deleted) = Report(a, j, Empty, Deleted)
  <2>1. CASE j \in S
    <3> DEFINE q == IndexToOffset(a, j)
    <3>1. q \in 0 .. n - 1
      BY <2>1, Offsets DEF n, PackedArrays
    <3>2. i \in Int /\ j \in Int /\ i # j
      BY <1>2, BitsOK DEF Indices
    <3>3. q < off <=> j < i
      <4>1. q = RankIn(S, j) /\ off = RankIn(S, i)
        BY DEF IndexToOffset, RankIn, off
      <4>2. /\ j < i => RankIn(S, j) < RankIn(S, i)
            /\ i <= j => RankIn(S, i) <= RankIn(S, j)
        BY <1>2, <2>1, <3>2, RankOrder
      <4> HIDE DEF q
      <4> QED
        BY <1>3, <3>1, <3>2, <4>1, <4>2
    <3>4. IndexToOffset(b, j) + 1 = IF q < off THEN q + 1 ELSE q + 2
      <4>1. IndexToOffset(b, j) = IF i < j THEN q + 1 ELSE q
        BY <1>8
      <4> HIDE DEF q
      <4> QED
        BY <1>3, <3>1, <3>2, <3>3, <4>1
    <3>5. b.values[IndexToOffset(b, j) + 1] = a.values[q + 1]
      <4> HIDE DEF q
      <4> QED
        BY <1>5, <3>1, <3>4
    <3> QED
      BY <1>4, <2>1, <3>5 DEF Report, HasValue, Dense
  <2>2. CASE j \notin S
    BY <1>4, <2>2 DEF Report, HasValue, HasDeletedValue
  <2> QED
    BY <2>1, <2>2
<1> QED
  BY <1>4, <1>7, <1>9, <1>10 DEF b

(* remove, of the value at an offset                                       *)
LEMMA RemoveOK ==
  ASSUME NEW a \in PackedArrays, NEW off \in 0 .. Len(a.values) - 1,
         NEW i \in a.bitmap_vals, IndexToOffset(a, i) = off
  PROVE  /\ RemoveValue(a, off, i) \in PackedArrays
         /\ RemoveValue(a, off, i).bitmap_vals = a.bitmap_vals \ {i}
         /\ RemoveValue(a, off, i).bitmap_deleted_vals = a.bitmap_deleted_vals \cup {i}
         /\ Len(RemoveValue(a, off, i).values) = Len(a.values) - 1
         /\ Report(RemoveValue(a, off, i), i, Empty, Deleted) = Deleted
         /\ \A j \in Indices : IndexToOffset(RemoveValue(a, off, i), j)
                 = IF i < j THEN IndexToOffset(a, j) - 1 ELSE IndexToOffset(a, j)
         /\ \A j \in Indices \ {i} :
              Report(RemoveValue(a, off, i), j, Empty, Deleted)
                = Report(a, j, Empty, Deleted)
<1> DEFINE b == RemoveValue(a, off, i)
           S == a.bitmap_vals
           n == Len(a.values)
<1>1. /\ S \in SUBSET Indices /\ a.bitmap_deleted_vals \in SUBSET Indices
      /\ S \cap a.bitmap_deleted_vals = {} /\ a.values \in Seq(Value) /\ n = Cardinality(S)
  BY DEF PackedArrays, PackedOver
<1>2. IsFiniteSet(S) /\ S \subseteq Nat /\ i \in S /\ i \in Indices
  BY <1>1, Bitmap
<1>3. n \in Nat
  BY Offsets DEF PackedArrays
<1>4. /\ b.values = RemoveAt(a.values, off + 1)
      /\ b.bitmap_vals = S \ {i} /\ b.bitmap_deleted_vals = a.bitmap_deleted_vals \cup {i}
      /\ b = [values |-> b.values, bitmap_vals |-> b.bitmap_vals,
              bitmap_deleted_vals |-> b.bitmap_deleted_vals]
  BY DEF RemoveValue
<1> HIDE DEF n
<1>5. /\ b.values \in Seq(Value) /\ Len(b.values) = n - 1
      /\ \A q \in 0 .. n - 2 : b.values[q + 1] = a.values[IF q < off THEN q + 1 ELSE q + 2]
  <2> DEFINE seq == a.values
             r == RemoveAt(seq, off + 1)
  <2>1. seq \in Seq(Value) /\ off \in 0 .. Len(seq) - 1
    BY <1>1
  <2> HIDE DEF b, seq
  <2>2. /\ r \in Seq(Value) /\ Len(r) = Len(seq) - 1
        /\ \A q \in 0 .. Len(seq) - 2 : r[q + 1] = seq[IF q < off THEN q + 1 ELSE q + 2]
    BY <2>1, RemoveShifts
  <2>3. b.values = r
    BY <1>4 DEF seq
  <2> HIDE DEF r
  <2> QED
    BY <2>2, <2>3 DEF n, seq
<1> HIDE DEF b
<1>6. Cardinality(S \ {i}) = n - 1
  <2> HIDE DEF S
  <2> QED
    BY <1>1, <1>2, FS_RemoveElement
<1>7. b \in PackedArrays
  <2>1. /\ b.values \in Seq(Value) /\ b.bitmap_vals \in SUBSET Indices
        /\ b.bitmap_deleted_vals \in SUBSET Indices
        /\ b.bitmap_vals \cap b.bitmap_deleted_vals = {}
    BY <1>1, <1>2, <1>4, <1>5
  <2>2. Len(b.values) = Cardinality(b.bitmap_vals)
    BY <1>4, <1>5, <1>6
  <2>3. b \in [values : Seq(Value), bitmap_vals : SUBSET Indices,
               bitmap_deleted_vals : SUBSET Indices]
    BY <1>4, <2>1
  <2> QED
    BY <2>1, <2>2, <2>3 DEF PackedArrays, PackedOver
<1>8. ASSUME NEW j \in Indices
      PROVE  IndexToOffset(b, j)
               = IF i < j THEN IndexToOffset(a, j) - 1 ELSE IndexToOffset(a, j)
  <2>1. j \in Int
    BY BitsOK DEF Indices
  <2>2. RankIn(S \ {i}, j) = IF i < j THEN RankIn(S, j) - 1 ELSE RankIn(S, j)
    BY <1>2, <2>1, RankRemove
  <2>3. IndexToOffset(b, j) = RankIn(S \ {i}, j) /\ IndexToOffset(a, j) = RankIn(S, j)
    BY <1>4 DEF IndexToOffset, RankIn
  <2> QED
    BY <2>2, <2>3
<1>9. Report(b, i, Empty, Deleted) = Deleted
  BY <1>4 DEF Report, HasValue, HasDeletedValue
<1>10. ASSUME NEW j \in Indices \ {i}
       PROVE  Report(b, j, Empty, Deleted) = Report(a, j, Empty, Deleted)
  <2>1. CASE j \in S
    <3> DEFINE q == IndexToOffset(a, j)
    <3>1. q \in 0 .. n - 1
      BY <2>1, Offsets DEF n, PackedArrays
    <3>2. i \in Int /\ j \in Int /\ i # j
      BY <1>2, BitsOK DEF Indices
    <3>3. (q < off <=> j < i) /\ q # off
      BY <2>1, Offsets DEF PackedArrays
    <3> DEFINE r == IndexToOffset(b, j)
    <3>4. r = IF i < j THEN q - 1 ELSE q
      BY <1>8
    <3> HIDE DEF q, r
    <3>5. r \in 0 .. n - 2 /\ (IF r < off THEN r + 1 ELSE r + 2) = q + 1
      BY <1>3, <3>1, <3>2, <3>3, <3>4 DEF n
    <3>6. b.values[r + 1] = a.values[q + 1]
      BY <1>5, <3>5
    <3> QED
      BY <1>4, <2>1, <3>6 DEF Report, HasValue, Dense, q, r
  <2>2. CASE j \notin S
    BY <1>4, <2>2 DEF Report, HasValue, HasDeletedValue
  <2> QED
    BY <2>1, <2>2
<1> QED
  BY <1>4, <1>5, <1>7, <1>8, <1>9, <1>10 DEF b, n

(* Writing through a reference to the value at an offset.                  *)
Written(a, off, v) == [a EXCEPT !.values[off + 1] = v]

LEMMA WriteOK ==
  ASSUME NEW a \in PackedArrays, NEW off \in 0 .. Len(a.values) - 1,
         NEW i \in a.bitmap_vals, IndexToOffset(a, i) = off, NEW v \in Value,
         NEW b, b = Written(a, off, v)
  PROVE  /\ b \in PackedArrays
         /\ b.bitmap_vals = a.bitmap_vals /\ b.bitmap_deleted_vals = a.bitmap_deleted_vals
         /\ Len(b.values) = Len(a.values)
         /\ Report(b, i, Empty, Deleted) = v
         /\ \A j \in Indices : IndexToOffset(b, j) = IndexToOffset(a, j)
         /\ \A j \in Indices \ {i} :
              Report(b, j, Empty, Deleted) = Report(a, j, Empty, Deleted)
<1> DEFINE n == Len(a.values)
<1>1. /\ a \in [values : Seq(Value), bitmap_vals : SUBSET Indices,
                bitmap_deleted_vals : SUBSET Indices]
      /\ a.values \in Seq(Value) /\ n \in Nat
  BY Offsets DEF PackedArrays, PackedOver
<1>2. /\ b.values = [a.values EXCEPT ![off + 1] = v]
      /\ b.bitmap_vals = a.bitmap_vals /\ b.bitmap_deleted_vals = a.bitmap_deleted_vals
      /\ b \in [values : Seq(Value), bitmap_vals : SUBSET Indices,
                bitmap_deleted_vals : SUBSET Indices]
  <2>1. b.values = [a.values EXCEPT ![off + 1] = v]
    BY <1>1 DEF Written
  <2>2. [a.values EXCEPT ![off + 1] = v] \in Seq(Value)
    BY <1>1
  <2> QED
    BY <1>1, <2>1, <2>2 DEF Written
<1>3. /\ Len(b.values) = n /\ b.values[off + 1] = v
      /\ \A q \in 0 .. n - 1 : q # off => b.values[q + 1] = a.values[q + 1]
  BY <1>1, <1>2
<1>4. b \in PackedArrays
  BY <1>2, <1>3 DEF PackedArrays, PackedOver
<1>5. \A j : IndexToOffset(b, j) = IndexToOffset(a, j)
  BY <1>2 DEF IndexToOffset
<1>6. Report(b, i, Empty, Deleted) = v
  BY <1>2, <1>3, <1>5 DEF Report, HasValue, Dense
<1>7. ASSUME NEW j \in Indices \ {i}
      PROVE  Report(b, j, Empty, Deleted) = Report(a, j, Empty, Deleted)
  <2>1. CASE j \in a.bitmap_vals
    <3>1. IndexToOffset(a, j) \in 0 .. n - 1 /\ IndexToOffset(a, j) # off
      BY <2>1, Offsets DEF PackedArrays
    <3>2. Dense(b, IndexToOffset(b, j)) = Dense(a, IndexToOffset(a, j))
      BY <1>3, <1>5, <3>1 DEF Dense
    <3> QED
      BY <1>2, <2>1, <3>2 DEF Report, HasValue
  <2>2. CASE j \notin a.bitmap_vals
    BY <1>2, <2>2 DEF Report, HasValue, HasDeletedValue
  <2> QED
    BY <2>1, <2>2
<1> QED
  BY <1>2, <1>3, <1>4, <1>5, <1>6, <1>7

LEMMA EraseArrayOK ==
  ASSUME NEW a \in PackedArrays
  PROVE  /\ EraseArray(a) \in PackedArrays
         /\ EraseArray(a).bitmap_vals = {} /\ Len(EraseArray(a).values) = 0
         /\ EraseArray(a).bitmap_deleted_vals = a.bitmap_deleted_vals \cup a.bitmap_vals
<1>1. <<>> \in Seq(Value) /\ Len(<<>>) = 0 /\ Cardinality({}) = 0
  BY FS_EmptySet
<1> QED
  BY <1>1 DEF EraseArray, PackedArrays, PackedOver

(* The arrays hold every slot.                                             *)
LEMMA ArraysCover ==
  /\ End \in Nat /\ Arrays = 0 .. End - 1 /\ (BucketCount > 0 => End > 0)
  /\ \A i \in Slots : i \in Nat /\ SparseBucket(i) \in Arrays /\ IndexIn(i) \in Indices
<1>1. BucketCount \in Nat /\ Bits \in Nat
  BY SizeAssumption, BitsOK
<1> DEFINE top == BucketCount + Bits
<1>2. Doubling(top)
  <2>1. \A k \in 0 .. top - 1 : k \in 0 .. BucketCount + Bits
    BY <1>1
  <2> QED
    BY <2>1, PowerLaw DEF Doubling
<1>3. Arrays = 0 .. End - 1
  BY DEF Arrays, End
<1> QED
  BY <1>1, <1>2, <1>3, SlotsCovered DEF End, Slots

-----------------------------------------------------------------------------
(* The vector and the flat table it stands for. *)

Vectors ==
  { B \in [Arrays -> PackedArrays] :
      \A s \in Arrays : \A b \in B[s].bitmap_vals \cup B[s].bitmap_deleted_vals :
        s * Bits + b < BucketCount }

FlatOf(B) ==
  [i \in Slots |-> Report(B[SparseBucket(i)], IndexIn(i), Empty, Deleted)]

Tables == [Slots -> Value \cup {Empty, Deleted}]
StoredIn(F) == { i \in Slots : F[i] \in Value }
BuriedIn(F) == { i \in Slots : F[i] = Deleted }

Changed(f, x, y) == [f EXCEPT ![x] = y]

LEMMA FlatSlots ==
  ASSUME NEW B \in Vectors
  PROVE  /\ FlatOf(B) \in Tables
         /\ \A i \in Slots :
              LET a == B[SparseBucket(i)] IN
              /\ a \in PackedArrays /\ IndexIn(i) \in Indices
              /\ FlatOf(B)[i] = Report(a, IndexIn(i), Empty, Deleted)
              /\ FlatOf(B)[i] \in Value <=> IndexIn(i) \in a.bitmap_vals
              /\ FlatOf(B)[i] = Deleted <=> IndexIn(i) \in a.bitmap_deleted_vals
              /\ FlatOf(B)[i] = Empty
                   <=> IndexIn(i) \notin a.bitmap_vals \cup a.bitmap_deleted_vals
<1>1. ASSUME NEW i \in Slots
      PROVE  LET a == B[SparseBucket(i)] IN
             /\ a \in PackedArrays /\ IndexIn(i) \in Indices
             /\ FlatOf(B)[i] = Report(a, IndexIn(i), Empty, Deleted)
             /\ FlatOf(B)[i] \in Value <=> IndexIn(i) \in a.bitmap_vals
             /\ FlatOf(B)[i] = Deleted <=> IndexIn(i) \in a.bitmap_deleted_vals
             /\ FlatOf(B)[i] = Empty
                  <=> IndexIn(i) \notin a.bitmap_vals \cup a.bitmap_deleted_vals
  <2> DEFINE a == B[SparseBucket(i)]
             b == IndexIn(i)
  <2>1. a \in PackedArrays /\ b \in Indices
    BY ArraysCover DEF Vectors
  <2>2. FlatOf(B)[i] = Report(a, b, Empty, Deleted)
    BY DEF FlatOf
  <2> HIDE DEF a, b
  <2>3. /\ b \in a.bitmap_vals => Report(a, b, Empty, Deleted) \in Value
        /\ Report(a, b, Empty, Deleted) \in Value => b \in a.bitmap_vals
        /\ Report(a, b, Empty, Deleted) = Deleted <=> b \in a.bitmap_deleted_vals
        /\ Report(a, b, Empty, Deleted) = Empty
             <=> b \notin a.bitmap_vals \cup a.bitmap_deleted_vals
    BY <2>1, Reports
  <2> QED
    BY <2>1, <2>2, <2>3 DEF a, b
<1>2. ASSUME NEW i \in Slots
      PROVE  FlatOf(B)[i] \in Value \cup {Empty, Deleted}
  BY <1>1
<1>3. FlatOf(B) = [i \in Slots |-> FlatOf(B)[i]]
  BY DEF FlatOf
<1>4. FlatOf(B) \in Tables
  BY <1>2, <1>3 DEF Tables
<1> QED
  BY <1>1, <1>4

(* a is array c with a change at index b.                                  *)
ChangeOf(c, b, a) ==
  /\ a \in PackedArrays
  /\ a.bitmap_vals \cup a.bitmap_deleted_vals
       \subseteq c.bitmap_vals \cup c.bitmap_deleted_vals \cup {b}
  /\ \A j \in Indices \ {b} :
       Report(a, j, Empty, Deleted) = Report(c, j, Empty, Deleted)

(* A vector with one array changed at one index differs in one slot.       *)
LEMMA FlatEdit ==
  ASSUME NEW B \in Vectors, NEW i \in Slots, NEW a,
         ChangeOf(B[SparseBucket(i)], IndexIn(i), a),
         NEW C, C = Changed(B, SparseBucket(i), a)
  PROVE  /\ C \in Vectors
         /\ FlatOf(C) = Changed(FlatOf(B), i, Report(a, IndexIn(i), Empty, Deleted))
<1> DEFINE s == SparseBucket(i)
           b == IndexIn(i)
<1>1. s \in Arrays /\ b \in Indices /\ i \in Nat /\ i = s * Bits + b
  BY ArraysCover, SlotParts
<1>2. i < BucketCount /\ BucketCount \in Nat
  BY <1>1, SizeAssumption DEF Slots
<1>3. /\ C \in [Arrays -> PackedArrays] /\ C[s] = a
      /\ \A t \in Arrays : t # s => C[t] = B[t]
      /\ B \in [Arrays -> PackedArrays]
  BY <1>1 DEF Vectors, Changed, ChangeOf
<1> HIDE DEF s, b
<1>4. C \in Vectors
  <2>1. ASSUME NEW t \in Arrays, NEW c \in C[t].bitmap_vals \cup C[t].bitmap_deleted_vals
        PROVE  t * Bits + c < BucketCount
    <3>1. CASE t = s /\ c = b
      BY <1>1, <1>2, <3>1
    <3>2. CASE ~ (t = s /\ c = b)
      <4>1. c \in B[t].bitmap_vals \cup B[t].bitmap_deleted_vals
        BY <1>3, <2>1, <3>2 DEF s, b, ChangeOf
      <4> QED
        BY <4>1 DEF Vectors
    <3> QED
      BY <3>1, <3>2
  <2> QED
    BY <1>3, <2>1 DEF Vectors
<1>5. ASSUME NEW j \in Slots
      PROVE  FlatOf(C)[j]
               = IF j = i THEN Report(a, b, Empty, Deleted) ELSE FlatOf(B)[j]
  <2> DEFINE t == SparseBucket(j)
             c == IndexIn(j)
  <2>1. t \in Arrays /\ c \in Indices /\ j = t * Bits + c
    BY ArraysCover, SlotParts
  <2>2. FlatOf(C)[j] = Report(C[t], c, Empty, Deleted)
        /\ FlatOf(B)[j] = Report(B[t], c, Empty, Deleted)
    BY DEF FlatOf
  <2>3. j = i => t = s /\ c = b
    BY DEF s, b
  <2> HIDE DEF t, c
  <2>4. CASE j = i
    BY <1>3, <2>2, <2>3, <2>4
  <2>5. CASE t = s /\ j # i
    <3>1. c # b
      BY <1>1, <2>1, <2>5
    <3> QED
      BY <1>3, <2>1, <2>2, <2>5, <3>1 DEF s, b, ChangeOf
  <2>6. CASE t # s
    BY <1>3, <2>1, <2>2, <2>3, <2>6
  <2> QED
    BY <2>4, <2>5, <2>6
<1>6. FlatOf(C) = [FlatOf(B) EXCEPT ![i] = Report(a, b, Empty, Deleted)]
  <2>1. FlatOf(C) = [j \in Slots |-> FlatOf(C)[j]] /\ FlatOf(B) = [j \in Slots |-> FlatOf(B)[j]]
    BY DEF FlatOf
  <2> DEFINE F == FlatOf(B)
             G == FlatOf(C)
             r == Report(a, b, Empty, Deleted)
  <2>2. /\ F = [j \in Slots |-> F[j]] /\ G = [j \in Slots |-> G[j]]
        /\ \A j \in Slots : G[j] = IF j = i THEN r ELSE F[j]
    BY <1>5, <2>1
  <2> HIDE DEF F, G, r
  <2>3. G = [F EXCEPT ![i] = r]
    BY <2>2
  <2> QED
    BY <2>3 DEF F, G, r
<1> QED
  BY <1>4, <1>6 DEF b, Changed

LEMMA FreshVector ==
  /\ [s \in Arrays |-> NewArray] \in Vectors
  /\ FlatOf([s \in Arrays |-> NewArray]) = [i \in Slots |-> Empty]
<1> DEFINE B == [s \in Arrays |-> NewArray]
<1>1. B \in [Arrays -> PackedArrays] /\ \A s \in Arrays : B[s] = NewArray
  BY NewArrayOK
<1>2. B \in Vectors
  BY <1>1, NewArrayOK DEF Vectors
<1> HIDE DEF B
<1>3. \A i \in Slots : FlatOf(B)[i] = Empty
  BY <1>1, <1>2, ArraysCover, FlatSlots, NewArrayOK
<1>4. FlatOf(B) = [i \in Slots |-> Empty]
  BY <1>3 DEF FlatOf
<1> QED
  BY <1>2, <1>4 DEF B

LEMMA ErasedVector ==
  ASSUME NEW B \in Vectors
  PROVE  /\ [s \in Arrays |-> EraseArray(B[s])] \in Vectors
         /\ FlatOf([s \in Arrays |-> EraseArray(B[s])])
              = [i \in Slots |-> IF i \in StoredIn(FlatOf(B)) THEN Deleted ELSE FlatOf(B)[i]]
<1> DEFINE C == [s \in Arrays |-> EraseArray(B[s])]
<1>1. \A s \in Arrays : B[s] \in PackedArrays /\ C[s] = EraseArray(B[s])
  BY DEF Vectors
<1>2. C \in [Arrays -> PackedArrays]
  BY <1>1, EraseArrayOK
<1>3. \A s \in Arrays :
        /\ C[s].bitmap_vals = {}
        /\ C[s].bitmap_deleted_vals = B[s].bitmap_deleted_vals \cup B[s].bitmap_vals
  BY <1>1, EraseArrayOK
<1> HIDE DEF C
<1>4. C \in Vectors
  BY <1>2, <1>3 DEF Vectors
<1>5. ASSUME NEW i \in Slots
      PROVE  FlatOf(C)[i] = IF i \in StoredIn(FlatOf(B)) THEN Deleted ELSE FlatOf(B)[i]
  <2> DEFINE a == B[SparseBucket(i)]
             c == C[SparseBucket(i)]
             b == IndexIn(i)
             F == FlatOf(B)[i]
             G == FlatOf(C)[i]
  <2>1. /\ F \in Value <=> b \in a.bitmap_vals
        /\ F = Deleted <=> b \in a.bitmap_deleted_vals
        /\ F = Empty <=> b \notin a.bitmap_vals \cup a.bitmap_deleted_vals
    BY FlatSlots
  <2>2. /\ G = Deleted <=> b \in c.bitmap_deleted_vals
        /\ G = Empty <=> b \notin c.bitmap_vals \cup c.bitmap_deleted_vals
    BY <1>4, FlatSlots
  <2>3. c.bitmap_vals = {} /\ c.bitmap_deleted_vals = a.bitmap_deleted_vals \cup a.bitmap_vals
    BY <1>3, ArraysCover
  <2>4. i \in StoredIn(FlatOf(B)) <=> F \in Value
    BY DEF StoredIn
  <2> HIDE DEF a, b, c, F, G
  <2>5. G = IF F \in Value THEN Deleted ELSE F
    BY <2>1, <2>2, <2>3
  <2> QED
    BY <2>4, <2>5 DEF F, G
<1>6. FlatOf(C) = [i \in Slots |-> FlatOf(C)[i]]
  BY DEF FlatOf
<1> QED
  BY <1>4, <1>5, <1>6 DEF C

-----------------------------------------------------------------------------
(* Counting slots. *)

LEMMA SlotSets ==
  ASSUME NEW F
  PROVE  /\ StoredIn(F) \subseteq Nat /\ StoredIn(F) \subseteq Slots
         /\ IsFiniteSet(StoredIn(F)) /\ Cardinality(StoredIn(F)) \in Nat
         /\ IsFiniteSet(BuriedIn(F)) /\ Cardinality(BuriedIn(F)) \in Nat
<1>1. IsFiniteSet(Slots)
  BY FS_Interval, SizeAssumption DEF Slots
<1>2. StoredIn(F) \in SUBSET Slots /\ BuriedIn(F) \in SUBSET Slots
  BY DEF StoredIn, BuriedIn
<1>3. StoredIn(F) \subseteq Nat
  BY <1>2, ArraysCover
<1> QED
  BY <1>1, <1>2, <1>3, FS_Subset, FS_CardinalityType

(* One slot takes a value, or loses it.                                    *)
LEMMA CountsAfter ==
  ASSUME NEW F \in Tables, NEW i \in Slots, NEW x \in Value \cup {Deleted},
         x = Deleted => i \in StoredIn(F),
         NEW G, G = Changed(F, i, x)
  PROVE  /\ StoredIn(G) = IF x \in Value THEN StoredIn(F) \cup {i} ELSE StoredIn(F) \ {i}
         /\ Cardinality(StoredIn(G)) =
              IF x = Deleted THEN Cardinality(StoredIn(F)) - 1
              ELSE IF i \in StoredIn(F) THEN Cardinality(StoredIn(F))
              ELSE Cardinality(StoredIn(F)) + 1
         /\ Cardinality(BuriedIn(G)) =
              IF x = Deleted THEN Cardinality(BuriedIn(F)) + 1
              ELSE IF i \in BuriedIn(F) THEN Cardinality(BuriedIn(F)) - 1
              ELSE Cardinality(BuriedIn(F))
<1>1. \A j \in Slots : G[j] = IF j = i THEN x ELSE F[j]
  BY DEF Tables, Changed
<1>2. Deleted \notin Value
  BY SizeAssumption
<1>3. /\ x \in Value => StoredIn(G) = StoredIn(F) \cup {i} /\ BuriedIn(G) = BuriedIn(F) \ {i}
      /\ x = Deleted => StoredIn(G) = StoredIn(F) \ {i} /\ BuriedIn(G) = BuriedIn(F) \cup {i}
  BY <1>1, <1>2 DEF StoredIn, BuriedIn
<1>4. i \in StoredIn(F) => i \notin BuriedIn(F)
  BY <1>2 DEF StoredIn, BuriedIn
<1>5. IsFiniteSet(StoredIn(F)) /\ IsFiniteSet(BuriedIn(F))
  BY SlotSets
<1>6. /\ Cardinality(StoredIn(F) \cup {i}) =
           IF i \in StoredIn(F) THEN Cardinality(StoredIn(F)) ELSE Cardinality(StoredIn(F)) + 1
      /\ Cardinality(StoredIn(F) \ {i}) =
           IF i \in StoredIn(F) THEN Cardinality(StoredIn(F)) - 1 ELSE Cardinality(StoredIn(F))
      /\ Cardinality(BuriedIn(F) \cup {i}) =
           IF i \in BuriedIn(F) THEN Cardinality(BuriedIn(F)) ELSE Cardinality(BuriedIn(F)) + 1
      /\ Cardinality(BuriedIn(F) \ {i}) =
           IF i \in BuriedIn(F) THEN Cardinality(BuriedIn(F)) - 1 ELSE Cardinality(BuriedIn(F))
  BY <1>5, FS_AddElement, FS_RemoveElement
<1>7. CASE x \in Value
  BY <1>2, <1>3, <1>6, <1>7
<1>8. CASE x = Deleted
  BY <1>2, <1>3, <1>4, <1>6, <1>8
<1> QED
  BY <1>7, <1>8

LEMMA CountsNone ==
  /\ StoredIn([i \in Slots |-> Empty]) = {}
  /\ Cardinality(StoredIn([i \in Slots |-> Empty])) = 0
  /\ Cardinality(BuriedIn([i \in Slots |-> Empty])) = 0
<1> DEFINE F == [i \in Slots |-> Empty]
<1>1. StoredIn(F) = {} /\ BuriedIn(F) = {}
  BY SizeAssumption DEF StoredIn, BuriedIn
<1>2. Cardinality({}) = 0
  BY FS_EmptySet
<1> HIDE DEF F
<1>3. StoredIn(F) = {} /\ Cardinality(StoredIn(F)) = 0 /\ Cardinality(BuriedIn(F)) = 0
  BY <1>1, <1>2
<1> QED
  BY <1>3 DEF F

LEMMA CountsErased ==
  ASSUME NEW F \in Tables, NEW G,
         G = [i \in Slots |-> IF i \in StoredIn(F) THEN Deleted ELSE F[i]]
  PROVE  /\ StoredIn(G) = {} /\ Cardinality(StoredIn(G)) = 0
         /\ Cardinality(BuriedIn(G)) = Cardinality(BuriedIn(F)) + Cardinality(StoredIn(F))
<1>1. Deleted \notin Value
  BY SizeAssumption
<1>2. /\ StoredIn(G) = {} /\ BuriedIn(G) = BuriedIn(F) \cup StoredIn(F)
      /\ BuriedIn(F) \cap StoredIn(F) = {}
  BY <1>1 DEF StoredIn, BuriedIn
<1>3. IsFiniteSet(StoredIn(F)) /\ IsFiniteSet(BuriedIn(F))
  BY SlotSets
<1>4. Cardinality(BuriedIn(F) \cup StoredIn(F))
        = Cardinality(BuriedIn(F)) + Cardinality(StoredIn(F)) - Cardinality({})
  BY <1>2, <1>3, FS_Union
<1>5. Cardinality(BuriedIn(F)) \in Nat /\ Cardinality(StoredIn(F)) \in Nat /\ Cardinality({}) = 0
  BY SlotSets, FS_EmptySet
<1>6. Cardinality(BuriedIn(F) \cup StoredIn(F))
        = Cardinality(BuriedIn(F)) + Cardinality(StoredIn(F))
  BY <1>4, <1>5
<1>7. Cardinality(BuriedIn(G)) = Cardinality(BuriedIn(F) \cup StoredIn(F))
  BY <1>2
<1>8. StoredIn(G) = {} /\ Cardinality(StoredIn(G)) = 0
  BY <1>2, <1>5
<1> QED
  BY <1>6, <1>7, <1>8, Zenon

-----------------------------------------------------------------------------
(* Cursors.  A cursor (array, offset) is told by a cut c: the values it    *)
(* has passed are those in the slots below c.                              *)

SlotAt(B, s, off) == s * Bits + OffsetToIndex(B[s], off)

BeforeAt(B, s, off, i) ==
  \/ SparseBucket(i) < s
  \/ SparseBucket(i) = s /\ IndexToOffset(B[s], IndexIn(i)) < off

CutAt(B, s, off, c) ==
  /\ c \in 0 .. BucketCount
  /\ \A i \in StoredIn(FlatOf(B)) : i < c <=> BeforeAt(B, s, off, i)

(* What is known of the slot of a stored value.                            *)
LEMMA StoredSlot ==
  ASSUME NEW B \in Vectors, NEW i \in StoredIn(FlatOf(B))
  PROVE  /\ i \in Slots /\ i \in Nat /\ SparseBucket(i) \in Arrays /\ SparseBucket(i) \in Nat
         /\ B[SparseBucket(i)] \in PackedArrays
         /\ IndexIn(i) \in B[SparseBucket(i)].bitmap_vals
         /\ IndexToOffset(B[SparseBucket(i)], IndexIn(i))
              \in 0 .. Len(B[SparseBucket(i)].values) - 1
<1>1. i \in Slots /\ FlatOf(B)[i] \in Value
  BY DEF StoredIn
<1>2. IndexIn(i) \in B[SparseBucket(i)].bitmap_vals /\ B[SparseBucket(i)] \in PackedArrays
  BY <1>1, FlatSlots
<1>3. i \in Nat /\ SparseBucket(i) \in Arrays /\ SparseBucket(i) \in Nat
  BY <1>1, ArraysCover, SlotParts
<1> QED
  BY <1>1, <1>2, <1>3, Offsets DEF PackedArrays

LEMMA CursorSlot ==
  ASSUME NEW B \in Vectors, NEW s \in Arrays, NEW off \in 0 .. Len(B[s].values) - 1,
         NEW d, d = SlotAt(B, s, off)
  PROVE  /\ d \in StoredIn(FlatOf(B)) /\ d \in Slots /\ d \in Nat /\ s \in Nat
         /\ SparseBucket(d) = s /\ IndexIn(d) = OffsetToIndex(B[s], off)
         /\ B[s] \in PackedArrays /\ IndexIn(d) \in B[s].bitmap_vals
         /\ IndexToOffset(B[s], IndexIn(d)) = off
         /\ FlatOf(B)[d] = Dense(B[s], off) /\ FlatOf(B)[d] \in Value
         /\ CutAt(B, s, off, d) /\ CutAt(B, s, off + 1, d + 1)
<1> DEFINE a == B[s]
           b == OffsetToIndex(B[s], off)
<1>1. a \in PackedArrays /\ s \in Nat
  BY ArraysCover DEF Vectors
<1>2. b \in a.bitmap_vals /\ IndexToOffset(a, b) = off /\ b \in Indices
  BY <1>1, Offsets DEF PackedArrays
<1>3. d = s * Bits + b /\ d < BucketCount
  BY <1>2 DEF SlotAt, Vectors
<1>4. d \in Nat /\ SparseBucket(d) = s /\ IndexIn(d) = b
  BY <1>1, <1>2, <1>3, SlotNumber
<1>5. d \in Slots /\ BucketCount \in Nat
  BY <1>3, <1>4, SizeAssumption DEF Slots
<1>6. FlatOf(B)[d] \in Value /\ FlatOf(B)[d] = Dense(a, off)
  <2>1. FlatOf(B)[d] = Report(a, b, Empty, Deleted) /\ FlatOf(B)[d] \in Value
    BY <1>2, <1>4, <1>5, FlatSlots
  <2> QED
    BY <1>2, <2>1 DEF Report, HasValue
<1>7. d \in StoredIn(FlatOf(B))
  BY <1>5, <1>6 DEF StoredIn
<1> HIDE DEF a, b
<1>8. ASSUME NEW i \in StoredIn(FlatOf(B))
      PROVE  (i < d <=> BeforeAt(B, s, off, i)) /\ (i < d + 1 <=> BeforeAt(B, s, off + 1, i))
  <2> DEFINE t == SparseBucket(i)
             j == IndexIn(i)
             o == IndexToOffset(a, j)
  <2>1. i \in Nat /\ t \in Nat
    BY StoredSlot
  <2>2. i < d <=> t < s \/ (t = s /\ j < b)
    BY <1>4, <2>1, SlotOrder
  <2>3. BeforeAt(B, s, off, i) <=> t < s \/ (t = s /\ o < off)
    BY DEF BeforeAt, a
  <2>4. BeforeAt(B, s, off + 1, i) <=> t < s \/ (t = s /\ o < off + 1)
    BY DEF BeforeAt, a
  <2>5. t = s => /\ o \in Nat /\ (o < off <=> j < b) /\ (o = off => j = b)
    <3> SUFFICES ASSUME t = s
                 PROVE  /\ o \in Nat /\ (o < off <=> j < b) /\ (o = off => j = b)
      OBVIOUS
    <3>1. j \in a.bitmap_vals /\ o \in 0 .. Len(a.values) - 1
      BY StoredSlot DEF a
    <3>2. (o = IndexToOffset(a, b) => j = b) /\ (o < IndexToOffset(a, b) <=> j < b)
      BY <1>1, <1>2, <3>1, Offsets DEF PackedArrays
    <3> QED
      BY <1>2, <3>1, <3>2
  <2>6. i = d <=> t = s /\ j = b
    <3>1. i = t * Bits + j
      BY <2>1, SlotParts
    <3> QED
      BY <1>3, <1>4, <3>1
  <2>7. i < d + 1 <=> i < d \/ i = d
    BY <1>4, <2>1
  <2>8. t = s /\ j = b => o = off
    BY <1>2
  <2> HIDE DEF t, j, o
  <2>9. t = s => (o < off + 1 <=> o < off \/ o = off)
    BY <2>5
  <2> QED
    BY <2>2, <2>3, <2>4, <2>5, <2>6, <2>7, <2>8, <2>9
<1>9. d \in 0 .. BucketCount /\ d + 1 \in 0 .. BucketCount
  BY <1>3, <1>4, <1>5
<1>10. CutAt(B, s, off, d) /\ CutAt(B, s, off + 1, d + 1)
  BY <1>8, <1>9 DEF CutAt
<1> QED
  BY <1>1, <1>2, <1>4, <1>5, <1>6, <1>7, <1>10 DEF a, b

(* A cursor behind the last value of an array, moved over empty arrays.    *)
LEMMA CutMoves ==
  ASSUME NEW B \in Vectors, NEW s \in Arrays, NEW off \in Nat, Len(B[s].values) <= off,
         NEW t \in s + 1 .. End, \A m \in s + 1 .. t - 1 : Len(B[m].values) = 0,
         NEW c, CutAt(B, s, off, c)
  PROVE  CutAt(B, t, 0, c)
<1>1. s \in Nat /\ End \in Nat /\ t \in Nat
  BY ArraysCover
<1>2. ASSUME NEW i \in StoredIn(FlatOf(B))
      PROVE  BeforeAt(B, s, off, i) <=> BeforeAt(B, t, 0, i)
  <2> DEFINE r == SparseBucket(i)
             o == IndexToOffset(B[r], IndexIn(i))
  <2>1. r \in Nat /\ o \in 0 .. Len(B[r].values) - 1 /\ Len(B[r].values) \in Nat
    BY StoredSlot, Offsets DEF PackedArrays
  <2>2. BeforeAt(B, s, off, i) <=> r < s \/ (r = s /\ o < off)
    BY DEF BeforeAt
  <2>3. BeforeAt(B, t, 0, i) <=> r < t \/ (r = t /\ o < 0)
    BY DEF BeforeAt
  <2>4. ~ (r \in s + 1 .. t - 1)
    BY <2>1
  <2>5. r = s => o < off
    <3> SUFFICES ASSUME r = s
                 PROVE  o < off
      OBVIOUS
    <3>1. Len(B[r].values) <= off
      BY Zenon
    <3> HIDE DEF r, o
    <3> QED
      BY <2>1, <3>1
  <2>6. ~ (o < 0)
    BY <2>1
  <2> HIDE DEF r, o
  <2> QED
    BY <1>1, <2>1, <2>2, <2>3, <2>4, <2>5, <2>6
<1> QED
  BY <1>2 DEF CutAt

(* The cursor at the end has passed every value; at the first, none.       *)
LEMMA CutEnds ==
  ASSUME NEW B \in Vectors
  PROVE  /\ \A off, c : CutAt(B, End, off, c) => \A i \in StoredIn(FlatOf(B)) : i < c
         /\ \A t \in 0 .. End :
              (\A m \in 0 .. t - 1 : Len(B[m].values) = 0) => CutAt(B, t, 0, 0)
<1>1. ASSUME NEW off, NEW c, CutAt(B, End, off, c), NEW i \in StoredIn(FlatOf(B))
      PROVE  i < c
  <2>1. SparseBucket(i) < End
    BY StoredSlot, ArraysCover
  <2>2. BeforeAt(B, End, off, i)
    BY <2>1 DEF BeforeAt
  <2> QED
    BY <1>1, <2>2 DEF CutAt
<1>2. ASSUME NEW t \in 0 .. End, \A m \in 0 .. t - 1 : Len(B[m].values) = 0
      PROVE  CutAt(B, t, 0, 0)
  <2>1. t \in Nat /\ 0 \in 0 .. BucketCount
    BY ArraysCover, SizeAssumption
  <2>2. ASSUME NEW i \in StoredIn(FlatOf(B))
        PROVE  ~ (i < 0) /\ ~ BeforeAt(B, t, 0, i)
    <3> DEFINE r == SparseBucket(i)
               o == IndexToOffset(B[r], IndexIn(i))
    <3>1. i \in Nat /\ r \in Nat /\ o \in 0 .. Len(B[r].values) - 1
          /\ Len(B[r].values) \in Nat
      BY StoredSlot, Offsets DEF PackedArrays
    <3>2. BeforeAt(B, t, 0, i) <=> r < t \/ (r = t /\ o < 0)
      BY DEF BeforeAt
    <3>3. ~ (r \in 0 .. t - 1)
      BY <1>2, <3>1
    <3> HIDE DEF r, o
    <3> QED
      BY <2>1, <3>1, <3>2, <3>3
  <2> QED
    BY <2>1, <2>2 DEF CutAt
<1> QED
  BY <1>1, <1>2

(* Removing the value under the cursor: the values behind it move to it.   *)
LEMMA RemovedAt ==
  ASSUME NEW B \in Vectors, NEW s \in Arrays, NEW off \in 0 .. Len(B[s].values) - 1,
         NEW d, d = SlotAt(B, s, off),
         NEW C, C = Changed(B, s, RemoveValue(B[s], off, OffsetToIndex(B[s], off)))
  PROVE  /\ C \in Vectors /\ FlatOf(C) = Changed(FlatOf(B), d, Deleted)
         /\ CutAt(C, s, off, d + 1) /\ Len(C[s].values) = Len(B[s].values) - 1
<1> DEFINE b == OffsetToIndex(B[s], off)
           a == RemoveValue(B[s], off, b)
<1>1. /\ d \in StoredIn(FlatOf(B)) /\ d \in Slots /\ d \in Nat
      /\ SparseBucket(d) = s /\ IndexIn(d) = b
      /\ B[s] \in PackedArrays /\ b \in B[s].bitmap_vals /\ IndexToOffset(B[s], b) = off
      /\ CutAt(B, s, off, d) /\ CutAt(B, s, off + 1, d + 1)
  BY CursorSlot
<1>2. /\ a \in PackedArrays /\ a.bitmap_vals = B[s].bitmap_vals \ {b}
      /\ a.bitmap_deleted_vals = B[s].bitmap_deleted_vals \cup {b}
      /\ Len(a.values) = Len(B[s].values) - 1
      /\ Report(a, b, Empty, Deleted) = Deleted
      /\ \A j \in Indices : IndexToOffset(a, j)
             = IF b < j THEN IndexToOffset(B[s], j) - 1 ELSE IndexToOffset(B[s], j)
      /\ \A j \in Indices \ {b} :
           Report(a, j, Empty, Deleted) = Report(B[s], j, Empty, Deleted)
  BY <1>1, RemoveOK
<1> HIDE DEF a, b
<1>3. C = Changed(B, s, a)
  BY DEF a, b
<1>4. C \in Vectors /\ FlatOf(C) = Changed(FlatOf(B), d, Deleted)
  <2>1. a.bitmap_vals \cup a.bitmap_deleted_vals
          \subseteq B[s].bitmap_vals \cup B[s].bitmap_deleted_vals \cup {b}
    BY <1>2
  <2>2. ChangeOf(B[s], b, a)
    BY <1>2, <2>1 DEF ChangeOf
  <2>3. ChangeOf(B[SparseBucket(d)], IndexIn(d), a)
    BY <1>1, <2>2
  <2>4. C = Changed(B, SparseBucket(d), a) /\ d \in Slots
    BY <1>1, <1>3
  <2>5. /\ C \in Vectors
        /\ FlatOf(C) = Changed(FlatOf(B), d, Report(a, IndexIn(d), Empty, Deleted))
    BY <2>3, <2>4, FlatEdit
  <2>6. Report(a, IndexIn(d), Empty, Deleted) = Deleted
    BY <1>1, <1>2
  <2> QED
    BY <2>5, <2>6
<1>5. C[s] = a /\ \A t \in Arrays : t # s => C[t] = B[t]
  BY <1>3 DEF Vectors, Changed
<1>6. \A i \in StoredIn(FlatOf(C)) : i \in StoredIn(FlatOf(B)) /\ i # d
  <2>1. FlatOf(B) \in Tables /\ Deleted \notin Value
    BY FlatSlots, SizeAssumption
  <2> QED
    BY <1>1, <1>4, <2>1 DEF StoredIn, Tables, Changed
<1>7. ASSUME NEW i \in StoredIn(FlatOf(C))
      PROVE  i < d + 1 <=> BeforeAt(C, s, off, i)
  <2>1. i \in StoredIn(FlatOf(B)) /\ i # d /\ i \in Nat
    BY <1>6, StoredSlot
  <2>2. i < d <=> BeforeAt(B, s, off, i)
    BY <1>1, <2>1 DEF CutAt
  <2>3. BeforeAt(B, s, off, i) <=> BeforeAt(C, s, off, i)
    <3> DEFINE j == IndexIn(i)
               o == IndexToOffset(B[s], j)
               u == IndexToOffset(a, j)
    <3>1. SparseBucket(i) = s => (o < off <=> u < off)
      <4> SUFFICES ASSUME SparseBucket(i) = s
                   PROVE  o < off <=> u < off
        OBVIOUS
      <4>1. j \in B[s].bitmap_vals /\ j \in Indices /\ o \in Nat
        BY <2>1, StoredSlot, Offsets DEF PackedArrays
      <4>2. (o = off => j = b) /\ (o < off <=> j < b)
        BY <1>1, <4>1, Offsets DEF PackedArrays
      <4>3. j # b
        <5>1. i = s * Bits + j /\ d = s * Bits + b
          BY <1>1, <2>1, SlotParts
        <5> QED
          BY <2>1, <5>1
      <4>4. u = IF b < j THEN o - 1 ELSE o
        BY <1>2, <4>1
      <4>5. b \in Int /\ j \in Int /\ off \in Int
        BY <1>1, <4>1, Offsets, BitsOK DEF Indices, PackedArrays
      <4> HIDE DEF j, o, u
      <4> QED
        BY <4>1, <4>2, <4>3, <4>4, <4>5
    <3> QED
      BY <1>5, <3>1 DEF BeforeAt
  <2> QED
    BY <1>1, <2>1, <2>2, <2>3
<1>8. d + 1 \in 0 .. BucketCount
  BY <1>1 DEF CutAt
<1> QED
  BY <1>2, <1>4, <1>5, <1>7, <1>8 DEF CutAt

(* Writing to the value under the cursor, and passing it.                  *)
LEMMA WrittenAt ==
  ASSUME NEW B \in Vectors, NEW s \in Arrays, NEW off \in 0 .. Len(B[s].values) - 1,
         NEW d, d = SlotAt(B, s, off), NEW v \in Value,
         NEW C, C = Changed(B, s, Written(B[s], off, v))
  PROVE  /\ C \in Vectors /\ FlatOf(C) = Changed(FlatOf(B), d, v)
         /\ CutAt(C, s, off + 1, d + 1) /\ Len(C[s].values) = Len(B[s].values)
<1> DEFINE b == OffsetToIndex(B[s], off)
           a == Written(B[s], off, v)
<1>1. /\ d \in StoredIn(FlatOf(B)) /\ d \in Slots
      /\ SparseBucket(d) = s /\ IndexIn(d) = b
      /\ B[s] \in PackedArrays /\ b \in B[s].bitmap_vals /\ IndexToOffset(B[s], b) = off
      /\ CutAt(B, s, off + 1, d + 1)
  BY CursorSlot
<1>2. C = Changed(B, s, a)
  BY DEF a
<1>3. /\ a \in PackedArrays /\ a.bitmap_vals = B[s].bitmap_vals
      /\ a.bitmap_deleted_vals = B[s].bitmap_deleted_vals
      /\ Len(a.values) = Len(B[s].values)
      /\ Report(a, b, Empty, Deleted) = v
      /\ \A j \in Indices : IndexToOffset(a, j) = IndexToOffset(B[s], j)
      /\ \A j \in Indices \ {b} :
           Report(a, j, Empty, Deleted) = Report(B[s], j, Empty, Deleted)
  <2> HIDE DEF b
  <2> QED
    BY <1>1, WriteOK
<1> HIDE DEF a, b
<1>4. C \in Vectors /\ FlatOf(C) = Changed(FlatOf(B), d, v)
  <2>1. a.bitmap_vals \cup a.bitmap_deleted_vals
          \subseteq B[s].bitmap_vals \cup B[s].bitmap_deleted_vals \cup {b}
    BY <1>3
  <2>2. ChangeOf(B[s], b, a)
    BY <1>3, <2>1 DEF ChangeOf
  <2>3. ChangeOf(B[SparseBucket(d)], IndexIn(d), a)
    BY <1>1, <2>2
  <2>4. C = Changed(B, SparseBucket(d), a) /\ d \in Slots
    BY <1>1, <1>2
  <2>5. /\ C \in Vectors
        /\ FlatOf(C) = Changed(FlatOf(B), d, Report(a, IndexIn(d), Empty, Deleted))
    BY <2>3, <2>4, FlatEdit
  <2>6. Report(a, IndexIn(d), Empty, Deleted) = v
    BY <1>1, <1>3
  <2> QED
    BY <2>5, <2>6
<1>5. C[s] = a
  BY <1>2 DEF Vectors, Changed
<1>6. \A i \in StoredIn(FlatOf(C)) : i \in StoredIn(FlatOf(B))
  <2>1. FlatOf(B) \in Tables
    BY FlatSlots
  <2> QED
    BY <1>1, <1>4, <2>1 DEF StoredIn, Tables, Changed
<1>7. ASSUME NEW i \in StoredIn(FlatOf(C))
      PROVE  i < d + 1 <=> BeforeAt(C, s, off + 1, i)
  <2>1. i < d + 1 <=> BeforeAt(B, s, off + 1, i)
    BY <1>1, <1>6 DEF CutAt
  <2>2. IndexIn(i) \in Indices
    BY <1>6, StoredSlot, Offsets DEF PackedArrays
  <2>3. BeforeAt(B, s, off + 1, i) <=> BeforeAt(C, s, off + 1, i)
    BY <1>3, <1>5, <2>2 DEF BeforeAt
  <2> QED
    BY <2>1, <2>3
<1>8. d + 1 \in 0 .. BucketCount
  BY <1>1 DEF CutAt
<1> QED
  BY <1>3, <1>4, <1>5, <1>7, <1>8 DEF CutAt

-----------------------------------------------------------------------------
(* The values a walk has passed, and the next one.                         *)

Done(S, c) == { i \in S : i < c }

LEMMA DoneRanks ==
  ASSUME NEW S, IsFiniteSet(S), S \subseteq Nat, NEW c \in Nat, NEW i \in S
  PROVE  i \in Done(S, c) <=> RankIn(S, i) < RankIn(S, c)
<1>1. i \in Nat /\ i \in Int /\ c \in Int
  OBVIOUS
<1>2. (i < c => RankIn(S, i) < RankIn(S, c)) /\ (c <= i => RankIn(S, c) <= RankIn(S, i))
  BY <1>1, RankOrder
<1>3. RankIn(S, i) \in Int /\ RankIn(S, c) \in Int
  <2>1. RankIn(S, i) \in 0 .. Cardinality(S) /\ RankIn(S, c) \in 0 .. Cardinality(S)
    BY <1>1, RankRange
  <2> QED
    BY <2>1
<1> QED
  BY <1>1, <1>2, <1>3 DEF Done

LEMMA DoneNext ==
  ASSUME NEW S, IsFiniteSet(S), S \subseteq Nat, NEW c \in Nat, NEW d \in S,
         \A i \in S : i < d <=> i < c
  PROVE  /\ c <= d /\ d \notin Done(S, c) /\ Done(S, d + 1) = Done(S, c) \cup {d}
         /\ \A i \in S : i \in Done(S, c) <=> i < d
         /\ RankIn(S, d) = RankIn(S, c) /\ RankIn(S, d + 1) = RankIn(S, c) + 1
         /\ RankIn(S, c) \in Nat /\ RankIn(S, c) < Cardinality(S)
<1>1. d \in Nat /\ d \in Int /\ ~ (d < d) /\ c <= d
  OBVIOUS
<1>2. Done(S, c) = Done(S, d) /\ d \notin Done(S, d)
  BY <1>1 DEF Done
<1>3. Done(S, d + 1) = Done(S, d) \cup {d}
  <2>1. \A i \in S : i < d + 1 <=> i < d \/ i = d
    BY <1>1
  <2> QED
    BY <2>1 DEF Done
<1>4. \A x : RankIn(S, x) = Cardinality(Done(S, x))
  BY DEF RankIn, Done
<1>5. IsFiniteSet(Done(S, d)) /\ Cardinality(Done(S, d)) \in Nat
  <2>1. Done(S, d) \in SUBSET S
    BY DEF Done
  <2> QED
    BY <2>1, FS_Subset, FS_CardinalityType
<1>6. Cardinality(Done(S, d) \cup {d}) = Cardinality(Done(S, d)) + 1
  BY <1>2, <1>5, FS_AddElement
<1>7. RankIn(S, d) \in 0 .. Cardinality(S) - 1 /\ Cardinality(S) \in Nat
  BY <1>1, RankRange, FS_CardinalityType
<1>8. \A i \in S : i \in Done(S, c) <=> i < d
  BY <1>2 DEF Done
<1>9. RankIn(S, d) = RankIn(S, c)
  BY <1>2, <1>4
<1>10. RankIn(S, d + 1) = RankIn(S, c) + 1
  BY <1>2, <1>3, <1>4, <1>6
<1> QED
  BY <1>1, <1>2, <1>3, <1>7, <1>8, <1>9, <1>10

(* The array first_position and next_position move to.                     *)
LEMMA FirstFound ==
  ASSUME sparse_buckets \in Vectors, NEW from \in 0 .. End
  PROVE  /\ FirstNonEmpty(from) \in from .. End /\ FirstNonEmpty(from) \in 0 .. End
         /\ FirstNonEmpty(from) # End =>
              FirstNonEmpty(from) \in Arrays /\ Size(FirstNonEmpty(from)) > 0
         /\ \A m \in from .. FirstNonEmpty(from) - 1 : Len(sparse_buckets[m].values) = 0
<1> DEFINE G == { n \in from .. End : n = End \/ Size(n) > 0 }
           P(n) == /\ n = End \/ Size(n) > 0
                   /\ \A m \in from .. n - 1 : Size(m) = 0
<1>1. End \in Nat /\ Arrays = 0 .. End - 1
  BY ArraysCover
<1>2. \A m \in Arrays : Size(m) \in Nat
  BY Offsets DEF Size, Vectors, PackedArrays
<1>3. G \subseteq Nat /\ End \in G
  BY <1>1
<1>4. \E n \in G : \A m \in G : n <= m
  <2> HIDE DEF G
  <2> QED
    BY <1>3, LeastNatural
<1>5. PICK n \in G : \A m \in G : n <= m
  BY <1>4
<1>6. ASSUME NEW m \in from .. n - 1
      PROVE  Size(m) = 0
  <2>1. n \in from .. End /\ m \in from .. End /\ m \in Arrays /\ m # End /\ ~ (n <= m)
    BY <1>1
  <2>2. ~ (Size(m) > 0)
    BY <1>5, <2>1
  <2> QED
    BY <1>2, <2>1, <2>2
<1>7. \E x \in from .. End : P(x)
  BY <1>6
<1> HIDE DEF G
<1>8. FirstNonEmpty(from) \in from .. End /\ P(FirstNonEmpty(from))
  <2>1. FirstNonEmpty(from) = CHOOSE x \in from .. End : P(x)
    BY DEF FirstNonEmpty
  <2> HIDE DEF P
  <2> QED
    BY <1>7, <2>1
<1>9. FirstNonEmpty(from) # End => FirstNonEmpty(from) \in Arrays
  BY <1>1, <1>8
<1> QED
  BY <1>1, <1>8, <1>9 DEF Size

(* The places of the blocks, one for each value.                           *)
LEMMA SizesCounted ==
  ASSUME sparse_buckets \in Vectors
  PROVE  SizeSum = Cardinality(StoredIn(FlatOf(sparse_buckets)))
<1> DEFINE B == sparse_buckets
           S == StoredIn(FlatOf(B))
           P == UNION { {s} \X (1 .. Size(s)) : s \in Arrays }
           o(i) == IndexToOffset(B[SparseBucket(i)], IndexIn(i))
           f == [i \in S |-> <<SparseBucket(i), o(i) + 1>>]
<1>1. ASSUME NEW i \in S
      PROVE  /\ SparseBucket(i) \in Arrays /\ o(i) \in 0 .. Size(SparseBucket(i)) - 1
             /\ o(i) + 1 \in 1 .. Size(SparseBucket(i)) /\ i \in Nat
             /\ IndexIn(i) \in B[SparseBucket(i)].bitmap_vals
             /\ B[SparseBucket(i)] \in PackedArrays /\ Size(SparseBucket(i)) \in Nat
  <2>1. /\ SparseBucket(i) \in Arrays /\ i \in Nat
        /\ o(i) \in 0 .. Len(B[SparseBucket(i)].values) - 1
        /\ IndexIn(i) \in B[SparseBucket(i)].bitmap_vals
        /\ B[SparseBucket(i)] \in PackedArrays
    BY StoredSlot
  <2>2. Size(SparseBucket(i)) = Len(B[SparseBucket(i)].values)
        /\ Size(SparseBucket(i)) \in Nat
    BY <2>1, Offsets DEF Size, PackedArrays
  <2> HIDE DEF o
  <2> QED
    BY <2>1, <2>2
<1>2. f \in [S -> P]
  BY <1>1
<1>3. ASSUME NEW i \in S, NEW j \in S, f[i] = f[j]
      PROVE  i = j
  <2>1. SparseBucket(i) = SparseBucket(j) /\ o(i) = o(j)
    <3>1. SparseBucket(i) = SparseBucket(j) /\ o(i) + 1 = o(j) + 1
      BY <1>3
    <3>2. o(i) \in Int /\ o(j) \in Int
      BY <1>1
    <3> HIDE DEF o
    <3> QED
      BY <3>1, <3>2
  <2>2. IndexIn(i) = IndexIn(j)
    <3> DEFINE a == B[SparseBucket(i)]
    <3>1. /\ a \in PackedArrays /\ IndexIn(i) \in a.bitmap_vals /\ IndexIn(j) \in a.bitmap_vals
          /\ IndexToOffset(a, IndexIn(i)) = IndexToOffset(a, IndexIn(j))
      BY <1>1, <2>1
    <3> HIDE DEF a
    <3> QED
      BY <3>1, Offsets DEF PackedArrays
  <2>3. i = SparseBucket(i) * Bits + IndexIn(i) /\ j = SparseBucket(j) * Bits + IndexIn(j)
    BY <1>1, SlotParts
  <2> QED
    BY <2>1, <2>2, <2>3
<1>4. ASSUME NEW t \in P
      PROVE  \E i \in S : f[i] = t
  <2>1. PICK s \in Arrays : t \in {s} \X (1 .. Size(s))
    OBVIOUS
  <2>2. Size(s) \in Nat /\ Size(s) = Len(B[s].values)
    BY Offsets DEF Size, Vectors, PackedArrays
  <2>3. PICK p \in 1 .. Size(s) : t = <<s, p>>
    BY <2>1
  <2>4. p - 1 \in 0 .. Len(B[s].values) - 1 /\ (p - 1) + 1 = p
    BY <2>2, <2>3
  <2> DEFINE d == SlotAt(B, s, p - 1)
  <2>5. /\ d \in StoredIn(FlatOf(B)) /\ SparseBucket(d) = s
        /\ IndexToOffset(B[s], IndexIn(d)) = p - 1
    BY <2>4, CursorSlot
  <2> HIDE DEF d
  <2>6. o(d) = p - 1
    BY <2>5
  <2>7. f[d] = <<s, p>>
    BY <2>4, <2>5, <2>6
  <2> QED
    BY <2>3, <2>5, <2>7
<1> HIDE DEF f, P, S, o
<1>5. ExistsBijection(S, P)
  BY <1>2, <1>3, <1>4
    DEF ExistsBijection, Bijection, Injection, Surjection, IsInjective
<1>6. IsFiniteSet(S)
  BY SlotSets DEF S
<1>7. Cardinality(P) = Cardinality(S)
  BY <1>5, <1>6, FS_Bijection
<1> QED
  BY <1>7 DEF SizeSum, P, S

-----------------------------------------------------------------------------
(* The inductive invariant. *)

Counted ==
  LET F == FlatOf(sparse_buckets) IN
  /\ sparse_buckets \in Vectors
  /\ nb_elements = Cardinality(StoredIn(F))
  /\ nb_deleted_buckets = Cardinality(BuriedIn(F))

Walking == pc \in {"skip", "erase", "retain", "iter", "scan"}

(* What the control point tells of the call.                               *)
Control ==
  /\ pc \in {"idle", "start", "skip", "erase", "retain", "iter", "scan", "return"}
  /\ req \in Requests \cup {None}
  /\ sib \in 0 .. End /\ offset \in 0 .. Bits /\ left \in Nat
  /\ pc = "idle" => answer = None
  /\ pc = "start" => answer = None /\ before = FlatOf(sparse_buckets)
  /\ Walking \/ pc = "start" => before \in Tables /\ req \in Requests
  /\ pc \in {"start", "erase"} => req.op = "erase_range"
  /\ pc = "erase" => sib # End
  /\ pc = "skip" => req.op \in {"erase_range", "remove_nth"}
  /\ pc = "retain" => req.op = "retain"
  /\ pc = "iter" => req.op = "iter"
  /\ pc = "scan" => req.op \in {"iter_mut", "into_values"}

(* What a walk at control point at, in a call r on a table that held S and *)
(* values x, has made of the i-th slot's value.                            *)
Treated(at, r, S, i, x) ==
  IF at = "erase" THEN IF RankIn(S, i) >= r.skip THEN Deleted ELSE x
  ELSE IF at = "retain" THEN IF x \in r.keep THEN r.edit[x] ELSE Deleted
  ELSE IF r.op = "iter_mut" THEN r.edit[x] ELSE x

(* A walk that began on T and has passed the values below c has done its   *)
(* work on those, and on no other, and knows how many they are.            *)
Progress(at, r, T, F, c) ==
  LET S == StoredIn(T) IN
  \A i \in Slots :
    F[i] = IF i \in Done(S, c) THEN Treated(at, r, S, i, T[i]) ELSE T[i]

HowFar(n) ==
  /\ pc = "skip" => req.skip = left + n
  /\ pc = "erase" => req.skip + req.count = left + n /\ req.skip <= n
  /\ pc = "scan" => req.take = left + n

(* a lists the values of T in the slots S below c, in slot order.          *)
Lists(a, T, S, c) ==
  /\ a \in Seq(Value) /\ Len(a) = RankIn(S, c)
  /\ \A i \in Done(S, c) : a[RankIn(S, i) + 1] = T[i]

Collected(c) ==
  IF req.op \in {"iter", "into_values"}
  THEN Lists(answer, before, StoredIn(before), c)
  ELSE answer = None

WalkAt(c) ==
  /\ CutAt(sparse_buckets, sib, offset, c)
  /\ Progress(pc, req, before, FlatOf(sparse_buckets), c)
  /\ HowFar(RankIn(StoredIn(before), c))
  /\ Collected(c)

VectorInv ==
  /\ Counted /\ Control /\ CursorOnValue
  /\ Walking => \E c \in 0 .. BucketCount : WalkAt(c)

-----------------------------------------------------------------------------
(* Steps on the value at an offset of an array. *)

LEMMA RequestFields ==
  ASSUME NEW r \in Requests
  PROVE  /\ r.op = "erase_range" => r.skip \in Nat /\ r.count \in Nat
         /\ r.op = "remove_nth" => r.skip \in Nat
         /\ r.op = "retain" => r.keep \in SUBSET Value /\ r.edit \in [Value -> Value]
         /\ r.op = "iter_mut" => r.take \in Nat /\ r.edit \in [Value -> Value]
         /\ r.op = "into_values" => r.take \in Nat
BY SizeAssumption DEF Requests

LEMMA ArrayAt ==
  ASSUME Counted, NEW s \in Arrays
  PROVE  /\ sparse_buckets[s] \in PackedArrays /\ Size(s) = Len(sparse_buckets[s].values)
         /\ Size(s) \in Nat /\ Size(s) <= Bits
<1>1. sparse_buckets[s] \in PackedArrays
  BY DEF Counted, Vectors
<1>2. Len(sparse_buckets[s].values) \in 0 .. Bits
  BY <1>1, Offsets DEF PackedArrays
<1> QED
  BY <1>1, <1>2, BitsOK DEF Size

LEMMA RemoveStep ==
  ASSUME Counted, NEW s \in Arrays, NEW off \in 0 .. Len(sparse_buckets[s].values) - 1,
         RemoveFrom(s, off, OffsetToIndex(sparse_buckets[s], off)),
         NEW d, d = SlotAt(sparse_buckets, s, off)
  PROVE  /\ Counted'
         /\ FlatOf(sparse_buckets') = Changed(FlatOf(sparse_buckets), d, Deleted)
         /\ CutAt(sparse_buckets', s, off, d + 1)
         /\ Len(sparse_buckets'[s].values) = Len(sparse_buckets[s].values) - 1
<1> DEFINE B == sparse_buckets
           C == sparse_buckets'
           F == FlatOf(B)
           G == FlatOf(C)
<1>1. B \in Vectors /\ C = Changed(B, s, RemoveValue(B[s], off, OffsetToIndex(B[s], off)))
  BY DEF Counted, RemoveFrom, Changed
<1>2. d \in StoredIn(F) /\ d \in Slots
  BY <1>1, CursorSlot
<1>3. /\ C \in Vectors /\ G = Changed(F, d, Deleted)
      /\ CutAt(C, s, off, d + 1) /\ Len(C[s].values) = Len(B[s].values) - 1
  <2> HIDE DEF C
  <2> QED
    BY <1>1, RemovedAt
<1>4. F \in Tables
  BY <1>1, FlatSlots
<1> HIDE DEF F, G
<1>5. /\ Cardinality(StoredIn(G)) = Cardinality(StoredIn(F)) - 1
      /\ Cardinality(BuriedIn(G)) = Cardinality(BuriedIn(F)) + 1
  BY <1>2, <1>3, <1>4, CountsAfter
<1>6. Counted'
  BY <1>3, <1>5 DEF Counted, RemoveFrom, F, G
<1> QED
  BY <1>3, <1>6 DEF F, G

LEMMA WriteStep ==
  ASSUME Counted, NEW s \in Arrays, NEW off \in 0 .. Len(sparse_buckets[s].values) - 1,
         NEW v \in Value, sparse_buckets' = WithValue(s, off, v), UNCHANGED counters,
         NEW d, d = SlotAt(sparse_buckets, s, off)
  PROVE  /\ Counted'
         /\ FlatOf(sparse_buckets') = Changed(FlatOf(sparse_buckets), d, v)
         /\ CutAt(sparse_buckets', s, off + 1, d + 1)
         /\ Len(sparse_buckets'[s].values) = Len(sparse_buckets[s].values)
<1> DEFINE B == sparse_buckets
           C == sparse_buckets'
           F == FlatOf(B)
           G == FlatOf(C)
<1>1. B \in Vectors /\ C = Changed(B, s, Written(B[s], off, v))
  BY DEF Counted, WithValue, Changed, Written, Vectors
<1>2. d \in StoredIn(F) /\ d \in Slots /\ d \notin BuriedIn(F)
  <2>1. d \in StoredIn(F) /\ d \in Slots
    BY <1>1, CursorSlot
  <2> QED
    BY <2>1, SizeAssumption DEF StoredIn, BuriedIn
<1>3. /\ C \in Vectors /\ G = Changed(F, d, v)
      /\ CutAt(C, s, off + 1, d + 1) /\ Len(C[s].values) = Len(B[s].values)
  <2> HIDE DEF C
  <2> QED
    BY <1>1, WrittenAt
<1>4. F \in Tables /\ v # Deleted
  BY <1>1, FlatSlots, SizeAssumption
<1> HIDE DEF F, G
<1>5. /\ Cardinality(StoredIn(G)) = Cardinality(StoredIn(F))
      /\ Cardinality(BuriedIn(G)) = Cardinality(BuriedIn(F))
  BY <1>2, <1>3, <1>4, CountsAfter
<1>6. Counted'
  BY <1>3, <1>5 DEF Counted, counters, F, G
<1> QED
  BY <1>3, <1>6 DEF F, G

(* The position of a slot that holds a value.                              *)
LEMMA PositionOf ==
  ASSUME Counted, NEW i \in Slots, IsStored(i),
         NEW s, s = SparseBucket(i), NEW off, off = IndexToOffset(sparse_buckets[s], IndexIn(i))
  PROVE  /\ s \in Arrays /\ off \in 0 .. Len(sparse_buckets[s].values) - 1
         /\ OffsetToIndex(sparse_buckets[s], off) = IndexIn(i)
         /\ SlotAt(sparse_buckets, s, off) = i
         /\ i \in StoredIn(FlatOf(sparse_buckets))
<1> DEFINE a == sparse_buckets[s]
<1>1. s \in Arrays /\ IndexIn(i) \in Indices /\ i \in Nat /\ i = s * Bits + IndexIn(i)
  BY ArraysCover, SlotParts
<1>2. a \in PackedArrays /\ IndexIn(i) \in a.bitmap_vals /\ sparse_buckets \in Vectors
  BY <1>1 DEF Counted, Vectors, IsStored, HasValue
<1>3. off \in 0 .. Len(a.values) - 1 /\ OffsetToIndex(a, off) \in a.bitmap_vals
      /\ IndexToOffset(a, OffsetToIndex(a, off)) = off
  BY <1>2, Offsets DEF PackedArrays
<1>4. OffsetToIndex(a, off) = IndexIn(i)
  BY <1>2, <1>3, Offsets DEF PackedArrays
<1>5. i \in StoredIn(FlatOf(sparse_buckets))
  BY <1>2, FlatSlots DEF StoredIn
<1> QED
  BY <1>1, <1>3, <1>4, <1>5 DEF SlotAt

(* Between two calls: one slot is written or removed, or all are emptied.  *)
LEMMA InsertCounted ==
  ASSUME Counted, InsertInBucket
  PROVE  /\ Counted'
         /\ \E i \in Slots \ StoredIn(FlatOf(sparse_buckets)), v \in Value :
              FlatOf(sparse_buckets') = Changed(FlatOf(sparse_buckets), i, v)
<1> DEFINE B == sparse_buckets
           C == sparse_buckets'
           F == FlatOf(B)
           G == FlatOf(C)
<1>1. PICK i \in Slots, v \in Value :
        /\ ~ IsStored(i)
        /\ sparse_buckets' =
             [sparse_buckets EXCEPT ![SparseBucket(i)] = Set(@, IndexIn(i), v)]
        /\ nb_elements' = nb_elements + 1
        /\ nb_deleted_buckets' =
             IF HasDeletedValue(sparse_buckets[SparseBucket(i)], IndexIn(i))
             THEN nb_deleted_buckets - 1 ELSE nb_deleted_buckets
  BY DEF InsertInBucket
<1> DEFINE s == SparseBucket(i)
           b == IndexIn(i)
           a == Set(B[s], b, v)
<1>2. /\ B \in Vectors /\ s \in Arrays /\ b \in Indices /\ B[s] \in PackedArrays
      /\ b \notin B[s].bitmap_vals
  BY <1>1, ArraysCover DEF Counted, Vectors, IsStored, HasValue
<1>3. C = Changed(B, s, a)
  BY <1>1, <1>2 DEF Changed
<1>4. /\ a \in PackedArrays
      /\ a.bitmap_vals = B[s].bitmap_vals \cup {b}
      /\ a.bitmap_deleted_vals = B[s].bitmap_deleted_vals \ {b}
      /\ Report(a, b, Empty, Deleted) = v
      /\ \A j \in Indices \ {b} :
           Report(a, j, Empty, Deleted) = Report(B[s], j, Empty, Deleted)
  BY <1>2, SetOK
<1>5. ChangeOf(B[s], b, a)
  <2> HIDE DEF a, b, s
  <2> QED
    BY <1>4 DEF ChangeOf
<1>6. C \in Vectors /\ G = Changed(F, i, v)
  <2>1. C \in Vectors /\ G = Changed(F, i, Report(a, b, Empty, Deleted))
    <3> HIDE DEF a, C
    <3> QED
      BY <1>2, <1>3, <1>5, FlatEdit
  <2> QED
    BY <1>4, <2>1
<1>7. /\ i \notin StoredIn(F) /\ F \in Tables
      /\ i \in BuriedIn(F) <=> HasDeletedValue(B[s], b)
  BY <1>2, FlatSlots DEF StoredIn, BuriedIn, HasDeletedValue
<1>8. v # Deleted /\ v \in Value
  BY SizeAssumption
<1> HIDE DEF F, G
<1>9. /\ Cardinality(StoredIn(G)) = Cardinality(StoredIn(F)) + 1
      /\ Cardinality(BuriedIn(G)) =
           IF i \in BuriedIn(F) THEN Cardinality(BuriedIn(F)) - 1 ELSE Cardinality(BuriedIn(F))
  BY <1>6, <1>7, <1>8, CountsAfter
<1>10. Counted'
  BY <1>1, <1>6, <1>7, <1>9 DEF Counted, F, G
<1> QED
  BY <1>6, <1>7, <1>10 DEF F, G

LEMMA ValueMutCounted ==
  ASSUME Counted, ValueMut
  PROVE  /\ Counted'
         /\ \E i \in StoredIn(FlatOf(sparse_buckets)), v \in Value :
              FlatOf(sparse_buckets') = Changed(FlatOf(sparse_buckets), i, v)
<1>1. PICK i \in Slots, v \in Value :
        /\ IsStored(i) /\ UNCHANGED counters
        /\ sparse_buckets' =
             WithValue(SparseBucket(i),
                       IndexToOffset(sparse_buckets[SparseBucket(i)], IndexIn(i)), v)
  BY DEF ValueMut, WithValue
<1> DEFINE s == SparseBucket(i)
           off == IndexToOffset(sparse_buckets[s], IndexIn(i))
<1>2. /\ s \in Arrays /\ off \in 0 .. Len(sparse_buckets[s].values) - 1
      /\ SlotAt(sparse_buckets, s, off) = i /\ i \in StoredIn(FlatOf(sparse_buckets))
  BY <1>1, PositionOf
<1> QED
  BY <1>1, <1>2, WriteStep

LEMMA EraseSlotCounted ==
  ASSUME Counted, EraseSlot
  PROVE  /\ Counted'
         /\ \E i \in StoredIn(FlatOf(sparse_buckets)) :
              FlatOf(sparse_buckets') = Changed(FlatOf(sparse_buckets), i, Deleted)
<1>1. PICK i \in Slots :
        /\ IsStored(i)
        /\ RemoveFrom(SparseBucket(i),
                      IndexToOffset(sparse_buckets[SparseBucket(i)], IndexIn(i)), IndexIn(i))
  BY DEF EraseSlot
<1> DEFINE s == SparseBucket(i)
           off == IndexToOffset(sparse_buckets[s], IndexIn(i))
<1>2. /\ s \in Arrays /\ off \in 0 .. Len(sparse_buckets[s].values) - 1
      /\ OffsetToIndex(sparse_buckets[s], off) = IndexIn(i)
      /\ SlotAt(sparse_buckets, s, off) = i /\ i \in StoredIn(FlatOf(sparse_buckets))
  BY <1>1, PositionOf
<1>3. RemoveFrom(s, off, OffsetToIndex(sparse_buckets[s], off))
  BY <1>1, <1>2
<1> QED
  BY <1>2, <1>3, RemoveStep

LEMMA FreshCounted ==
  ASSUME sparse_buckets' = [s \in Arrays |-> NewArray],
         nb_elements' = 0, nb_deleted_buckets' = 0
  PROVE  Counted' /\ FlatOf(sparse_buckets') = [i \in Slots |-> Empty]
<1>1. sparse_buckets' \in Vectors /\ FlatOf(sparse_buckets') = [i \in Slots |-> Empty]
  BY FreshVector
<1>2. /\ Cardinality(StoredIn(FlatOf(sparse_buckets'))) = 0
      /\ Cardinality(BuriedIn(FlatOf(sparse_buckets'))) = 0
  BY <1>1, CountsNone
<1> QED
  BY <1>1, <1>2 DEF Counted

LEMMA EraseAllCounted ==
  ASSUME Counted, EraseAll
  PROVE  /\ Counted'
         /\ FlatOf(sparse_buckets') =
              [i \in Slots |-> IF i \in StoredIn(FlatOf(sparse_buckets)) THEN Deleted
                               ELSE FlatOf(sparse_buckets)[i]]
<1> DEFINE F == FlatOf(sparse_buckets)
           G == FlatOf(sparse_buckets')
<1>1. sparse_buckets \in Vectors
      /\ sparse_buckets' = [s \in Arrays |-> EraseArray(sparse_buckets[s])]
  BY DEF Counted, EraseAll
<1>2. sparse_buckets' \in Vectors
      /\ G = [i \in Slots |-> IF i \in StoredIn(F) THEN Deleted ELSE F[i]]
  BY <1>1, ErasedVector
<1>3. F \in Tables
  BY <1>1, FlatSlots
<1>4. /\ Cardinality(StoredIn(G)) = 0
      /\ Cardinality(BuriedIn(G)) = Cardinality(BuriedIn(F)) + Cardinality(StoredIn(F))
  <2> HIDE DEF F, G
  <2> QED
    BY <1>2, <1>3, CountsErased
<1>5. SizeSum = Cardinality(StoredIn(F))
  BY <1>1, SizesCounted
<1>6. Counted'
  BY <1>2, <1>4, <1>5 DEF Counted, EraseAll
<1> QED
  BY <1>2, <1>6

-----------------------------------------------------------------------------
(* The cursor. *)

LEMMA FirstPosition ==
  ASSUME Counted, NEW t, t = FirstNonEmpty(0)
  PROVE  /\ t \in 0 .. End /\ CutAt(sparse_buckets, t, 0, 0)
         /\ t # End => t \in Arrays /\ Len(sparse_buckets[t].values) > 0
<1>1. sparse_buckets \in Vectors /\ 0 \in 0 .. End
  BY ArraysCover DEF Counted
<1>2. /\ t \in 0 .. End /\ (t # End => t \in Arrays /\ Size(t) > 0)
      /\ \A m \in 0 .. t - 1 : Len(sparse_buckets[m].values) = 0
  BY <1>1, FirstFound
<1>3. CutAt(sparse_buckets, t, 0, 0)
  BY <1>1, <1>2, CutEnds
<1> QED
  BY <1>2, <1>3 DEF Size

LEMMA NextPosition ==
  ASSUME Counted, sib \in Arrays, offset \in 0 .. Len(sparse_buckets[sib].values) - 1,
         ToNext, NEW d, d = SlotAt(sparse_buckets, sib, offset)
  PROVE  /\ sib' \in 0 .. End /\ offset' \in 0 .. Bits
         /\ CutAt(sparse_buckets, sib', offset', d + 1)
         /\ sib' # End => offset' < Len(sparse_buckets[sib'].values)
<1>1. sparse_buckets \in Vectors /\ End \in Nat /\ Arrays = 0 .. End - 1 /\ Bits \in Nat
  BY ArraysCover, BitsOK DEF Counted
<1>2. CutAt(sparse_buckets, sib, offset + 1, d + 1)
  BY <1>1, CursorSlot
<1>3. Size(sib) = Len(sparse_buckets[sib].values) /\ Size(sib) \in Nat /\ Size(sib) <= Bits
  BY ArrayAt
<1>4. CASE offset + 1 < Size(sib)
  <2>1. sib' = sib /\ offset' = offset + 1
    BY <1>4 DEF ToNext, MoveTo
  <2> QED
    BY <1>1, <1>2, <1>3, <1>4, <2>1
<1>5. CASE ~ (offset + 1 < Size(sib))
  <2> DEFINE t == FirstNonEmpty(sib + 1)
  <2>1. sib' = t /\ offset' = 0
    BY <1>5 DEF ToNext, MoveTo
  <2>2. sib + 1 \in 0 .. End
    BY <1>1
  <2>3. /\ t \in sib + 1 .. End /\ t \in 0 .. End /\ (t # End => Size(t) > 0)
        /\ \A m \in sib + 1 .. t - 1 : Len(sparse_buckets[m].values) = 0
    BY <1>1, <2>2, FirstFound
  <2> HIDE DEF t
  <2>4. offset + 1 \in Nat /\ Len(sparse_buckets[sib].values) <= offset + 1
    BY <1>3, <1>5
  <2>5. CutAt(sparse_buckets, t, 0, d + 1)
    BY <1>1, <1>2, <2>3, <2>4, CutMoves
  <2> QED
    BY <1>1, <2>1, <2>3, <2>5 DEF Size
<1> QED
  BY <1>4, <1>5

(* The value under the cursor of a walk is the next one of the table the   *)
(* walk began on.                                                          *)
LEMMA Here ==
  ASSUME Counted, Control, Walking, sib \in Arrays, offset < Size(sib),
         NEW c \in 0 .. BucketCount, WalkAt(c),
         NEW d, d = SlotAt(sparse_buckets, sib, offset), NEW S, S = StoredIn(before)
  PROVE  /\ offset \in 0 .. Len(sparse_buckets[sib].values) - 1
         /\ S \subseteq Nat /\ IsFiniteSet(S) /\ c \in Nat /\ S \subseteq Slots
         /\ d \in S /\ d \in Slots /\ d \in Nat /\ d + 1 \in 0 .. BucketCount
         /\ before[d] = Dense(sparse_buckets[sib], offset) /\ before[d] \in Value
         /\ d \notin Done(S, c) /\ Done(S, d + 1) = Done(S, c) \cup {d}
         /\ \A i \in S : i \in Done(S, c) <=> i < d
         /\ RankIn(S, d) = RankIn(S, c) /\ RankIn(S, d + 1) = RankIn(S, c) + 1
         /\ RankIn(S, c) \in Nat /\ RankIn(S, c) < Cardinality(S)
<1> DEFINE B == sparse_buckets
           F == FlatOf(B)
<1>1. B \in Vectors /\ before \in Tables /\ BucketCount \in Nat
  BY SizeAssumption DEF Counted, Control
<1>2. offset \in 0 .. Len(B[sib].values) - 1
  <2>1. Size(sib) = Len(B[sib].values) /\ Size(sib) \in Nat /\ offset \in Nat
    BY ArrayAt, BitsOK DEF Control
  <2> QED
    BY <2>1
<1>3. /\ d \in StoredIn(F) /\ d \in Slots /\ d \in Nat
      /\ F[d] = Dense(B[sib], offset) /\ F[d] \in Value
      /\ CutAt(B, sib, offset, d) /\ CutAt(B, sib, offset + 1, d + 1)
  BY <1>1, <1>2, CursorSlot
<1>4. S \subseteq Nat /\ S \subseteq Slots /\ IsFiniteSet(S) /\ c \in Nat
  BY <1>1, SlotSets
<1>5. \A i \in StoredIn(F) : i < d <=> i < c
  BY <1>3 DEF WalkAt, CutAt
<1>6. ASSUME NEW i \in Slots, i \notin Done(S, c)
      PROVE  F[i] = before[i]
  BY <1>6 DEF WalkAt, Progress
<1>7. ~ (d < c)
  BY <1>3, <1>5
<1>8. d \notin Done(S, c)
  BY <1>7 DEF Done
<1>9. before[d] = F[d] /\ d \in S
  BY <1>3, <1>6, <1>8 DEF StoredIn
<1>10. ASSUME NEW i \in S
       PROVE  i < d <=> i < c
  <2>1. CASE i < c
    BY <1>3, <1>4, <1>7, <2>1
  <2>2. CASE ~ (i < c)
    <3>1. i \in Slots /\ i \notin Done(S, c) /\ before[i] \in Value
      BY <2>2 DEF Done, StoredIn
    <3>2. i \in StoredIn(F)
      BY <1>6, <3>1 DEF StoredIn
    <3> QED
      BY <1>5, <3>2
  <2> QED
    BY <2>1, <2>2
<1>11. d + 1 \in 0 .. BucketCount
  BY <1>3 DEF CutAt
<1>12. /\ Done(S, d + 1) = Done(S, c) \cup {d}
       /\ \A i \in S : i \in Done(S, c) <=> i < d
       /\ RankIn(S, d) = RankIn(S, c) /\ RankIn(S, d + 1) = RankIn(S, c) + 1
       /\ RankIn(S, c) \in Nat /\ RankIn(S, c) < Cardinality(S)
  BY <1>4, <1>9, <1>10, DoneNext
<1> QED
  BY <1>2, <1>3, <1>4, <1>8, <1>9, <1>11, <1>12

(* Where no value is behind the cursor, the walk has passed them all.      *)
LEMMA Ended ==
  ASSUME Counted, NEW c \in 0 .. BucketCount, WalkAt(c),
         NEW off, CutAt(sparse_buckets, End, off, c)
  PROVE  /\ Done(StoredIn(before), c) = StoredIn(before)
         /\ RankIn(StoredIn(before), c) = Cardinality(StoredIn(before))
<1> DEFINE F == FlatOf(sparse_buckets)
           S == StoredIn(before)
<1>1. \A i \in StoredIn(F) : i < c
  BY CutEnds DEF Counted
<1>2. ASSUME NEW i \in S
      PROVE  i \in Done(S, c)
  <2> SUFFICES ASSUME i \notin Done(S, c)
               PROVE  FALSE
    OBVIOUS
  <2>1. F[i] = before[i] /\ i \in Slots /\ before[i] \in Value
    BY DEF WalkAt, Progress, StoredIn
  <2>2. i \in StoredIn(F)
    BY <2>1 DEF StoredIn
  <2> QED
    BY <1>1, <2>2 DEF Done
<1>3. Done(S, c) = S
  BY <1>2 DEF Done
<1> QED
  BY <1>3 DEF RankIn, Done

LEMMA Unmoved ==
  ASSUME NEW at, NEW r, NEW T \in Tables
  PROVE  /\ Progress(at, r, T, T, 0) /\ RankIn(StoredIn(T), 0) = 0 /\ Done(StoredIn(T), 0) = {}
<1>1. Done(StoredIn(T), 0) = {}
  <2>1. \A i \in StoredIn(T) : ~ (i < 0)
    BY SlotSets
  <2> QED
    BY <2>1 DEF Done
<1>2. RankIn(StoredIn(T), 0) = 0
  BY <1>1, FS_EmptySet DEF RankIn, Done
<1> QED
  BY <1>1, <1>2 DEF Progress

(* The walk goes past the value at d.                                      *)
LEMMA Onward ==
  ASSUME NEW at, NEW r, NEW T, NEW F, NEW c, NEW d \in Slots, Progress(at, r, T, F, c),
         d \notin Done(StoredIn(T), c),
         Done(StoredIn(T), d + 1) = Done(StoredIn(T), c) \cup {d},
         NEW G, \A i \in Slots :
                  G[i] = IF i = d THEN Treated(at, r, StoredIn(T), d, T[d]) ELSE F[i]
  PROVE  Progress(at, r, T, G, d + 1)
BY DEF Progress

(* An iterator that hands out the value at d.                              *)
LEMMA Gathered ==
  ASSUME NEW S, IsFiniteSet(S), S \subseteq Nat, NEW c \in Nat, NEW d \in S,
         Done(S, d + 1) = Done(S, c) \cup {d},
         RankIn(S, d) = RankIn(S, c), RankIn(S, d + 1) = RankIn(S, c) + 1,
         NEW T, T[d] \in Value, NEW a, Lists(a, T, S, c), NEW b, b = Append(a, T[d])
  PROVE  Lists(b, T, S, d + 1)
<1> DEFINE n == Len(a)
<1>0. a \in Seq(Value) /\ n = RankIn(S, c) /\ \A i \in Done(S, c) : a[RankIn(S, i) + 1] = T[i]
  BY DEF Lists
<1>1. /\ b \in Seq(Value) /\ Len(b) = n + 1 /\ b[n + 1] = T[d] /\ n \in Nat
      /\ \A k \in 1 .. n : b[k] = a[k]
  BY <1>0, AppendProperties
<1> HIDE DEF n
<1>2. ASSUME NEW i \in Done(S, c)
      PROVE  b[RankIn(S, i) + 1] = T[i]
  <2>1. i \in S /\ i \in Int
    BY DEF Done
  <2>2. RankIn(S, i) < RankIn(S, c) /\ RankIn(S, i) \in 0 .. Cardinality(S)
    BY <2>1, DoneRanks, RankRange
  <2>3. RankIn(S, i) + 1 \in 1 .. n
    BY <1>0, <1>1, <2>2
  <2> QED
    BY <1>0, <1>1, <2>3
<1>3. b[RankIn(S, d) + 1] = T[d]
  BY <1>0, <1>1
<1> QED
  BY <1>0, <1>1, <1>2, <1>3 DEF Lists

LEMMA Begins ==
  ASSUME Counted, UNCHANGED sparse_buckets, before' = FlatOf(sparse_buckets),
         CutAt(sparse_buckets, sib', offset', 0), HowFar(0)',
         answer' = IF req'.op \in {"iter", "into_values"} THEN <<>> ELSE None
  PROVE  before' \in Tables /\ WalkAt(0)'
<1> DEFINE T == FlatOf(sparse_buckets)
<1>1. T \in Tables
  BY FlatSlots DEF Counted
<1>2. /\ Progress(pc', req', T, T, 0) /\ RankIn(StoredIn(T), 0) = 0 /\ Done(StoredIn(T), 0) = {}
  BY <1>1, Unmoved
<1>3. Collected(0)'
  <2>1. <<>> \in Seq(Value) /\ Len(<<>>) = 0
    OBVIOUS
  <2> QED
    BY <1>2, <2>1 DEF Collected, Lists
<1> QED
  BY <1>1, <1>2, <1>3 DEF WalkAt

LEMMA CallKeeps ==
  ASSUME VectorInv, Call
  PROVE  VectorInv'
<1> DEFINE B == sparse_buckets
           t == FirstNonEmpty(0)
<1>1. /\ Counted /\ UNCHANGED sparse_buckets /\ Flat = FlatOf(B)
      /\ before' = FlatOf(B) /\ req' \in Requests /\ pc = "idle" /\ Bits \in Nat
      /\ answer' = IF req'.op \in {"iter", "into_values"} THEN <<>> ELSE None
      /\ sib \in 0 .. End /\ offset \in 0 .. Bits /\ left \in Nat
  BY BitsOK DEF VectorInv, Call, Control, Flat, FlatOf
<1>2. Counted'
  BY <1>1 DEF Counted, Call, counters
<1>3. /\ t \in 0 .. End /\ CutAt(B, t, 0, 0)
      /\ t # End => t \in Arrays /\ Len(B[t].values) > 0
  BY <1>1, FirstPosition
<1>4. 0 \in 0 .. End /\ CutAt(B, 0, 0, 0) /\ 0 \in 0 .. BucketCount
  BY <1>1, ArraysCover, CutEnds, SizeAssumption DEF Counted
<1>5. \A s \in Arrays : Len(B[s].values) \in Nat
  BY <1>1, ArrayAt
<1>6. Arrays = 0 .. End - 1 /\ End \in Nat
  BY ArraysCover
<1> HIDE DEF t
<1>7. CASE req'.op = "retain"
  <2>1. pc' = "retain" /\ sib' = 0 /\ offset' = 0 /\ left' = 0
    BY <1>7 DEF Call, MoveTo
  <2>2. WalkAt(0)' /\ before' \in Tables
    BY <1>1, <1>4, <2>1, Begins DEF HowFar
  <2>3. Control'
    BY <1>1, <1>4, <1>7, <2>1, <2>2 DEF Control, Walking
  <2>4. CursorOnValue'
    BY <1>1, <1>4, <1>5, <1>6, <2>1 DEF CursorOnValue, Size
  <2> QED
    BY <1>2, <1>4, <2>2, <2>3, <2>4 DEF VectorInv
<1>8. CASE req'.op \in {"iter_mut", "into_values"}
  <2>1. pc' = "scan" /\ sib' = 0 /\ offset' = 0 /\ left' = req'.take
    BY <1>8 DEF Call, MoveTo
  <2>2. left' \in Nat /\ req'.take = left' + 0
    BY <1>1, <1>8, <2>1, RequestFields
  <2>3. WalkAt(0)' /\ before' \in Tables
    BY <1>1, <1>4, <2>1, <2>2, Begins DEF HowFar
  <2>4. Control'
    BY <1>1, <1>4, <1>8, <2>1, <2>2, <2>3 DEF Control, Walking
  <2>5. CursorOnValue'
    BY <2>1 DEF CursorOnValue
  <2> QED
    BY <1>2, <1>4, <2>3, <2>4, <2>5 DEF VectorInv
<1>9. CASE req'.op = "iter"
  <2>1. pc' = "iter" /\ sib' = t /\ offset' = 0 /\ left' = 0
    BY <1>9 DEF Call, MoveTo, ToFirst, t
  <2>2. WalkAt(0)' /\ before' \in Tables
    BY <1>1, <1>3, <2>1, Begins DEF HowFar
  <2>3. Control'
    BY <1>1, <1>3, <1>9, <2>1, <2>2 DEF Control, Walking
  <2>4. CursorOnValue'
    BY <1>1, <1>3, <2>1 DEF CursorOnValue, Size
  <2> QED
    BY <1>2, <1>4, <2>2, <2>3, <2>4 DEF VectorInv
<1>10. CASE req'.op = "remove_nth"
  <2>1. pc' = "skip" /\ sib' = t /\ offset' = 0 /\ left' = req'.skip
    BY <1>10 DEF Call, MoveTo, ToFirst, t
  <2>2. left' \in Nat /\ req'.skip = left' + 0
    BY <1>1, <1>10, <2>1, RequestFields
  <2>3. WalkAt(0)' /\ before' \in Tables
    BY <1>1, <1>3, <2>1, <2>2, Begins DEF HowFar
  <2>4. Control'
    BY <1>1, <1>3, <1>10, <2>1, <2>2, <2>3 DEF Control, Walking
  <2>5. CursorOnValue'
    BY <1>1, <1>3, <2>1 DEF CursorOnValue, Size
  <2> QED
    BY <1>2, <1>4, <2>3, <2>4, <2>5 DEF VectorInv
<1>11. CASE req'.op = "erase_range"
  <2>1. pc' = "start" /\ UNCHANGED <<sib, offset, left>> /\ answer' = None
    BY <1>1, <1>11 DEF Call
  <2>2. before' \in Tables
    BY <1>1, FlatSlots DEF Counted
  <2>3. Control'
    BY <1>1, <1>11, <2>1, <2>2 DEF Control, Walking
  <2>4. CursorOnValue' /\ ~ Walking'
    BY <2>1 DEF CursorOnValue, Walking
  <2> QED
    BY <1>2, <2>3, <2>4 DEF VectorInv
<1>12. req'.op \in {"erase_range", "remove_nth", "retain", "iter", "iter_mut", "into_values"}
  BY <1>1 DEF Requests
<1> QED
  BY <1>7, <1>8, <1>9, <1>10, <1>11, <1>12

LEMMA StartRangeKeeps ==
  ASSUME VectorInv, StartRange
  PROVE  VectorInv'
<1> DEFINE B == sparse_buckets
           t == FirstNonEmpty(0)
<1>1. /\ Counted /\ UNCHANGED <<sparse_buckets, counters, answer, req, before>>
      /\ pc = "start" /\ answer = None /\ before = FlatOf(B) /\ req \in Requests
      /\ req.op = "erase_range" /\ pc' = "skip" /\ sib' = t /\ offset' = 0 /\ left' = req.skip
  BY DEF VectorInv, Control, StartRange, Kept, ToFirst, MoveTo
<1>2. Counted'
  BY <1>1 DEF Counted, counters
<1>3. /\ t \in 0 .. End /\ CutAt(B, t, 0, 0) /\ 0 \in 0 .. BucketCount /\ Bits \in Nat
      /\ t # End => t \in Arrays /\ Len(B[t].values) > 0
  BY <1>1, FirstPosition, SizeAssumption, BitsOK
<1> HIDE DEF t
<1>4. left' \in Nat /\ req.skip = left' + 0
  BY <1>1, RequestFields
<1>5. before' \in Tables /\ WalkAt(0)'
  BY <1>1, <1>3, <1>4, Begins DEF HowFar
<1>6. Control'
  BY <1>1, <1>3, <1>4, <1>5 DEF Control, Walking
<1>7. CursorOnValue'
  BY <1>1, <1>3 DEF CursorOnValue, Size
<1> QED
  BY <1>2, <1>3, <1>5, <1>6, <1>7 DEF VectorInv

-----------------------------------------------------------------------------
(* Walks go on. *)

(* A walk about to act on a value.                                         *)
LEMMA OnValue ==
  ASSUME VectorInv, Walking, sib # End, pc \in {"skip", "iter"} \/ offset < Size(sib)
  PROVE  /\ Counted /\ Control /\ req \in Requests
         /\ sib \in Arrays /\ offset < Size(sib)
         /\ offset \in 0 .. Len(sparse_buckets[sib].values) - 1
         /\ Len(sparse_buckets[sib].values) = Size(sib) /\ Size(sib) \in Nat
         /\ Size(sib) <= Bits /\ Bits \in Nat /\ left \in Nat /\ sib \in 0 .. End
         /\ \E c \in 0 .. BucketCount : WalkAt(c)
<1>1. Counted /\ Control /\ req \in Requests /\ sib \in 0 .. End /\ offset \in Nat
      /\ left \in Nat /\ Bits \in Nat /\ \E c \in 0 .. BucketCount : WalkAt(c)
  BY BitsOK DEF VectorInv, Control
<1>2. sib \in Arrays
  BY <1>1, ArraysCover
<1>3. offset < Size(sib)
  BY DEF VectorInv, CursorOnValue
<1>4. Len(sparse_buckets[sib].values) = Size(sib) /\ Size(sib) \in Nat /\ Size(sib) <= Bits
  BY <1>1, <1>2, ArrayAt
<1> QED
  BY <1>1, <1>2, <1>3, <1>4

LEMMA StepsTo ==
  ASSUME Counted, Control, Walking, sib \in Arrays, offset < Size(sib),
         NEW c \in 0 .. BucketCount, WalkAt(c),
         NEW d, d = SlotAt(sparse_buckets, sib, offset),
         NEW n, n = RankIn(StoredIn(before), c),
         UNCHANGED <<pc, req, before>>,
         \A i \in Slots :
           FlatOf(sparse_buckets')[i] =
             IF i = d THEN Treated(pc, req, StoredIn(before), d, before[d])
             ELSE FlatOf(sparse_buckets)[i],
         CutAt(sparse_buckets', sib', offset', d + 1),
         HowFar(n + 1)',
         answer' = IF req.op \in {"iter", "into_values"}
                   THEN Append(answer, before[d]) ELSE answer
  PROVE  d + 1 \in 0 .. BucketCount /\ WalkAt(d + 1)'
<1> DEFINE S == StoredIn(before)
<1>1. /\ S \subseteq Nat /\ IsFiniteSet(S) /\ c \in Nat /\ d \in S /\ d \in Slots
      /\ d + 1 \in 0 .. BucketCount /\ before[d] \in Value
      /\ d \notin Done(S, c) /\ Done(S, d + 1) = Done(S, c) \cup {d}
      /\ RankIn(S, d) = n /\ RankIn(S, d + 1) = n + 1
  BY Here
<1>2. Progress(pc', req', before', FlatOf(sparse_buckets'), d + 1)
  <2>1. Progress(pc, req, before, FlatOf(sparse_buckets), c)
    BY DEF WalkAt
  <2>2. Progress(pc, req, before, FlatOf(sparse_buckets'), d + 1)
    BY <1>1, <2>1, Onward
  <2> QED
    BY <2>2
<1>3. Collected(d + 1)'
  <2>1. CASE req.op \in {"iter", "into_values"}
    <3>1. Lists(answer, before, S, c) /\ answer' = Append(answer, before[d])
      BY <2>1 DEF WalkAt, Collected
    <3> HIDE DEF S
    <3>2. RankIn(S, d) = RankIn(S, c) /\ RankIn(S, d + 1) = RankIn(S, c) + 1
      BY <1>1 DEF S
    <3>3. Lists(answer', before, S, d + 1)
      BY <1>1, <3>1, <3>2, Gathered
    <3> QED
      BY <2>1, <3>3 DEF Collected, S
  <2>2. CASE req.op \notin {"iter", "into_values"}
    BY <2>2 DEF WalkAt, Collected
  <2> QED
    BY <2>1, <2>2
<1>4. RankIn(StoredIn(before'), d + 1) = n + 1
  BY <1>1
<1>5. HowFar(RankIn(StoredIn(before), d + 1))'
  BY <1>4 DEF HowFar
<1> QED
  BY <1>1, <1>2, <1>3, <1>5 DEF WalkAt

LEMMA SkipOneKeeps ==
  ASSUME VectorInv, SkipOne
  PROVE  VectorInv'
<1> PICK d, S : d = SlotAt(sparse_buckets, sib, offset) /\ S = StoredIn(before)
  OBVIOUS
<1>1. /\ pc = "skip" /\ sib # End /\ left > 0 /\ ToNext /\ left' = left - 1 /\ Walking
      /\ UNCHANGED <<pc, answer, sparse_buckets, counters, req, before>>
  BY DEF SkipOne, Kept, Walking
<1>2. /\ Counted /\ Control /\ req \in Requests /\ sib \in Arrays /\ offset < Size(sib)
      /\ offset \in 0 .. Len(sparse_buckets[sib].values) - 1
      /\ left \in Nat /\ \E c \in 0 .. BucketCount : WalkAt(c)
  BY <1>1, OnValue
<1>3. PICK c \in 0 .. BucketCount : WalkAt(c)
  BY <1>2
<1> PICK n : n = RankIn(S, c)
  OBVIOUS
<1>4. /\ sib' \in 0 .. End /\ offset' \in 0 .. Bits
      /\ CutAt(sparse_buckets, sib', offset', d + 1)
      /\ sib' # End => offset' < Len(sparse_buckets[sib'].values)
  BY <1>1, <1>2, NextPosition
<1>5. /\ d \in Slots /\ d \notin Done(S, c) /\ n \in Nat
  BY <1>1, <1>2, <1>3, Here
<1>6. \A i \in Slots :
        FlatOf(sparse_buckets')[i] = IF i = d THEN Treated(pc, req, S, d, before[d])
                                     ELSE FlatOf(sparse_buckets)[i]
  <2>1. req.op # "iter_mut"
    BY <1>1, <1>2 DEF Control
  <2>2. Treated(pc, req, S, d, before[d]) = before[d]
    BY <1>1, <2>1 DEF Treated
  <2>3. FlatOf(sparse_buckets)[d] = before[d]
    BY <1>3, <1>5 DEF WalkAt, Progress
  <2> QED
    BY <1>1, <2>2, <2>3
<1>7. HowFar(n + 1)'
  <2>1. req.skip = left + n
    BY <1>1, <1>3 DEF WalkAt, HowFar
  <2> QED
    BY <1>1, <1>2, <1>5, <2>1 DEF HowFar
<1>8. req.op \notin {"iter", "into_values"}
  BY <1>1, <1>2 DEF Control
<1>9. d + 1 \in 0 .. BucketCount /\ WalkAt(d + 1)'
  BY <1>1, <1>2, <1>3, <1>4, <1>6, <1>7, <1>8, StepsTo
<1>10. Counted'
  BY <1>1, <1>2 DEF Counted, counters
<1>11. Control'
  BY <1>1, <1>2, <1>4 DEF Control, Walking
<1>12. CursorOnValue'
  BY <1>1, <1>4 DEF CursorOnValue, Size
<1> QED
  BY <1>9, <1>10, <1>11, <1>12 DEF VectorInv

LEMMA IterNextKeeps ==
  ASSUME VectorInv, IterNext
  PROVE  VectorInv'
<1> PICK d, S : d = SlotAt(sparse_buckets, sib, offset) /\ S = StoredIn(before)
  OBVIOUS
<1>1. /\ pc = "iter" /\ sib # End /\ ToNext /\ Walking
      /\ answer' = Append(answer, Dense(sparse_buckets[sib], offset))
      /\ UNCHANGED <<pc, left, sparse_buckets, counters, req, before>>
  BY DEF IterNext, Kept, Walking
<1>2. /\ Counted /\ Control /\ req \in Requests /\ sib \in Arrays /\ offset < Size(sib)
      /\ offset \in 0 .. Len(sparse_buckets[sib].values) - 1
      /\ left \in Nat /\ \E c \in 0 .. BucketCount : WalkAt(c)
  BY <1>1, OnValue
<1>3. PICK c \in 0 .. BucketCount : WalkAt(c)
  BY <1>2
<1> PICK n : n = RankIn(S, c)
  OBVIOUS
<1>4. /\ sib' \in 0 .. End /\ offset' \in 0 .. Bits
      /\ CutAt(sparse_buckets, sib', offset', d + 1)
      /\ sib' # End => offset' < Len(sparse_buckets[sib'].values)
  BY <1>1, <1>2, NextPosition
<1>5. /\ d \in Slots /\ d \notin Done(S, c)
      /\ before[d] = Dense(sparse_buckets[sib], offset)
  BY <1>1, <1>2, <1>3, Here
<1>6. req.op = "iter"
  BY <1>1, <1>2 DEF Control
<1>7. \A i \in Slots :
        FlatOf(sparse_buckets')[i] = IF i = d THEN Treated(pc, req, S, d, before[d])
                                     ELSE FlatOf(sparse_buckets)[i]
  <2>1. Treated(pc, req, S, d, before[d]) = before[d]
    BY <1>1, <1>6 DEF Treated
  <2>2. FlatOf(sparse_buckets)[d] = before[d]
    BY <1>3, <1>5 DEF WalkAt, Progress
  <2> QED
    BY <1>1, <2>1, <2>2
<1>8. HowFar(n + 1)'
  BY <1>1 DEF HowFar
<1>9. d + 1 \in 0 .. BucketCount /\ WalkAt(d + 1)'
  BY <1>1, <1>2, <1>3, <1>4, <1>5, <1>6, <1>7, <1>8, StepsTo
<1>10. Counted'
  BY <1>1, <1>2 DEF Counted, counters
<1>11. Control'
  BY <1>1, <1>2, <1>4 DEF Control, Walking
<1>12. CursorOnValue'
  BY <1>1, <1>4 DEF CursorOnValue, Size
<1> QED
  BY <1>9, <1>10, <1>11, <1>12 DEF VectorInv

LEMMA EraseHereKeeps ==
  ASSUME VectorInv, EraseHere
  PROVE  VectorInv'
<1> PICK d, S : d = SlotAt(sparse_buckets, sib, offset) /\ S = StoredIn(before)
  OBVIOUS
<1>1. /\ pc = "erase" /\ left > 0 /\ offset < Size(sib) /\ left' = left - 1 /\ Walking
      /\ RemoveFrom(sib, offset, OffsetToIndex(sparse_buckets[sib], offset))
      /\ UNCHANGED <<pc, req, answer, sib, offset, before>>
  BY DEF EraseHere, Walking
<1>2. sib # End
  BY <1>1 DEF VectorInv, Control
<1>3. /\ Counted /\ Control /\ req \in Requests /\ sib \in Arrays
      /\ offset \in 0 .. Len(sparse_buckets[sib].values) - 1
      /\ Len(sparse_buckets[sib].values) = Size(sib) /\ Size(sib) \in Nat
      /\ left \in Nat /\ \E c \in 0 .. BucketCount : WalkAt(c)
  BY <1>1, <1>2, OnValue
<1>4. PICK c \in 0 .. BucketCount : WalkAt(c)
  BY <1>3
<1> PICK n : n = RankIn(S, c)
  OBVIOUS
<1>5. /\ Counted' /\ CutAt(sparse_buckets', sib, offset, d + 1)
      /\ FlatOf(sparse_buckets') = Changed(FlatOf(sparse_buckets), d, Deleted)
      /\ Len(sparse_buckets'[sib].values) = Len(sparse_buckets[sib].values) - 1
  BY <1>1, <1>3, RemoveStep
<1>6. d \in Slots /\ n \in Nat /\ RankIn(S, d) = n
  BY <1>1, <1>3, <1>4, Here
<1>7. req.op = "erase_range" /\ req.skip + req.count = left + n /\ req.skip <= n
      /\ req.skip \in Nat /\ req.count \in Nat
  BY <1>1, <1>3, <1>4, RequestFields DEF Control, WalkAt, HowFar
<1>8. \A i \in Slots :
        FlatOf(sparse_buckets')[i] = IF i = d THEN Treated(pc, req, S, d, before[d])
                                     ELSE FlatOf(sparse_buckets)[i]
  <2>1. Treated(pc, req, S, d, before[d]) = Deleted
    BY <1>1, <1>6, <1>7 DEF Treated
  <2> QED
    BY <1>5, <2>1 DEF Changed, FlatOf
<1>9. HowFar(n + 1)'
  BY <1>1, <1>3, <1>6, <1>7 DEF HowFar
<1>10. d + 1 \in 0 .. BucketCount /\ WalkAt(d + 1)'
  BY <1>1, <1>3, <1>4, <1>5, <1>7, <1>8, <1>9, StepsTo
<1>11. Control'
  BY <1>1, <1>3 DEF Control, Walking
<1>12. CursorOnValue'
  BY <1>1, <1>3, <1>5 DEF CursorOnValue, Size
<1> QED
  BY <1>5, <1>10, <1>11, <1>12 DEF VectorInv

LEMMA RetainHereKeeps ==
  ASSUME VectorInv, RetainHere
  PROVE  VectorInv'
<1> PICK d, S : d = SlotAt(sparse_buckets, sib, offset) /\ S = StoredIn(before)
  OBVIOUS
<1>1. /\ pc = "retain" /\ sib # End /\ offset < Size(sib) /\ Walking
      /\ UNCHANGED <<pc, req, answer, sib, left, before>>
  BY DEF RetainHere, Walking
<1>2. /\ Counted /\ Control /\ req \in Requests /\ sib \in Arrays /\ sib \in 0 .. End
      /\ offset \in 0 .. Len(sparse_buckets[sib].values) - 1
      /\ Len(sparse_buckets[sib].values) = Size(sib) /\ Size(sib) \in Nat /\ Size(sib) <= Bits
      /\ Bits \in Nat /\ left \in Nat /\ \E c \in 0 .. BucketCount : WalkAt(c)
  BY <1>1, OnValue
<1>3. PICK c \in 0 .. BucketCount : WalkAt(c)
  BY <1>2
<1> PICK n : n = RankIn(S, c)
  OBVIOUS
<1>4. /\ d \in Slots /\ before[d] = Dense(sparse_buckets[sib], offset) /\ before[d] \in Value
  BY <1>1, <1>2, <1>3, Here
<1>5. req.op = "retain" /\ req.edit[before[d]] \in Value
  BY <1>1, <1>2, <1>4, RequestFields DEF Control
<1>6. HowFar(n + 1)'
  BY <1>1 DEF HowFar
<1>7. CASE before[d] \in req.keep
  <2>1. /\ sparse_buckets' = WithValue(sib, offset, req.edit[before[d]])
        /\ offset' = offset + 1 /\ UNCHANGED counters
    BY <1>4, <1>7 DEF RetainHere
  <2>2. /\ Counted' /\ CutAt(sparse_buckets', sib, offset + 1, d + 1)
        /\ FlatOf(sparse_buckets') = Changed(FlatOf(sparse_buckets), d, req.edit[before[d]])
        /\ Len(sparse_buckets'[sib].values) = Len(sparse_buckets[sib].values)
    BY <1>2, <1>5, <2>1, WriteStep
  <2>3. \A i \in Slots :
          FlatOf(sparse_buckets')[i] = IF i = d THEN Treated(pc, req, S, d, before[d])
                                       ELSE FlatOf(sparse_buckets)[i]
    BY <1>1, <1>7, <2>2 DEF Changed, FlatOf, Treated
  <2>4. d + 1 \in 0 .. BucketCount /\ WalkAt(d + 1)'
    BY <1>1, <1>2, <1>3, <1>5, <1>6, <2>1, <2>2, <2>3, StepsTo
  <2>5. Control'
    BY <1>1, <1>2, <2>1 DEF Control, Walking
  <2>6. CursorOnValue'
    BY <1>1, <1>2, <2>1, <2>2 DEF CursorOnValue, Size
  <2> QED
    BY <2>2, <2>4, <2>5, <2>6 DEF VectorInv
<1>8. CASE before[d] \notin req.keep
  <2>1. /\ RemoveFrom(sib, offset, OffsetToIndex(sparse_buckets[sib], offset))
        /\ offset' = offset
    BY <1>4, <1>8 DEF RetainHere
  <2>2. /\ Counted' /\ CutAt(sparse_buckets', sib, offset, d + 1)
        /\ FlatOf(sparse_buckets') = Changed(FlatOf(sparse_buckets), d, Deleted)
        /\ Len(sparse_buckets'[sib].values) = Len(sparse_buckets[sib].values) - 1
    BY <1>2, <2>1, RemoveStep
  <2>3. \A i \in Slots :
          FlatOf(sparse_buckets')[i] = IF i = d THEN Treated(pc, req, S, d, before[d])
                                       ELSE FlatOf(sparse_buckets)[i]
    BY <1>1, <1>8, <2>2 DEF Changed, FlatOf, Treated
  <2>4. d + 1 \in 0 .. BucketCount /\ WalkAt(d + 1)'
    BY <1>1, <1>2, <1>3, <1>5, <1>6, <2>1, <2>2, <2>3, StepsTo
  <2>5. Control'
    BY <1>1, <1>2, <2>1 DEF Control, Walking
  <2>6. CursorOnValue'
    BY <1>1, <1>2, <2>1, <2>2 DEF CursorOnValue, Size
  <2> QED
    BY <2>2, <2>4, <2>5, <2>6 DEF VectorInv
<1> QED
  BY <1>7, <1>8

LEMMA ScanHereKeeps ==
  ASSUME VectorInv, ScanHere
  PROVE  VectorInv'
<1> PICK d, S : d = SlotAt(sparse_buckets, sib, offset) /\ S = StoredIn(before)
  OBVIOUS
<1>1. /\ pc = "scan" /\ left > 0 /\ sib # End /\ offset < Size(sib) /\ Walking
      /\ left' = left - 1 /\ offset' = offset + 1
      /\ UNCHANGED <<counters, pc, req, sib, before>>
  BY DEF ScanHere, Scanning, Walking
<1>2. /\ Counted /\ Control /\ req \in Requests /\ sib \in Arrays /\ sib \in 0 .. End
      /\ offset \in 0 .. Len(sparse_buckets[sib].values) - 1
      /\ Len(sparse_buckets[sib].values) = Size(sib) /\ Size(sib) \in Nat /\ Size(sib) <= Bits
      /\ Bits \in Nat /\ left \in Nat /\ \E c \in 0 .. BucketCount : WalkAt(c)
  BY <1>1, OnValue
<1>3. PICK c \in 0 .. BucketCount : WalkAt(c)
  BY <1>2
<1> PICK n : n = RankIn(S, c)
  OBVIOUS
<1>4. /\ d \in Slots /\ before[d] = Dense(sparse_buckets[sib], offset) /\ before[d] \in Value
      /\ d \notin Done(S, c) /\ n \in Nat
  BY <1>1, <1>2, <1>3, Here
<1>5. req.op \in {"iter_mut", "into_values"} /\ req.take = left + n
  BY <1>1, <1>2, <1>3 DEF Control, WalkAt, HowFar
<1>6. HowFar(n + 1)'
  BY <1>1, <1>2, <1>4, <1>5 DEF HowFar
<1>7. CASE req.op = "iter_mut"
  <2>1. /\ sparse_buckets' = WithValue(sib, offset, req.edit[before[d]])
        /\ UNCHANGED answer /\ req.edit[before[d]] \in Value
    BY <1>2, <1>4, <1>7, RequestFields DEF ScanHere
  <2>2. /\ Counted' /\ CutAt(sparse_buckets', sib, offset + 1, d + 1)
        /\ FlatOf(sparse_buckets') = Changed(FlatOf(sparse_buckets), d, req.edit[before[d]])
    BY <1>1, <1>2, <2>1, WriteStep
  <2>3. \A i \in Slots :
          FlatOf(sparse_buckets')[i] = IF i = d THEN Treated(pc, req, S, d, before[d])
                                       ELSE FlatOf(sparse_buckets)[i]
    BY <1>1, <1>7, <2>2 DEF Changed, FlatOf, Treated
  <2>4. d + 1 \in 0 .. BucketCount /\ WalkAt(d + 1)'
    BY <1>1, <1>2, <1>3, <1>6, <1>7, <2>1, <2>2, <2>3, StepsTo
  <2>5. Control'
    BY <1>1, <1>2 DEF Control, Walking
  <2>6. CursorOnValue'
    BY <1>1 DEF CursorOnValue
  <2> QED
    BY <2>2, <2>4, <2>5, <2>6 DEF VectorInv
<1>8. CASE req.op = "into_values"
  <2>1. answer' = Append(answer, before[d]) /\ UNCHANGED sparse_buckets
    BY <1>4, <1>8 DEF ScanHere
  <2>2. Counted'
    BY <1>1, <1>2, <2>1 DEF Counted, counters
  <2>3. CutAt(sparse_buckets, sib, offset + 1, d + 1)
    BY <1>2, CursorSlot DEF Counted
  <2>4. \A i \in Slots :
          FlatOf(sparse_buckets')[i] = IF i = d THEN Treated(pc, req, S, d, before[d])
                                       ELSE FlatOf(sparse_buckets)[i]
    <3>1. Treated(pc, req, S, d, before[d]) = before[d]
      BY <1>1, <1>8 DEF Treated
    <3>2. FlatOf(sparse_buckets)[d] = before[d]
      BY <1>3, <1>4 DEF WalkAt, Progress
    <3> QED
      BY <2>1, <3>1, <3>2
  <2>5. d + 1 \in 0 .. BucketCount /\ WalkAt(d + 1)'
    BY <1>1, <1>2, <1>3, <1>6, <1>8, <2>1, <2>3, <2>4, StepsTo
  <2>6. Control'
    BY <1>1, <1>2 DEF Control, Walking
  <2>7. CursorOnValue'
    BY <1>1 DEF CursorOnValue
  <2> QED
    BY <2>2, <2>5, <2>6, <2>7 DEF VectorInv
<1> QED
  BY <1>5, <1>7, <1>8

(* The cursor goes on to another array: no value is passed.                *)
LEMMA MovesOn ==
  ASSUME VectorInv, pc \in {"erase", "retain", "scan"}, sib \in Arrays, offset >= Size(sib),
         NEW t \in sib + 1 .. End, \A m \in sib + 1 .. t - 1 : Len(sparse_buckets[m].values) = 0,
         pc = "erase" => t # End,
         sib' = t, offset' = 0,
         UNCHANGED <<pc, answer, left, sparse_buckets, counters, req, before>>
  PROVE  VectorInv'
<1>1. /\ Counted /\ Control /\ sib \in 0 .. End /\ offset \in Nat /\ Bits \in Nat
      /\ \E c \in 0 .. BucketCount : WalkAt(c)
  BY BitsOK DEF VectorInv, Control, Walking
<1>2. PICK c \in 0 .. BucketCount : WalkAt(c)
  BY <1>1
<1>3. /\ Size(sib) = Len(sparse_buckets[sib].values) /\ sparse_buckets \in Vectors
      /\ t \in 0 .. End /\ Arrays = 0 .. End - 1 /\ End \in Nat
  BY <1>1, ArraysCover DEF Counted, Size
<1>4. CutAt(sparse_buckets, t, 0, c)
  <2>1. CutAt(sparse_buckets, sib, offset, c)
    BY <1>2 DEF WalkAt
  <2> QED
    BY <1>1, <1>3, <2>1, CutMoves
<1>5. WalkAt(c)'
  BY <1>2, <1>4 DEF WalkAt, HowFar, Collected
<1>6. Counted'
  BY <1>1 DEF Counted, counters
<1>7. Control'
  BY <1>1, <1>3 DEF Control, Walking
<1>8. CursorOnValue'
  <2>1. t # End => Size(t) \in Nat
    BY <1>1, <1>3, ArrayAt
  <2> QED
    BY <2>1 DEF CursorOnValue, Size
<1> QED
  BY <1>2, <1>5, <1>6, <1>7, <1>8 DEF VectorInv

LEMMA MoveKeeps ==
  ASSUME VectorInv, EraseNextArray \/ RetainNextArray \/ ScanNextArray
  PROVE  VectorInv'
<1>1. /\ sib \in 0 .. End /\ Arrays = 0 .. End - 1 /\ End \in Nat /\ sparse_buckets \in Vectors
  BY ArraysCover DEF VectorInv, Control, Counted
<1>2. ASSUME sib # End
      PROVE  sib \in Arrays /\ sib + 1 \in 0 .. End /\ sib + 1 \in sib + 1 .. End
             /\ \A m \in sib + 1 .. (sib + 1) - 1 : Len(sparse_buckets[m].values) = 0
  BY <1>1, <1>2
<1>3. CASE EraseNextArray
  <2> DEFINE t == FirstNonEmpty(sib + 1)
  <2>1. /\ pc = "erase" /\ offset >= Size(sib) /\ t # End /\ sib' = t /\ offset' = 0
        /\ UNCHANGED <<pc, answer, left, sparse_buckets, counters, req, before>>
    BY <1>3 DEF EraseNextArray, MoveTo, Kept
  <2>2. sib # End
    BY <2>1 DEF VectorInv, Control
  <2>3. t \in sib + 1 .. End
        /\ \A m \in sib + 1 .. t - 1 : Len(sparse_buckets[m].values) = 0
    BY <1>1, <1>2, <2>2, FirstFound
  <2> HIDE DEF t
  <2> QED
    BY <1>2, <2>1, <2>2, <2>3, MovesOn
<1>4. CASE RetainNextArray
  BY <1>2, <1>4, MovesOn DEF RetainNextArray, MoveTo, Kept
<1>5. CASE ScanNextArray
  BY <1>2, <1>5, MovesOn DEF ScanNextArray, Scanning, MoveTo, Kept
<1> QED
  BY <1>3, <1>4, <1>5

LEMMA StartEraseKeeps ==
  ASSUME VectorInv, StartErase
  PROVE  VectorInv'
<1>1. /\ pc = "skip" /\ sib # End /\ left = 0 /\ req.op = "erase_range" /\ Walking
      /\ pc' = "erase" /\ left' = req.count
      /\ UNCHANGED <<answer, sib, offset, sparse_buckets, counters, req, before>>
  BY DEF StartErase, Kept, Walking
<1>2. /\ Counted /\ Control /\ req \in Requests /\ sib \in Arrays /\ offset < Size(sib)
      /\ Size(sib) \in Nat /\ offset \in 0 .. Len(sparse_buckets[sib].values) - 1
      /\ \E c \in 0 .. BucketCount : WalkAt(c)
  BY <1>1, OnValue
<1>3. PICK c \in 0 .. BucketCount : WalkAt(c)
  BY <1>2
<1> PICK S, n : S = StoredIn(before) /\ n = RankIn(S, c)
  OBVIOUS
<1>4. /\ S \subseteq Nat /\ IsFiniteSet(S) /\ c \in Nat /\ n \in Nat
  BY <1>1, <1>2, <1>3, Here
<1>5. req.skip = n /\ req.count \in Nat
  <2>1. req.skip = left + n /\ req.count \in Nat
    BY <1>1, <1>2, <1>3, RequestFields DEF WalkAt, HowFar
  <2> QED
    BY <1>1, <1>4, <2>1
<1>6. Progress(pc', req', before', FlatOf(sparse_buckets'), c)
  <2>1. ASSUME NEW i \in Done(S, c)
        PROVE  ~ (RankIn(S, i) >= req.skip)
    <3>1. i \in S /\ i \in Int
      BY <1>4 DEF Done
    <3>2. RankIn(S, i) < n /\ RankIn(S, i) \in 0 .. Cardinality(S)
      BY <1>4, <3>1, DoneRanks, RankRange
    <3> QED
      BY <1>4, <1>5, <3>2
  <2>2. Progress(pc, req, before, FlatOf(sparse_buckets), c)
    BY <1>3 DEF WalkAt
  <2> QED
    BY <1>1, <2>1, <2>2 DEF Progress, Treated
<1>7. HowFar(n)'
  BY <1>1, <1>4, <1>5 DEF HowFar
<1>8. Collected(c)'
  BY <1>1, <1>3 DEF WalkAt, Collected
<1>9. HowFar(RankIn(StoredIn(before), c))'
  BY <1>1, <1>7 DEF HowFar
<1>10. WalkAt(c)'
  BY <1>1, <1>3, <1>6, <1>8, <1>9 DEF WalkAt
<1>11. Counted'
  BY <1>1, <1>2 DEF Counted, counters
<1>12. Control'
  BY <1>1, <1>2, <1>5 DEF Control, Walking
<1>13. CursorOnValue'
  BY <1>1, <1>2 DEF CursorOnValue, Size
<1> QED
  BY <1>10, <1>11, <1>12, <1>13 DEF VectorInv

-----------------------------------------------------------------------------
(* Calls return. *)

LEMMA Returns ==
  ASSUME VectorInv, Counted', pc' = "return" /\ sib' = 0 /\ offset' = 0 /\ left' = 0,
         UNCHANGED req
  PROVE  VectorInv'
<1>1. 0 \in 0 .. End /\ 0 \in 0 .. Bits
  BY ArraysCover, BitsOK
<1>2. Control' /\ CursorOnValue' /\ ~ Walking'
  BY <1>1 DEF VectorInv, Control, Walking, CursorOnValue
<1> QED
  BY <1>2 DEF VectorInv

LEMMA ReturnKeeps ==
  ASSUME VectorInv,
         \/ EmptyRange \/ SkipEnds \/ RemoveHere \/ EraseEnds \/ RetainPanics \/ RetainEnds
         \/ IterEnds \/ ScanEnds
  PROVE  VectorInv'
<1>1. pc' = "return" /\ sib' = 0 /\ offset' = 0 /\ left' = 0 /\ UNCHANGED req
  BY DEF EmptyRange, SkipEnds, RemoveHere, EraseEnds, RetainPanics, RetainEnds, IterEnds,
         ScanEnds, Return
<1> SUFFICES Counted'
  BY <1>1, Returns
<1>2. ASSUME UNCHANGED <<sparse_buckets, counters>>
      PROVE  Counted'
  BY <1>2 DEF VectorInv, Counted, counters
<1>3. CASE EmptyRange \/ SkipEnds \/ EraseEnds \/ RetainEnds \/ IterEnds
  BY <1>2, <1>3 DEF EmptyRange, SkipEnds, EraseEnds, RetainEnds, IterEnds
<1>4. CASE RemoveHere
  <2>1. /\ pc = "skip" /\ sib # End /\ Walking
        /\ RemoveFrom(sib, offset, OffsetToIndex(sparse_buckets[sib], offset))
    BY <1>4 DEF RemoveHere, Walking
  <2>2. Counted /\ sib \in Arrays /\ offset \in 0 .. Len(sparse_buckets[sib].values) - 1
    BY <2>1, OnValue
  <2> QED
    BY <2>1, <2>2, RemoveStep
<1>5. CASE RetainPanics
  <2>1. /\ pc = "retain" /\ sib # End /\ offset < Size(sib) /\ Walking /\ UNCHANGED counters
    BY <1>5 DEF RetainPanics, Walking
  <2>2. /\ Counted /\ Control /\ req \in Requests /\ sib \in Arrays
        /\ offset \in 0 .. Len(sparse_buckets[sib].values) - 1
        /\ \E c \in 0 .. BucketCount : WalkAt(c)
    BY <2>1, OnValue
  <2> DEFINE v == Dense(sparse_buckets[sib], offset)
  <2>3. v \in Value /\ req.edit \in [Value -> Value]
    <3>1. v \in Value
      BY <2>1, <2>2, Here
    <3> QED
      BY <2>1, <2>2, <3>1, RequestFields DEF Control
  <2>4. PICK w \in {v, req.edit[v]} : sparse_buckets' = WithValue(sib, offset, w)
    BY <1>5 DEF RetainPanics
  <2> HIDE DEF v
  <2> QED
    BY <2>1, <2>2, <2>3, <2>4, WriteStep
<1>6. CASE ScanEnds
  <2>1. CASE req.op = "iter_mut"
    BY <1>2, <1>6, <2>1 DEF ScanEnds
  <2>2. CASE req.op # "iter_mut"
    BY <1>6, <2>2, FreshCounted DEF ScanEnds
  <2> QED
    BY <2>1, <2>2
<1> QED
  BY <1>3, <1>4, <1>5, <1>6

LEMMA IdleKeeps ==
  ASSUME VectorInv, OneSlot \/ Finish \/ UNCHANGED vars
  PROVE  VectorInv'
<1>1. CASE OneSlot
  <2>1. pc = "idle" /\ UNCHANGED call /\ Counted
    BY <1>1 DEF OneSlot, InsertInBucket, ValueMut, EraseSlot, Clear, EraseAll, Idle, VectorInv
  <2>2. Counted'
    BY <1>1, <2>1, InsertCounted, ValueMutCounted, EraseSlotCounted, EraseAllCounted,
       FreshCounted DEF OneSlot, Clear
  <2>3. Control' /\ CursorOnValue' /\ ~ Walking'
    BY <2>1 DEF VectorInv, Control, CursorOnValue, Walking, call
  <2> QED
    BY <2>2, <2>3 DEF VectorInv
<1>2. CASE Finish
  <2>1. /\ pc' = "idle" /\ req' = None /\ answer' = None
        /\ UNCHANGED <<sparse_buckets, counters, sib, offset, left, before>>
    BY <1>2 DEF Finish
  <2>2. Counted'
    BY <2>1 DEF VectorInv, Counted, counters
  <2>3. Control' /\ CursorOnValue' /\ ~ Walking'
    BY <2>1 DEF VectorInv, Control, CursorOnValue, Walking
  <2> QED
    BY <2>2, <2>3 DEF VectorInv
<1>3. CASE UNCHANGED vars
  <2>1. UNCHANGED <<sparse_buckets, nb_elements, nb_deleted_buckets, pc, req, answer,
                    sib, offset, left, before>>
    BY <1>3 DEF vars, counters, call
  <2>2. Counted' /\ Control' /\ CursorOnValue'
    BY <2>1 DEF VectorInv, Counted, Control, CursorOnValue, Walking, Size
  <2>3. Walking' => \E c \in 0 .. BucketCount : WalkAt(c)'
    BY <2>1 DEF VectorInv, Walking, WalkAt, HowFar, Collected
  <2> QED
    BY <2>2, <2>3 DEF VectorInv
<1> QED
  BY <1>1, <1>2, <1>3

LEMMA VectorInit ==
  ASSUME Init
  PROVE  VectorInv
<1>1. sparse_buckets = [s \in Arrays |-> NewArray] /\ nb_elements = 0 /\ nb_deleted_buckets = 0
      /\ pc = "idle" /\ req = None /\ answer = None /\ sib = 0 /\ offset = 0 /\ left = 0
  BY DEF Init
<1>2. Counted
  BY <1>1, FreshVector, CountsNone DEF Counted
<1>3. 0 \in 0 .. End /\ 0 \in 0 .. Bits
  BY ArraysCover, BitsOK
<1> QED
  BY <1>1, <1>2, <1>3 DEF VectorInv, Control, Walking, CursorOnValue

(* The invariant is inductive: one lemma for each kind of step.            *)
THEOREM VectorInvariant == Spec => []VectorInv
<1>1. Init => VectorInv
  BY VectorInit
<1>2. VectorInv /\ [Next]_vars => VectorInv'
  <2> SUFFICES ASSUME VectorInv, [Next]_vars
               PROVE  VectorInv'
    OBVIOUS
  <2>1. CASE OneSlot \/ Finish \/ UNCHANGED vars
    BY <2>1, IdleKeeps
  <2>2. CASE Call
    BY <2>2, CallKeeps
  <2>3. CASE Walk \/ RetainPanics
    BY <2>3, StartRangeKeeps, SkipOneKeeps, StartEraseKeeps, EraseHereKeeps, MoveKeeps,
       RetainHereKeeps, IterNextKeeps, ScanHereKeeps, ReturnKeeps DEF Walk
  <2> QED
    BY <2>1, <2>2, <2>3 DEF Next
<1> QED
  BY <1>1, <1>2, PTL DEF Spec

(* The types of the vector's state hold: every array keeps its two bitmaps *)
(* within its width, and a cursor is at most one place behind its array.   *)
THEOREM VectorTypes == Spec => []TypeOK
<1>1. VectorInv => TypeOK
  <2> SUFFICES ASSUME VectorInv
               PROVE  TypeOK
    OBVIOUS
  <2>1. sparse_buckets \in [Arrays -> PackedArrays]
    BY DEF VectorInv, Counted, Vectors
  <2>2. \A a \in PackedArrays :
          a \in [values : Seq(Value), bitmap_vals : SUBSET (0 .. Bits - 1),
                 bitmap_deleted_vals : SUBSET (0 .. Bits - 1)]
    BY DEF PackedArrays, Indices, PackedOver
  <2>3. nb_elements \in Nat /\ nb_deleted_buckets \in Nat
    BY SlotSets DEF VectorInv, Counted
  <2> QED
    BY <2>1, <2>2, <2>3 DEF VectorInv, Control, TypeOK
<1> QED
  BY <1>1, VectorInvariant, PTL

(* set, remove_value and the walks keep every array packed: a dense value  *)
(* for each bit, no slot both a value and a tombstone, and nothing in the  *)
(* padding.                                                                *)
THEOREM ArraysPacked == Spec => []Packed
<1>1. VectorInv => Packed
  BY DEF VectorInv, Counted, Vectors, PackedArrays, Packed, PackedOver
<1> QED
  BY <1>1, VectorInvariant, PTL

(* nb_elements and nb_deleted_buckets count the values and the tombstones, *)
(* after every single removal of a walk too, and whether or not the        *)
(* predicate of retain panics.                                             *)
THEOREM CountersCorrect == Spec => []CountersAgree
<1>1. VectorInv => CountersAgree
  BY DEF VectorInv, Counted, CountersAgree, Flat, FlatOf, StoredIn, BuriedIn
<1> QED
  BY <1>1, VectorInvariant, PTL

(* A walk that reads or removes at its cursor finds a value there, however *)
(* its own removals have moved the values of the array.                    *)
THEOREM CursorKept == Spec => []CursorOnValue
<1>1. VectorInv => CursorOnValue
  BY DEF VectorInv
<1> QED
  BY <1>1, VectorInvariant, PTL

-----------------------------------------------------------------------------
(* The refinement: what the steps of the vector do to the flat table. *)

Seen == IF pc \in {"idle", "return"} THEN Flat ELSE before

LEMMA FlatIs == Flat = FlatOf(sparse_buckets)
BY DEF Flat, FlatOf

LEMMA FlatIsNext == Flat' = FlatOf(sparse_buckets')
BY DEF Flat, FlatOf

(* A call that returns tells the answer and shows the vector as it is.     *)
LEMMA Answered ==
  ASSUME pc \notin {"idle", "return"}, NEW a, Return(a)
  PROVE  /\ Table!Respond(a)
         /\ \A op : Table!Asked(op) <=> req.op = op
         /\ Seen = before /\ Seen' = FlatOf(sparse_buckets')
<1>1. pc' = "return" /\ answer' = a /\ req' = req
  BY DEF Return
<1> QED
  BY <1>1, FlatIsNext DEF Table!Respond, Table!Asked, Seen

(* The abstract module has its own name for the library's operator.        *)
LEMMA SameCardinality == \A X : Table!Cardinality(X) = Cardinality(X)
BY DEF Table!Cardinality, Cardinality

LEMMA TableWorking ==
  ASSUME pc \notin {"idle", "return"}, NEW S, S = StoredIn(before)
  PROVE  /\ Table!SlotNumbers = Slots /\ Table!Stored = S
         /\ \A i : Table!Position(i) = RankIn(S, i)
         /\ \A X : Table!WithTombstones(X)
                     = [i \in Slots |-> IF i \in X THEN Deleted ELSE before[i]]
         /\ Table!Unwanted = { i \in S : before[i] \notin req.keep }
         /\ Table!Taken = { i \in S : RankIn(S, i) < req.take }
         /\ Table!InOrder = [p \in 1 .. Cardinality(S) |-> Table!InOrder[p]]
         /\ \A p \in 1 .. Cardinality(S) :
              \E i \in S : RankIn(S, i) = p - 1 /\ Table!InOrder[p] = before[i]
<1>1. Table!SlotNumbers = Slots
  BY DEF Table!SlotNumbers, Slots
<1>2. Table!Stored = S
  BY <1>1 DEF Table!Stored, StoredIn
<1>3. \A i : Table!Position(i) = RankIn(S, i)
  BY <1>2, SameCardinality DEF Table!Position, RankIn
<1>4. \A X : Table!WithTombstones(X)
               = [i \in Slots |-> IF i \in X THEN Deleted ELSE before[i]]
  BY <1>1 DEF Table!WithTombstones
<1>5. Table!Unwanted = { i \in S : before[i] \notin req.keep }
  BY <1>2 DEF Table!Unwanted
<1>6. Table!Taken = { i \in S : RankIn(S, i) < req.take }
  BY <1>2, <1>3 DEF Table!Taken
<1>7. /\ Table!InOrder = [p \in 1 .. Cardinality(S) |-> Table!InOrder[p]]
      /\ \A p \in 1 .. Cardinality(S) :
           Table!InOrder[p] = before[CHOOSE i \in Table!Stored : Table!Position(i) = p - 1]
  BY <1>2, SameCardinality DEF Table!InOrder
<1>8. ASSUME NEW p \in 1 .. Cardinality(S)
      PROVE  \E i \in S : RankIn(S, i) = p - 1 /\ Table!InOrder[p] = before[i]
  <2> DEFINE P(i) == Table!Position(i) = p - 1
             j == CHOOSE i \in Table!Stored : P(i)
  <2>1. \E i \in S : RankIn(S, i) = p - 1
    <3>1. p - 1 \in 0 .. Cardinality(S) - 1
      BY SlotSets
    <3> QED
      BY <3>1, SlotSets, RankTaken
  <2>2. \E i \in Table!Stored : P(i)
    BY <1>2, <1>3, <2>1
  <2>3. Table!InOrder[p] = before[j]
    BY <1>7
  <2> HIDE DEF P
  <2>4. j \in Table!Stored /\ P(j)
    BY <2>2
  <2> HIDE DEF j
  <2> QED
    BY <1>2, <1>3, <2>3, <2>4 DEF P
<1> QED
  BY <1>1, <1>2, <1>3, <1>4, <1>5, <1>6, <1>7, <1>8

(* What a running walk knows of the vector and of its own history.         *)
LEMMA WalkState ==
  ASSUME VectorInv, Walking, NEW S, S = StoredIn(before)
  PROVE  \E c \in 0 .. BucketCount :
           /\ WalkAt(c) /\ c \in Nat /\ RankIn(S, c) \in Nat /\ S \subseteq Nat /\ IsFiniteSet(S)
           /\ S \subseteq Slots /\ Cardinality(S) \in Nat /\ RankIn(S, c) <= Cardinality(S)
           /\ \A i \in S : RankIn(S, i) \in Nat /\ RankIn(S, i) < Cardinality(S)
           /\ \A i \in S : i \in Done(S, c) <=> RankIn(S, i) < RankIn(S, c)
           /\ \A i \in Slots :
                FlatOf(sparse_buckets)[i] =
                  IF i \in Done(S, c) THEN Treated(pc, req, S, i, before[i]) ELSE before[i]
           /\ sib = End => Done(S, c) = S /\ RankIn(S, c) = Cardinality(S)
<1>1. PICK c \in 0 .. BucketCount : WalkAt(c)
  BY DEF VectorInv
<1>2. S \subseteq Nat /\ S \subseteq Slots /\ IsFiniteSet(S) /\ Cardinality(S) \in Nat
      /\ c \in Nat /\ c \in Int
  BY SlotSets, SizeAssumption
<1>3. RankIn(S, c) \in 0 .. Cardinality(S)
  BY <1>2, RankRange
<1>4. \A i \in S : i \in Done(S, c) <=> RankIn(S, i) < RankIn(S, c)
  BY <1>2, DoneRanks
<1>5. ASSUME NEW i \in S
      PROVE  RankIn(S, i) \in 0 .. Cardinality(S) - 1
  <2>1. i \in Int
    BY <1>2
  <2> QED
    BY <1>2, <2>1, RankRange
<1>6. \A i \in Slots :
        FlatOf(sparse_buckets)[i] =
          IF i \in Done(S, c) THEN Treated(pc, req, S, i, before[i]) ELSE before[i]
  BY <1>1 DEF WalkAt, Progress
<1>7. sib = End => Done(S, c) = S /\ RankIn(S, c) = Cardinality(S)
  <2>1. sib = End => CutAt(sparse_buckets, End, offset, c)
    BY <1>1 DEF WalkAt
  <2> QED
    BY <1>1, <2>1, Ended DEF VectorInv
<1> QED
  BY <1>1, <1>2, <1>3, <1>4, <1>5, <1>6, <1>7

(* erase_range has buried the values at positions skip to skip + count.    *)
LEMMA RangeErased ==
  ASSUME pc \notin {"idle", "return"}, req.op = "erase_range", Return(None),
         UNCHANGED sparse_buckets, NEW S, S = StoredIn(before),
         \A i \in Slots :
           FlatOf(sparse_buckets)[i] =
             IF i \in S /\ RankIn(S, i) \in req.skip .. req.skip + req.count - 1
             THEN Deleted ELSE before[i]
  PROVE  Table!EraseRange
<1> DEFINE X == { i \in S : RankIn(S, i) \in req.skip .. req.skip + req.count - 1 }
<1>1. Table!Respond(None) /\ Table!Asked("erase_range") /\ Seen' = FlatOf(sparse_buckets')
  BY Answered
<1>2. { i \in Table!Stored : Table!Position(i) \in req.skip .. req.skip + req.count - 1 } = X
  BY TableWorking
<1>3. Table!WithTombstones(X) = [i \in Slots |-> IF i \in X THEN Deleted ELSE before[i]]
  BY TableWorking
<1>4. FlatOf(sparse_buckets) = [i \in Slots |-> FlatOf(sparse_buckets)[i]]
  BY DEF FlatOf
<1>5. FlatOf(sparse_buckets) = [i \in Slots |-> IF i \in X THEN Deleted ELSE before[i]]
  BY <1>4
<1>6. Seen' = Table!WithTombstones(X)
  BY <1>1, <1>3, <1>5
<1> HIDE DEF X
<1> QED
  BY <1>1, <1>2, <1>6 DEF Table!EraseRange, Seen

LEMMA EraseRangeMaps ==
  ASSUME VectorInv, req.op = "erase_range", EmptyRange \/ SkipEnds \/ EraseEnds
  PROVE  Table!EraseRange
<1> PICK S : S = StoredIn(before)
  OBVIOUS
<1> DEFINE F == FlatOf(sparse_buckets)
           Erased(i) == i \in S /\ RankIn(S, i) \in req.skip .. req.skip + req.count - 1
<1>1. /\ pc \in {"start", "skip", "erase"} /\ Return(None) /\ UNCHANGED sparse_buckets
  BY DEF EmptyRange, SkipEnds, EraseEnds
<1>2. req \in Requests /\ req.skip \in Nat /\ req.count \in Nat /\ left \in Nat
  BY <1>1, RequestFields DEF VectorInv, Control, Walking
<1> SUFFICES \A i \in Slots : F[i] = IF Erased(i) THEN Deleted ELSE before[i]
  BY <1>1, RangeErased
<1>3. CASE EmptyRange
  <2>1. req.count = 0 /\ F = before
    BY <1>3 DEF EmptyRange, VectorInv, Control
  <2>2. \A i \in Slots : ~ Erased(i)
    BY <1>2, <2>1
  <2> HIDE DEF Erased, F
  <2> QED
    BY <2>1, <2>2
<1>4. CASE SkipEnds
  <2>1. pc = "skip" /\ sib = End /\ Walking
    BY <1>4 DEF SkipEnds, Walking
  <2>2. PICK c \in 0 .. BucketCount :
          /\ WalkAt(c) /\ RankIn(S, c) \in Nat /\ RankIn(S, c) = Cardinality(S)
          /\ \A i \in S : RankIn(S, i) \in Nat /\ RankIn(S, i) < Cardinality(S)
          /\ \A i \in Slots :
               F[i] = IF i \in Done(S, c) THEN Treated(pc, req, S, i, before[i]) ELSE before[i]
    BY <2>1, WalkState
  <2>3. req.skip = left + RankIn(S, c)
    BY <2>1, <2>2 DEF WalkAt, HowFar
  <2>4. \A i \in Slots : ~ Erased(i)
    BY <1>2, <2>2, <2>3
  <2>5. \A i \in Slots : F[i] = before[i]
    BY <2>1, <2>2 DEF Treated
  <2> HIDE DEF Erased, F
  <2> QED
    BY <2>4, <2>5
<1>5. CASE EraseEnds
  <2>1. /\ pc = "erase" /\ Walking
        /\ left = 0 \/ (offset >= Size(sib) /\ FirstNonEmpty(sib + 1) = End)
    BY <1>5 DEF EraseEnds, Walking
  <2>2. PICK c \in 0 .. BucketCount :
          /\ WalkAt(c) /\ RankIn(S, c) \in Nat
          /\ \A i \in S : RankIn(S, i) \in Nat /\ RankIn(S, i) < Cardinality(S)
          /\ \A i \in S : i \in Done(S, c) <=> RankIn(S, i) < RankIn(S, c)
          /\ \A i \in Slots :
               F[i] = IF i \in Done(S, c) THEN Treated(pc, req, S, i, before[i]) ELSE before[i]
    BY <2>1, WalkState
  <2>3. req.skip + req.count = left + RankIn(S, c) /\ req.skip <= RankIn(S, c)
    BY <2>1, <2>2 DEF WalkAt, HowFar
  <2>4. left = 0 \/ RankIn(S, c) = Cardinality(S)
    <3> SUFFICES ASSUME offset >= Size(sib), FirstNonEmpty(sib + 1) = End
                 PROVE  RankIn(S, c) = Cardinality(S)
      BY <2>1
    <3>1. /\ Counted /\ sib \in Arrays /\ sib + 1 \in 0 .. End /\ End \in sib + 1 .. End
          /\ offset \in Nat /\ sparse_buckets \in Vectors
      BY <2>1, ArraysCover, BitsOK DEF VectorInv, Control, Counted
    <3>2. \A m \in sib + 1 .. End - 1 : Len(sparse_buckets[m].values) = 0
      BY <3>1, FirstFound
    <3>3. CutAt(sparse_buckets, sib, offset, c) /\ Len(sparse_buckets[sib].values) <= offset
      BY <2>2, <3>1, ArrayAt DEF WalkAt
    <3>4. CutAt(sparse_buckets, End, 0, c)
      BY <3>1, <3>2, <3>3, CutMoves
    <3> QED
      BY <2>2, <3>1, <3>4, Ended
  <2>5. ASSUME NEW i \in Slots
        PROVE  Erased(i) <=> i \in Done(S, c) /\ RankIn(S, i) >= req.skip
    <3>1. CASE i \in S
      <4>1. /\ RankIn(S, i) \in Nat /\ RankIn(S, i) < Cardinality(S) /\ RankIn(S, c) \in Nat
            /\ i \in Done(S, c) <=> RankIn(S, i) < RankIn(S, c)
            /\ req.skip + req.count = left + RankIn(S, c)
            /\ left = 0 \/ RankIn(S, c) = Cardinality(S)
            /\ req.skip \in Nat /\ req.count \in Nat /\ left \in Nat
        BY <1>2, <2>2, <2>3, <2>4, <3>1
      <4>2. Cardinality(S) \in Nat
        BY SlotSets
      <4> QED
        BY <3>1, <4>1, <4>2
    <3>2. CASE i \notin S
      BY <3>2 DEF Done
    <3> QED
      BY <3>1, <3>2
  <2>6. \A i \in Slots :
          F[i] = IF i \in Done(S, c) /\ RankIn(S, i) >= req.skip THEN Deleted ELSE before[i]
    BY <2>1, <2>2 DEF Treated
  <2> HIDE DEF Erased, F
  <2> QED
    BY <2>5, <2>6
<1> QED
  BY <1>3, <1>4, <1>5

LEMMA ChangedAt ==
  ASSUME NEW F \in Tables, NEW d \in Slots, NEW y, NEW G, G = Changed(F, d, y)
  PROVE  G = [i \in Slots |-> IF i = d THEN y ELSE F[i]]
BY DEF Tables, Changed

(* remove_nth has taken the value at position skip, if there is one.       *)
LEMMA RemoveNthMaps ==
  ASSUME VectorInv, req.op = "remove_nth", SkipEnds \/ RemoveHere
  PROVE  Table!RemoveNth
<1> PICK S : S = StoredIn(before)
  OBVIOUS
<1> DEFINE F == FlatOf(sparse_buckets)
<1>1. pc = "skip" /\ Walking /\ pc \notin {"idle", "return"}
  BY DEF SkipEnds, RemoveHere, Walking
<1>2. PICK c \in 0 .. BucketCount :
        /\ WalkAt(c) /\ RankIn(S, c) \in Nat
        /\ sib = End => RankIn(S, c) = Cardinality(S)
        /\ \A i \in Slots :
             F[i] = IF i \in Done(S, c) THEN Treated(pc, req, S, i, before[i]) ELSE before[i]
  BY <1>1, WalkState
<1>3. before \in Tables /\ F \in Tables /\ req.skip \in Nat /\ left \in Nat
  BY <1>1, FlatSlots, RequestFields DEF VectorInv, Control, Counted
<1>4. F = before
  <2>1. \A i \in Slots : F[i] = before[i]
    BY <1>1, <1>2 DEF Treated
  <2> HIDE DEF F
  <2> QED
    BY <1>3, <2>1 DEF Tables
<1>5. req.skip = left + RankIn(S, c)
  BY <1>1, <1>2 DEF WalkAt, HowFar
<1>6. Table!Stored = S /\ (\A i : Table!Position(i) = RankIn(S, i)) /\ Cardinality(S) \in Nat
      /\ Table!Cardinality(Table!Stored) = Cardinality(S)
      /\ \A X : Table!WithTombstones(X)
                  = [i \in Slots |-> IF i \in X THEN Deleted ELSE before[i]]
  BY <1>1, TableWorking, SameCardinality, SlotSets
<1>7. CASE SkipEnds
  <2>1. sib = End /\ Return(None) /\ UNCHANGED sparse_buckets
    BY <1>7 DEF SkipEnds
  <2>2. Table!Respond(None) /\ Table!Asked("remove_nth") /\ Seen = before /\ Seen' = before
    BY <1>1, <1>4, <2>1, Answered
  <2>3. ~ (req.skip < Table!Cardinality(Table!Stored))
    BY <1>2, <1>3, <1>5, <1>6, <2>1
  <2> QED
    BY <2>2, <2>3 DEF Table!RemoveNth, Seen
<1>8. CASE RemoveHere
  <2> PICK d : d = SlotAt(sparse_buckets, sib, offset)
    OBVIOUS
  <2> PICK v : v = Dense(sparse_buckets[sib], offset)
    OBVIOUS
  <2>1. /\ sib # End /\ left = 0 /\ Return(v)
        /\ RemoveFrom(sib, offset, OffsetToIndex(sparse_buckets[sib], offset))
    BY <1>8 DEF RemoveHere
  <2>2. /\ Counted /\ Control /\ sib \in Arrays /\ offset < Size(sib)
        /\ offset \in 0 .. Len(sparse_buckets[sib].values) - 1
    BY <1>1, <2>1, OnValue
  <2>3. /\ d \in S /\ d \in Slots /\ before[d] = v
        /\ RankIn(S, d) = RankIn(S, c) /\ RankIn(S, c) < Cardinality(S)
        /\ S \subseteq Nat /\ IsFiniteSet(S)
    BY <1>1, <1>2, <2>2, Here
  <2>4. FlatOf(sparse_buckets') = Changed(F, d, Deleted)
    BY <2>1, <2>2, RemoveStep
  <2>5. FlatOf(sparse_buckets') = [i \in Slots |-> IF i = d THEN Deleted ELSE before[i]]
    <3> HIDE DEF F
    <3> QED
      BY <1>3, <1>4, <2>3, <2>4, ChangedAt
  <2>6. /\ Table!Respond(v) /\ Table!Asked("remove_nth")
        /\ Seen = before /\ Seen' = FlatOf(sparse_buckets')
    BY <1>1, <2>1, Answered
  <2>7. req.skip < Table!Cardinality(Table!Stored) /\ RankIn(S, d) = req.skip
    BY <1>2, <1>3, <1>5, <1>6, <2>1, <2>3
  <2> DEFINE P(j) == Table!Position(j) = req.skip
             i == CHOOSE j \in Table!Stored : P(j)
  <2>8. i = d
    <3>1. d \in Table!Stored /\ P(d)
      BY <1>6, <2>3, <2>7
    <3>2. \A j \in Table!Stored : P(j) => j = d
      BY <1>6, <2>3, <2>7, RankInjective
    <3> HIDE DEF P
    <3> QED
      BY <3>1, <3>2
  <2>9. Table!Respond(Seen[i]) /\ Seen' = Table!WithTombstones({i})
    <3>1. Table!WithTombstones({d}) = [k \in Slots |-> IF k = d THEN Deleted ELSE before[k]]
      <4>1. Table!WithTombstones({d})
              = [k \in Slots |-> IF k \in {d} THEN Deleted ELSE before[k]]
        BY <1>6
      <4> QED
        BY <4>1
    <3> HIDE DEF i
    <3> QED
      BY <2>3, <2>5, <2>6, <2>8, <3>1
  <2> HIDE DEF F
  <2> QED
    BY <2>6, <2>7, <2>9 DEF Table!RemoveNth, Seen, P, i
<1> QED
  BY <1>7, <1>8

(* retain has kept and edited, or removed, every value.                    *)
LEMMA RetainMaps ==
  ASSUME VectorInv, RetainEnds
  PROVE  Table!Retain
<1> PICK S : S = StoredIn(before)
  OBVIOUS
<1> DEFINE F == FlatOf(sparse_buckets)
<1>1. /\ pc = "retain" /\ sib = End /\ Walking /\ pc \notin {"idle", "return"}
      /\ Return(None) /\ UNCHANGED sparse_buckets /\ req.op = "retain"
  BY DEF RetainEnds, Walking, VectorInv, Control
<1>2. PICK c \in 0 .. BucketCount :
        /\ Done(S, c) = S
        /\ \A i \in Slots :
             F[i] = IF i \in Done(S, c) THEN Treated(pc, req, S, i, before[i]) ELSE before[i]
  BY <1>1, WalkState
<1>3. /\ Table!Respond(None) /\ Table!Asked("retain")
      /\ Seen = before /\ Seen' = FlatOf(sparse_buckets')
  BY <1>1, Answered
<1>4. /\ Table!SlotNumbers = Slots /\ Table!Stored = S
      /\ Table!Unwanted = { i \in S : before[i] \notin req.keep }
  BY <1>1, TableWorking
<1>5. F \in Tables
  BY FlatSlots DEF VectorInv, Counted
<1>6. ASSUME NEW i \in Slots
      PROVE  F[i] = IF i \in Table!Unwanted THEN Deleted
                    ELSE IF i \in Table!Stored THEN req.edit[before[i]] ELSE before[i]
  <2>1. F[i] = IF i \in S
               THEN IF before[i] \in req.keep THEN req.edit[before[i]] ELSE Deleted
               ELSE before[i]
    BY <1>1, <1>2 DEF Treated
  <2> HIDE DEF F
  <2> QED
    BY <1>4, <2>1
<1>7. Seen' = [i \in Table!SlotNumbers |->
                 IF i \in Table!Unwanted THEN Deleted
                 ELSE IF i \in Table!Stored THEN req.edit[Seen[i]] ELSE Seen[i]]
  <2>1. Seen' = F
    BY <1>1, <1>3
  <2> HIDE DEF F
  <2> QED
    BY <1>3, <1>4, <1>5, <1>6, <2>1 DEF Tables
<1> QED
  BY <1>3, <1>7 DEF Table!Retain, Seen

(* retain has done so below the value its predicate panicked at.           *)
LEMMA RetainPanicsMaps ==
  ASSUME VectorInv, RetainPanics
  PROVE  Table!RetainPanics
<1> PICK S : S = StoredIn(before)
  OBVIOUS
<1> PICK d : d = SlotAt(sparse_buckets, sib, offset)
  OBVIOUS
<1> PICK v : v = Dense(sparse_buckets[sib], offset)
  OBVIOUS
<1> DEFINE F == FlatOf(sparse_buckets)
           G == FlatOf(sparse_buckets')
<1>1. /\ pc = "retain" /\ sib # End /\ offset < Size(sib) /\ Walking
      /\ pc \notin {"idle", "return"} /\ UNCHANGED counters /\ Return(Panicked)
      /\ req.op = "retain"
  BY DEF RetainPanics, Walking, VectorInv, Control
<1>2. PICK w \in {v, req.edit[v]} : sparse_buckets' = WithValue(sib, offset, w)
  BY DEF RetainPanics
<1>3. /\ Counted /\ Control /\ req \in Requests /\ sib \in Arrays
      /\ offset \in 0 .. Len(sparse_buckets[sib].values) - 1
  BY <1>1, OnValue
<1>4. PICK c \in 0 .. BucketCount :
        /\ WalkAt(c)
        /\ \A i \in Slots :
             F[i] = IF i \in Done(S, c) THEN Treated(pc, req, S, i, before[i]) ELSE before[i]
  BY <1>1, WalkState
<1>5. /\ d \in S /\ d \in Slots /\ d \in Nat /\ S \subseteq Nat /\ S \subseteq Slots
      /\ before[d] = v /\ v \in Value
      /\ \A i \in S : i \in Done(S, c) <=> i < d
  BY <1>1, <1>3, <1>4, Here
<1>6. w \in Value
  BY <1>1, <1>2, <1>3, <1>5, RequestFields
<1>7. G = Changed(F, d, w)
  BY <1>1, <1>2, <1>3, <1>6, WriteStep
<1>8. G = [i \in Slots |-> IF i = d THEN w ELSE F[i]]
  <2>1. F \in Tables
    BY <1>3, FlatSlots DEF Counted
  <2> HIDE DEF F, G
  <2> QED
    BY <1>5, <1>7, <2>1, ChangedAt
<1>9. /\ Table!Respond(Panicked) /\ Table!Asked("retain") /\ Seen = before /\ Seen' = G
  BY <1>1, Answered
<1>10. /\ Table!SlotNumbers = Slots /\ Table!Stored = S
       /\ Table!Unwanted = { i \in S : before[i] \notin req.keep }
  BY <1>1, TableWorking
<1> DEFINE After(i) == CASE i \in Table!Unwanted /\ i < d -> Deleted
                         [] i \in Table!Stored \ Table!Unwanted /\ i < d -> req.edit[Seen[i]]
                         [] i = d -> w
                         [] OTHER -> Seen[i]
<1>11. ASSUME NEW i \in Slots
       PROVE  (IF i = d THEN w ELSE F[i]) = After(i)
  <2>1. F[i] = IF i \in Done(S, c)
               THEN IF before[i] \in req.keep THEN req.edit[before[i]] ELSE Deleted
               ELSE before[i]
    BY <1>1, <1>4 DEF Treated
  <2>2. Done(S, c) \subseteq S
    BY DEF Done
  <2>3. CASE i = d
    <3>1. ~ (i < d)
      BY <1>5, <2>3
    <3> QED
      BY <2>3, <3>1
  <2>4. CASE i # d /\ i \in S /\ i < d
    <3>1. i \in Done(S, c)
      BY <1>5, <2>4
    <3>2. CASE before[i] \in req.keep
      <4>1. i \notin Table!Unwanted /\ i \in Table!Stored \ Table!Unwanted
        BY <1>10, <2>4, <3>2
      <4> HIDE DEF F
      <4> QED
        BY <1>9, <2>1, <2>4, <3>1, <3>2, <4>1
    <3>3. CASE before[i] \notin req.keep
      <4>1. i \in Table!Unwanted /\ i \notin Table!Stored \ Table!Unwanted
        BY <1>10, <2>4, <3>3
      <4> HIDE DEF F
      <4> QED
        BY <2>1, <2>4, <3>1, <3>3, <4>1
    <3> QED
      BY <3>2, <3>3
  <2>5. CASE i # d /\ ~ (i \in S /\ i < d)
    <3>1. i \notin Done(S, c)
      BY <1>5, <2>2, <2>5
    <3>2. ~ (i \in Table!Unwanted /\ i < d) /\ ~ (i \in Table!Stored \ Table!Unwanted /\ i < d)
      BY <1>10, <2>5
    <3> HIDE DEF F
    <3> QED
      BY <1>9, <2>1, <2>5, <3>1, <3>2
  <2> QED
    BY <2>3, <2>4, <2>5
<1>12. Seen' = [i \in Table!SlotNumbers |-> After(i)]
  <2> HIDE DEF After, F, G
  <2> QED
    BY <1>8, <1>9, <1>10, <1>11
<1>13. d \in Table!Stored /\ w \in {Seen[d], req.edit[Seen[d]]}
  BY <1>2, <1>5, <1>9, <1>10
<1> HIDE DEF F, G
<1> QED
  BY <1>9, <1>12, <1>13 DEF Table!RetainPanics, Seen

(* A list of the values below c is the beginning of the list of all.       *)
LEMMA ListsInOrder ==
  ASSUME pc \notin {"idle", "return"}, NEW S, S = StoredIn(before), NEW c,
         RankIn(S, c) \in Nat, RankIn(S, c) <= Cardinality(S),
         \A i \in S : i \in Done(S, c) <=> RankIn(S, i) < RankIn(S, c),
         NEW a, Lists(a, before, S, c)
  PROVE  /\ a = SubSeq(Table!InOrder, 1, RankIn(S, c))
         /\ RankIn(S, c) = Cardinality(S) => a = Table!InOrder
<1> DEFINE n == RankIn(S, c)
           m == Cardinality(S)
           L == Table!InOrder
<1>1. /\ L = [p \in 1 .. m |-> L[p]]
      /\ \A p \in 1 .. m : \E i \in S : RankIn(S, i) = p - 1 /\ L[p] = before[i]
  BY TableWorking
<1>2. m \in Nat
  BY SlotSets
<1>3. \A i \in S : before[i] \in Value
  BY DEF StoredIn
<1>4. L \in Seq(Value) /\ Len(L) = m
  <2>1. \A p \in 1 .. m : L[p] \in Value
    BY <1>1, <1>3
  <2>2. [p \in 1 .. m |-> L[p]] \in [1 .. m -> Value]
    BY <2>1
  <2> HIDE DEF L, m
  <2>3. L \in [1 .. m -> Value]
    BY <1>1, <2>2
  <2> QED
    BY <1>2, <2>3
<1>5. /\ a \in Seq(Value) /\ Len(a) = n
      /\ \A i \in Done(S, c) : a[RankIn(S, i) + 1] = before[i]
  BY DEF Lists
<1>6. ASSUME NEW p \in 1 .. n
      PROVE  a[p] = L[p]
  <2>1. p \in 1 .. m /\ p - 1 < n /\ (p - 1) + 1 = p
    BY <1>2
  <2>2. PICK i \in S : RankIn(S, i) = p - 1 /\ L[p] = before[i]
    BY <1>1, <2>1
  <2>3. i \in Done(S, c)
    BY <2>1, <2>2
  <2>4. a[RankIn(S, i) + 1] = before[i]
    BY <1>5, <2>3
  <2> HIDE DEF L, n, m
  <2> QED
    BY <2>1, <2>2, <2>4
<1>7. n \in Nat /\ n <= m
  OBVIOUS
<1> HIDE DEF L, n, m
<1>8. SubSeq(L, 1, n) \in Seq(Value) /\ Len(SubSeq(L, 1, n)) = n
      /\ \A p \in 1 .. n : SubSeq(L, 1, n)[p] = L[p]
  BY <1>2, <1>4, <1>7
<1>9. a = SubSeq(L, 1, n)
  BY <1>5, <1>6, <1>7, <1>8
<1>10. n = m => a = L
  BY <1>4, <1>5, <1>6, <1>7
<1> QED
  BY <1>9, <1>10 DEF L, n, m

(* Iter has handed out every value, in slot order.                         *)
LEMMA IterateMaps ==
  ASSUME VectorInv, IterEnds
  PROVE  Table!Iterate
<1> PICK S : S = StoredIn(before)
  OBVIOUS
<1> DEFINE F == FlatOf(sparse_buckets)
<1>1. /\ pc = "iter" /\ sib = End /\ Walking /\ pc \notin {"idle", "return"}
      /\ Return(answer) /\ UNCHANGED sparse_buckets /\ req.op = "iter"
  BY DEF IterEnds, Walking, VectorInv, Control
<1>2. PICK c \in 0 .. BucketCount :
        /\ WalkAt(c) /\ RankIn(S, c) \in Nat /\ RankIn(S, c) <= Cardinality(S)
        /\ RankIn(S, c) = Cardinality(S)
        /\ \A i \in S : i \in Done(S, c) <=> RankIn(S, i) < RankIn(S, c)
        /\ \A i \in Slots :
             F[i] = IF i \in Done(S, c) THEN Treated(pc, req, S, i, before[i]) ELSE before[i]
  BY <1>1, WalkState
<1>3. Lists(answer, before, S, c)
  BY <1>1, <1>2 DEF WalkAt, Collected
<1>4. answer = Table!InOrder
  BY <1>1, <1>2, <1>3, ListsInOrder
<1>5. /\ Table!Respond(answer) /\ Table!Asked("iter")
      /\ Seen = before /\ Seen' = FlatOf(sparse_buckets')
  BY <1>1, Answered
<1>6. F = before
  <2>1. \A i \in Slots : F[i] = before[i]
    BY <1>1, <1>2 DEF Treated
  <2>2. before \in Tables /\ F \in Tables
    BY <1>1, FlatSlots DEF VectorInv, Control, Counted
  <2> HIDE DEF F
  <2> QED
    BY <2>1, <2>2 DEF Tables
<1>7. Seen' = Seen
  BY <1>1, <1>5, <1>6
<1> QED
  BY <1>4, <1>5, <1>7 DEF Table!Iterate, Seen

(* IterMut and IntoIter have handed out the first values, as many as the   *)
(* client has taken.                                                       *)
LEMMA ScanMaps ==
  ASSUME VectorInv, ScanEnds
  PROVE  Table!IterateMut \/ Table!IntoValues
<1> PICK S : S = StoredIn(before)
  OBVIOUS
<1> DEFINE F == FlatOf(sparse_buckets)
<1>1. /\ pc = "scan" /\ Walking /\ pc \notin {"idle", "return"}
      /\ left = 0 \/ sib = End
      /\ Return(answer) /\ req.op \in {"iter_mut", "into_values"}
  BY DEF ScanEnds, Walking, VectorInv, Control
<1>2. PICK c \in 0 .. BucketCount :
        /\ WalkAt(c) /\ RankIn(S, c) \in Nat /\ RankIn(S, c) <= Cardinality(S)
        /\ Cardinality(S) \in Nat
        /\ \A i \in S : RankIn(S, i) \in Nat /\ RankIn(S, i) < Cardinality(S)
        /\ \A i \in S : i \in Done(S, c) <=> RankIn(S, i) < RankIn(S, c)
        /\ \A i \in Slots :
             F[i] = IF i \in Done(S, c) THEN Treated(pc, req, S, i, before[i]) ELSE before[i]
        /\ sib = End => Done(S, c) = S /\ RankIn(S, c) = Cardinality(S)
  BY <1>1, WalkState
<1>3. req.take = left + RankIn(S, c) /\ req.take \in Nat /\ left \in Nat
  <2>1. req \in Requests /\ left \in Nat
    BY <1>1 DEF VectorInv, Control
  <2> QED
    BY <1>1, <1>2, <2>1, RequestFields DEF WalkAt, HowFar
<1>4. /\ Table!SlotNumbers = Slots /\ Table!Stored = S
      /\ Table!Taken = { i \in S : RankIn(S, i) < req.take }
  BY <1>1, TableWorking
<1>5. Table!Taken = Done(S, c)
  <2>1. Done(S, c) \subseteq S
    BY DEF Done
  <2>2. \A i \in S : RankIn(S, i) < req.take <=> i \in Done(S, c)
    BY <1>1, <1>2, <1>3
  <2> QED
    BY <1>4, <2>1, <2>2
<1>6. /\ Table!Respond(answer) /\ Table!Asked(req.op)
      /\ Seen = before /\ Seen' = FlatOf(sparse_buckets')
  BY <1>1, Answered
<1>7. CASE req.op = "iter_mut"
  <2>1. UNCHANGED sparse_buckets
    BY <1>7 DEF ScanEnds
  <2>2. answer = None
    BY <1>2, <1>7 DEF WalkAt, Collected
  <2>3. F \in Tables
    BY FlatSlots DEF VectorInv, Counted
  <2>4. \A i \in Slots :
          F[i] = IF i \in Table!Taken THEN req.edit[before[i]] ELSE before[i]
    BY <1>1, <1>2, <1>5, <1>7 DEF Treated
  <2>5. Seen' = [i \in Table!SlotNumbers |->
                   IF i \in Table!Taken THEN req.edit[Seen[i]] ELSE Seen[i]]
    <3>1. Seen' = F
      BY <1>6, <2>1
    <3> HIDE DEF F
    <3> QED
      BY <1>4, <1>6, <2>3, <2>4, <3>1 DEF Tables
  <2> QED
    BY <1>6, <1>7, <2>2, <2>5 DEF Table!IterateMut, Seen
<1>8. CASE req.op = "into_values"
  <2>1. Seen' = [i \in Slots |-> Empty]
    BY <1>6, <1>8, FreshCounted DEF ScanEnds
  <2>2. Lists(answer, before, S, c)
    BY <1>2, <1>8 DEF WalkAt, Collected
  <2>3. answer = SubSeq(Table!InOrder, 1, RankIn(S, c))
    BY <1>1, <1>2, <2>2, ListsInOrder
  <2>4. Table!Cardinality(Table!Taken) = RankIn(S, c)
    BY <1>5, SameCardinality DEF RankIn, Done
  <2> QED
    BY <1>4, <1>6, <1>8, <2>1, <2>3, <2>4 DEF Table!IntoValues, Table!Clear, Seen
<1> QED
  BY <1>1, <1>7, <1>8

(* A call begins, an answer is taken.                                      *)
LEMMA CallMaps ==
  ASSUME VectorInv, Call
  PROVE  Table!Call
<1>1. /\ pc = "idle" /\ req' \in Requests /\ before' = Flat /\ answer = None
      /\ answer' = IF req'.op \in {"iter", "into_values"} THEN <<>> ELSE None
  BY DEF Call, VectorInv, Control
<1>2. /\ pc' \in {"start", "skip", "retain", "iter", "scan"}
      /\ req'.op = "into_values" => pc' = "scan"
      /\ req'.op = "iter" => pc' = "iter"
  <2>1. CASE req'.op = "retain"
    BY <2>1 DEF Call
  <2>2. CASE req'.op \in {"iter_mut", "into_values"}
    BY <2>2 DEF Call
  <2>3. CASE req'.op = "iter"
    BY <2>3 DEF Call
  <2>4. CASE req'.op = "remove_nth"
    BY <2>4 DEF Call
  <2>5. CASE req'.op \notin {"retain", "iter_mut", "into_values", "iter", "remove_nth"}
    BY <2>5 DEF Call
  <2> QED
    BY <2>1, <2>2, <2>3, <2>4, <2>5
<1> QED
  BY <1>1, <1>2 DEF Table!Call

LEMMA FinishMaps ==
  ASSUME VectorInv, Finish
  PROVE  Table!Finish
<1>1. /\ pc = "return" /\ pc' = "idle" /\ req' = None /\ answer' = None
      /\ UNCHANGED sparse_buckets
  BY DEF Finish
<1>2. Flat' = Flat
  BY <1>1, FlatIs, FlatIsNext
<1> QED
  BY <1>1, <1>2 DEF Table!Finish

(* One slot at a time.                                                     *)
LEMMA OneSlotMaps ==
  ASSUME VectorInv, OneSlot
  PROVE  Table!OneStep
<1> PICK F : F = FlatOf(sparse_buckets)
  OBVIOUS
<1> PICK G : G = FlatOf(sparse_buckets')
  OBVIOUS
<1>1. pc = "idle" /\ UNCHANGED call /\ UNCHANGED <<pc, req, answer>> /\ Counted
  BY DEF OneSlot, InsertInBucket, ValueMut, EraseSlot, Clear, EraseAll, Idle, VectorInv, call
<1>2. Seen = F /\ Seen' = G
  BY <1>1, FlatIs, FlatIsNext DEF Seen
<1>3. Table!SlotNumbers = Slots /\ Table!Stored = StoredIn(F)
  <2>1. Table!SlotNumbers = Slots
    BY DEF Table!SlotNumbers, Slots
  <2> QED
    BY <1>2, <2>1 DEF Table!Stored, StoredIn, Seen
<1>4. \/ \E i \in Slots \ StoredIn(F), v \in Value : G = Changed(F, i, v)
      \/ \E i \in StoredIn(F), v \in Value : G = Changed(F, i, v)
      \/ \E i \in StoredIn(F) : G = Changed(F, i, Deleted)
      \/ G = [i \in Slots |-> Empty]
      \/ G = [i \in Slots |-> IF i \in StoredIn(F) THEN Deleted ELSE F[i]]
  BY <1>1, InsertCounted, ValueMutCounted, EraseSlotCounted, EraseAllCounted, FreshCounted
     DEF OneSlot, Clear
<1>5. /\ Table!Put <=> \E i \in Slots \ StoredIn(F), v \in Value : G = Changed(F, i, v)
      /\ Table!Overwrite <=> \E i \in StoredIn(F), v \in Value : G = Changed(F, i, v)
      /\ Table!Remove <=> \E i \in StoredIn(F) : G = Changed(F, i, Deleted)
      /\ Table!Clear <=> G = [i \in Slots |-> Empty]
      /\ Table!EraseAll <=> G = [i \in Slots |-> IF i \in StoredIn(F) THEN Deleted ELSE F[i]]
  <2>1. ASSUME NEW i, NEW v
        PROVE  Table!Write(i, v) <=> G = Changed(F, i, v)
    BY <1>2 DEF Table!Write, Changed, Seen
  <2>2. Table!Clear <=> G = [i \in Slots |-> Empty]
    BY <1>2, <1>3 DEF Table!Clear, Seen
  <2>3. Table!EraseAll <=> G = [i \in Slots |-> IF i \in StoredIn(F) THEN Deleted ELSE F[i]]
    BY <1>2, <1>3 DEF Table!EraseAll, Table!WithTombstones, Seen
  <2> QED
    BY <1>3, <2>1, <2>2, <2>3 DEF Table!Put, Table!Overwrite, Table!Remove
<1>6. Table!Put \/ Table!Overwrite \/ Table!Remove \/ Table!Clear \/ Table!EraseAll
  BY <1>4, <1>5
<1> QED
  BY <1>1, <1>6 DEF Table!OneStep

(* The steps inside a walk change nothing a caller can see.                *)
LEMMA InsideMaps ==
  ASSUME VectorInv,
         \/ StartRange \/ SkipOne \/ StartErase \/ EraseHere \/ EraseNextArray
         \/ RetainHere \/ RetainNextArray \/ IterNext \/ ScanHere \/ ScanNextArray
  PROVE  UNCHANGED Table!flatVars
<1>1. /\ UNCHANGED <<req, before>> /\ pc \notin {"idle", "return"} /\ pc' \notin {"idle", "return"}
      /\ UNCHANGED answer \/ (pc \in {"iter", "scan"} /\ pc' = pc)
      /\ pc \in {"iter", "scan"} <=> pc' \in {"iter", "scan"}
  BY DEF StartRange, SkipOne, StartErase, EraseHere, EraseNextArray, RetainHere,
         RetainNextArray, IterNext, ScanHere, ScanNextArray, Scanning, Kept
<1> QED
  BY <1>1 DEF Table!flatVars

TableStep == Table!Next \/ UNCHANGED Table!flatVars

LEMMA StepMaps ==
  ASSUME VectorInv, [Next]_vars
  PROVE  TableStep
<1>1. CASE UNCHANGED vars
  <2>1. UNCHANGED <<sparse_buckets, pc, req, answer, before>>
    BY <1>1 DEF vars, call
  <2>2. Flat' = Flat
    BY <2>1, FlatIs, FlatIsNext
  <2> QED
    BY <2>1, <2>2 DEF TableStep, Table!flatVars
<1>2. CASE OneSlot \/ Call \/ Finish
  BY <1>2, OneSlotMaps, CallMaps, FinishMaps DEF TableStep, Table!Next
<1>3. CASE EmptyRange \/ SkipEnds \/ EraseEnds \/ RemoveHere
  <2>1. req.op = "erase_range" \/ req.op = "remove_nth"
    BY <1>3 DEF EmptyRange, SkipEnds, EraseEnds, RemoveHere, VectorInv, Control
  <2>2. (EmptyRange \/ EraseEnds) => req.op = "erase_range"
    BY DEF EmptyRange, EraseEnds, VectorInv, Control
  <2>3. RemoveHere => req.op = "remove_nth"
    BY DEF RemoveHere
  <2> QED
    BY <1>3, <2>1, <2>2, <2>3, EraseRangeMaps, RemoveNthMaps DEF TableStep, Table!Next
<1>4. CASE RetainEnds \/ RetainPanics \/ IterEnds \/ ScanEnds
  BY <1>4, RetainMaps, RetainPanicsMaps, IterateMaps, ScanMaps DEF TableStep, Table!Next
<1>5. CASE \/ StartRange \/ SkipOne \/ StartErase \/ EraseHere \/ EraseNextArray
           \/ RetainHere \/ RetainNextArray \/ IterNext \/ ScanHere \/ ScanNextArray
  BY <1>5, InsideMaps DEF TableStep
<1> QED
  BY <1>1, <1>2, <1>3, <1>4, <1>5 DEF Next, Walk

LEMMA InitMaps ==
  ASSUME Init
  PROVE  Table!Init
<1>1. pc = "idle" /\ req = None /\ answer = None /\ sparse_buckets = [s \in Arrays |-> NewArray]
  BY DEF Init
<1>2. Flat = [i \in Slots |-> Empty]
  BY <1>1, FlatIs, FreshVector
<1> QED
  BY <1>1, <1>2 DEF Table!Init, Table!SlotNumbers, Slots

(* The vector implements the flat table: every walk, whatever the array    *)
(* width, the bucket count and the client's arguments, takes effect on     *)
(* exactly the slots a table of plain cells would give it, answers with    *)
(* the values in slot order, and is seen by nobody in between.             *)
THEOREM ImplementsFlatTable == Spec => IsFlatTable
<1>1. Init => Table!Init
  BY InitMaps
<1>2. VectorInv /\ [Next]_vars => [Table!Next]_(Table!flatVars)
  BY StepMaps DEF TableStep
<1> QED
  BY <1>1, <1>2, VectorInvariant, PTL DEF Spec, IsFlatTable, Table!FlatSpec
=============================================================================
