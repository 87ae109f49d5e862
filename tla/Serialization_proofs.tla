------------------------- MODULE Serialization_proofs -------------------------
(* Files: what is written and read back, and what a read of a damaged file *)
(* can give.                                                               *)
EXTENDS Serialization, SparseHash_proofs, SparseArray_proofs, SequenceTheorems

-----------------------------------------------------------------------------
(* The blocks of values, one after the other. *)

(* f[i] is the first i blocks in one.                                      *)
Joins(blocks, n, f) ==
  f = [i \in 1 .. n |-> IF i = 1 THEN blocks[i] ELSE f[i - 1] \o blocks[i]]

(* There is such a function: FlattenSeq is not a choice among nothing.     *)
LEMMA JoinExists ==
  ASSUME NEW blocks, NEW n \in Nat
  PROVE  \E f : Joins(blocks, n, f)
<1> DEFINE Bad == { k \in Nat : ~ \E f : Joins(blocks, k, f) }
<1> SUFFICES ASSUME n \in Bad PROVE FALSE
  OBVIOUS
<1>1. PICK m \in Bad : \A k \in Bad : m <= k
  <2>1. Bad \subseteq Nat /\ Bad # {}
    OBVIOUS
  <2> HIDE DEF Bad
  <2> QED
    BY <2>1, LeastNatural
<1>2. m \in Nat /\ ~ \E f : Joins(blocks, m, f)
  OBVIOUS
<1>3. m # 0
  <2> SUFFICES ASSUME m = 0 PROVE FALSE
    OBVIOUS
  <2> DEFINE f == [i \in 1 .. 0 |-> 0]
  <2>1. Joins(blocks, 0, f)
    BY DEF Joins
  <2> QED
    BY <1>2, <2>1
<1>4. m - 1 \in Nat /\ m - 1 \notin Bad
  BY <1>1, <1>2, <1>3
<1>5. PICK f : Joins(blocks, m - 1, f)
  BY <1>4
<1> DEFINE g == [i \in 1 .. m |->
                   IF i < m THEN f[i]
                   ELSE IF m = 1 THEN blocks[m] ELSE f[m - 1] \o blocks[m]]
           h == [i \in 1 .. m |-> IF i = 1 THEN blocks[i] ELSE g[i - 1] \o blocks[i]]
<1>6. ASSUME NEW i \in 1 .. m
      PROVE  g[i] = h[i]
  <2>1. CASE i < m
    <3>1. i \in 1 .. m - 1 /\ g[i] = f[i]
      BY <1>2, <2>1
    <3>2. f[i] = IF i = 1 THEN blocks[i] ELSE f[i - 1] \o blocks[i]
      BY <1>5, <3>1 DEF Joins
    <3>3. i # 1 => i - 1 \in 1 .. m /\ i - 1 < m
      BY <1>2, <3>1
    <3> QED
      BY <3>1, <3>2, <3>3
  <2>2. CASE i = m
    <3>1. m # 1 => m - 1 \in 1 .. m /\ m - 1 < m
      BY <1>2, <1>3
    <3> QED
      BY <2>2, <3>1
  <2> QED
    BY <1>2, <2>1, <2>2
<1>7. g = h
  <2>1. DOMAIN g = 1 .. m /\ DOMAIN h = 1 .. m
    OBVIOUS
  <2>2. g = [i \in 1 .. m |-> g[i]] /\ h = [i \in 1 .. m |-> h[i]]
    OBVIOUS
  <2> HIDE DEF g, h
  <2> QED
    BY <1>6, <2>1, <2>2
<1>8. Joins(blocks, m, g)
  BY <1>7 DEF Joins
<1> QED
  BY <1>2, <1>8

(* What FlattenSeq computes.                                               *)
LEMMA Flattens ==
  ASSUME NEW V, NEW blocks \in Seq(V)
  PROVE  /\ blocks = <<>> => FlattenSeq(blocks) = <<>>
         /\ blocks # <<>> =>
              \E f : Joins(blocks, Len(blocks), f) /\ FlattenSeq(blocks) = f[Len(blocks)]
<1>1. Len(blocks) \in Nat /\ (blocks = <<>> <=> Len(blocks) = 0)
  OBVIOUS
<1>2. CASE Len(blocks) = 0
  BY <1>1, <1>2 DEF FlattenSeq
<1>3. CASE Len(blocks) # 0
  <2> DEFINE n == Len(blocks)
             g == CHOOSE f : Joins(blocks, n, f)
  <2>1. Joins(blocks, n, g)
    BY <1>1, JoinExists
  <2>2. FlattenSeq(blocks) = g[n]
    BY <1>3 DEF FlattenSeq, Joins
  <2> HIDE DEF g
  <2> QED
    BY <1>1, <1>3, <2>1, <2>2
<1> QED
  BY <1>2, <1>3

(* Every key is in one place of one block.                                 *)
KeyedBlocks(blocks) ==
  \A s, t \in DOMAIN blocks : \A o \in DOMAIN blocks[s], q \in DOMAIN blocks[t] :
    blocks[s][o][1] = blocks[t][q][1] => s = t /\ o = q

KeyedSeq(seq) == \A p, q \in DOMAIN seq : seq[p][1] = seq[q][1] => p = q

(* What is in the first k blocks.                                          *)
HoldsBlocks(V, seq, blocks, k) ==
  /\ seq \in Seq(V)
  /\ \A p \in DOMAIN seq : \E s \in 1 .. k : \E o \in DOMAIN blocks[s] :
       seq[p] = blocks[s][o]
  /\ \A s \in 1 .. k : \A o \in DOMAIN blocks[s] : \E p \in DOMAIN seq :
       seq[p] = blocks[s][o]
  /\ KeyedBlocks(blocks) => KeyedSeq(seq)

(* One block more.                                                         *)
LEMMA OneBlockMore ==
  ASSUME NEW V, NEW blocks \in Seq(Seq(V)), NEW k \in 1 .. Len(blocks) - 1,
         NEW seq, HoldsBlocks(V, seq, blocks, k)
  PROVE  HoldsBlocks(V, seq \o blocks[k + 1], blocks, k + 1)
<1> DEFINE b == blocks[k + 1]
           more == seq \o b
           m == Len(seq)
<1>1. /\ k + 1 \in DOMAIN blocks /\ b \in Seq(V) /\ seq \in Seq(V)
      /\ \A s \in 1 .. k : s \in DOMAIN blocks
      /\ 1 .. k + 1 = (1 .. k) \cup {k + 1} /\ k + 1 \notin 1 .. k
  BY DEF HoldsBlocks
<1>2. /\ more \in Seq(V) /\ m \in Nat /\ Len(b) \in Nat
      /\ DOMAIN more = 1 .. m + Len(b) /\ DOMAIN seq = 1 .. m
      /\ DOMAIN b = 1 .. Len(b)
      /\ \A p \in 1 .. m : more[p] = seq[p]
      /\ \A p \in 1 .. Len(b) : more[m + p] = b[p]
  BY <1>1
<1>3. ASSUME NEW p \in DOMAIN more
      PROVE  p \in DOMAIN seq \/ (p - m \in DOMAIN b /\ more[p] = b[p - m])
  <2>1. p \in 1 .. m \/ (p - m \in 1 .. Len(b) /\ m + (p - m) = p)
    BY <1>2
  <2> QED
    BY <1>2, <2>1
<1> HIDE DEF more, b
<1>4. \A p \in DOMAIN more : \E s \in 1 .. k + 1 : \E o \in DOMAIN blocks[s] :
        more[p] = blocks[s][o]
  <2> SUFFICES ASSUME NEW p \in DOMAIN more
               PROVE  \E s \in 1 .. k + 1 : \E o \in DOMAIN blocks[s] :
                        more[p] = blocks[s][o]
    OBVIOUS
  <2>1. CASE p \in DOMAIN seq
    <3>1. \E s \in 1 .. k : \E o \in DOMAIN blocks[s] : seq[p] = blocks[s][o]
      BY <2>1 DEF HoldsBlocks
    <3> QED
      BY <1>1, <1>2, <2>1, <3>1
  <2>2. CASE p \notin DOMAIN seq
    <3>1. p - m \in DOMAIN blocks[k + 1] /\ more[p] = blocks[k + 1][p - m]
      BY <1>3, <2>2 DEF b
    <3> QED
      BY <1>1, <3>1
  <2> QED
    BY <2>1, <2>2
<1>5. \A s \in 1 .. k + 1 : \A o \in DOMAIN blocks[s] : \E p \in DOMAIN more :
        more[p] = blocks[s][o]
  <2> SUFFICES ASSUME NEW s \in 1 .. k + 1, NEW o \in DOMAIN blocks[s]
               PROVE  \E p \in DOMAIN more : more[p] = blocks[s][o]
    OBVIOUS
  <2>1. CASE s \in 1 .. k
    <3>1. PICK p \in DOMAIN seq : seq[p] = blocks[s][o]
      BY <2>1 DEF HoldsBlocks
    <3>2. p \in DOMAIN more /\ more[p] = seq[p]
      BY <1>2
    <3> QED
      BY <3>1, <3>2
  <2>2. CASE s = k + 1
    <3>1. m + o \in DOMAIN more /\ more[m + o] = b[o]
      <4>1. o \in DOMAIN b
        BY <2>2 DEF b
      <4>2. o \in 1 .. Len(b)
        BY <1>2, <4>1
      <4>3. m + o \in 1 .. m + Len(b)
        BY <1>2, <4>2
      <4> QED
        BY <1>2, <4>2, <4>3
    <3> QED
      BY <2>2, <3>1 DEF b
  <2> QED
    BY <1>1, <2>1, <2>2
<1>6. ASSUME KeyedBlocks(blocks)
      PROVE  KeyedSeq(more)
  <2> SUFFICES ASSUME NEW p \in DOMAIN more, NEW q \in DOMAIN more,
                      more[p][1] = more[q][1]
               PROVE  p = q
    BY DEF KeyedSeq
  <2>1. ASSUME NEW x \in DOMAIN seq, NEW y \in DOMAIN more, y \notin DOMAIN seq
        PROVE  more[x][1] # more[y][1]
    <3>1. PICK s \in 1 .. k : \E o \in DOMAIN blocks[s] : seq[x] = blocks[s][o]
      BY DEF HoldsBlocks
    <3>2. more[x] = seq[x] /\ y - m \in DOMAIN b /\ more[y] = b[y - m]
      BY <1>2, <1>3, <2>1
    <3> QED
      BY <1>1, <1>6, <3>1, <3>2 DEF KeyedBlocks, b
  <2>2. CASE p \in DOMAIN seq /\ q \in DOMAIN seq
    BY <1>2, <1>6, <2>2 DEF HoldsBlocks, KeyedSeq
  <2>3. CASE p \notin DOMAIN seq /\ q \notin DOMAIN seq
    <3>1. /\ p - m \in DOMAIN b /\ more[p] = b[p - m]
          /\ q - m \in DOMAIN b /\ more[q] = b[q - m]
      BY <1>3, <2>3
    <3>2. p - m = q - m
      BY <1>1, <1>6, <3>1 DEF KeyedBlocks, b
    <3> QED
      BY <1>2, <3>2
  <2> QED
    BY <2>1, <2>2, <2>3
<1> QED
  BY <1>2, <1>4, <1>5, <1>6 DEF HoldsBlocks, b, more

(* All the values of all the blocks, none twice.                           *)
LEMMA FlatHolds ==
  ASSUME NEW V, NEW blocks \in Seq(Seq(V))
  PROVE  HoldsBlocks(V, FlattenSeq(blocks), blocks, Len(blocks))
<1> DEFINE n == Len(blocks)
<1>1. n \in Nat
  OBVIOUS
<1>2. CASE blocks = <<>>
  <2>1. FlattenSeq(blocks) = <<>> /\ n = 0
    BY <1>2, Flattens
  <2> QED
    BY <2>1 DEF HoldsBlocks, KeyedSeq
<1>3. CASE blocks # <<>>
  <2>1. n >= 1
    BY <1>3
  <2>2. PICK f : Joins(blocks, n, f) /\ FlattenSeq(blocks) = f[n]
    BY <1>3, Flattens
  <2>3. \A i \in 1 .. n : f[i] = IF i = 1 THEN blocks[i] ELSE f[i - 1] \o blocks[i]
    BY <2>2 DEF Joins
  <2> DEFINE Bad == { i \in Nat : i \in 1 .. n /\ ~HoldsBlocks(V, f[i], blocks, i) }
  <2>4. ASSUME n \in Bad PROVE FALSE
    <3>1. Bad \subseteq Nat /\ Bad # {}
      BY <2>4
    <3> HIDE DEF Bad
    <3>2. PICK i \in Bad : \A j \in Bad : i <= j
      BY <3>1, LeastNatural
    <3> USE DEF Bad
    <3>3. i \in 1 .. n /\ ~HoldsBlocks(V, f[i], blocks, i)
      BY <3>2
    <3>4. CASE i = 1
      <4>1. f[1] = blocks[1] /\ blocks[1] \in Seq(V) /\ 1 \in DOMAIN blocks
        BY <2>1, <2>3
      <4>2. KeyedBlocks(blocks) => KeyedSeq(f[1])
        BY <4>1 DEF KeyedBlocks, KeyedSeq
      <4>3. \A s \in 1 .. 1 : s = 1
        OBVIOUS
      <4>4. 1 \in 1 .. 1
        OBVIOUS
      <4>5. HoldsBlocks(V, f[1], blocks, 1)
        BY <4>1, <4>2, <4>3, <4>4 DEF HoldsBlocks
      <4> QED
        BY <3>3, <3>4, <4>5
    <3>5. CASE i # 1
      <4>1. i - 1 \in 1 .. n - 1 /\ i - 1 \in 1 .. n /\ (i - 1) + 1 = i /\ ~ (i <= i - 1)
        BY <1>1, <3>3, <3>5
      <4>2. HoldsBlocks(V, f[i - 1], blocks, i - 1)
        BY <3>2, <4>1
      <4>3. HoldsBlocks(V, f[i - 1] \o blocks[i], blocks, i)
        <5> DEFINE j == i - 1
        <5>1. j \in 1 .. Len(blocks) - 1 /\ j + 1 = i
          BY <4>1
        <5> HIDE DEF j
        <5>2. HoldsBlocks(V, f[j], blocks, j)
          BY <4>2 DEF j
        <5>3. HoldsBlocks(V, f[j] \o blocks[j + 1], blocks, j + 1)
          BY <5>1, <5>2, OneBlockMore
        <5> QED
          BY <5>1, <5>3 DEF j
      <4> QED
        BY <2>3, <3>3, <3>5, <4>3
    <3> QED
      BY <3>4, <3>5
  <2> QED
    BY <2>1, <2>2, <2>4
<1> QED
  BY <1>2, <1>3

(* The sum of the sizes that the file gives, over the arrays in s.         *)
Tallies(arrays, n, g) ==
  g = [s \in SUBSET (1 .. n) |->
         IF s = {} THEN 0 ELSE g[s \ {Max(s)}] + arrays[Max(s)].size]

(* The greatest of a set of numbers up to one of them.                     *)
LEMMA MaxIs ==
  ASSUME NEW m \in Nat, NEW s \in SUBSET (1 .. m), m \in s
  PROVE  Max(s) = m
<1>1. \A y \in s : m >= y
  OBVIOUS
<1>2. \E x \in s : \A y \in s : x >= y
  BY <1>1
<1>3. Max(s) \in s /\ \A y \in s : Max(s) >= y
  <2> DEFINE P(x) == x \in s /\ \A y \in s : x >= y
  <2>1. \E x : P(x)
    BY <1>2
  <2>2. Max(s) = CHOOSE x : P(x)
    BY DEF Max
  <2> HIDE DEF P
  <2>3. P(Max(s))
    BY <2>1, <2>2
  <2> QED
    BY <2>3 DEF P
<1>4. Max(s) >= m /\ m >= Max(s) /\ Max(s) \in 1 .. m
  BY <1>1, <1>3
<1> DEFINE x == Max(s)
<1> HIDE DEF x
<1>5. x >= m /\ m >= x /\ x \in 1 .. m
  BY <1>4 DEF x
<1>6. x = m
  BY <1>5
<1> QED
  BY <1>6 DEF x

(* There is such a function.                                               *)
LEMMA TallyExists ==
  ASSUME NEW arrays, NEW n \in Nat
  PROVE  \E g : Tallies(arrays, n, g)
<1> DEFINE Bad == { k \in Nat : ~ \E g : Tallies(arrays, k, g) }
<1> SUFFICES ASSUME n \in Bad PROVE FALSE
  OBVIOUS
<1>1. PICK m \in Bad : \A k \in Bad : m <= k
  <2>1. Bad \subseteq Nat /\ Bad # {}
    OBVIOUS
  <2> HIDE DEF Bad
  <2> QED
    BY <2>1, LeastNatural
<1>2. m \in Nat /\ ~ \E g : Tallies(arrays, m, g)
  OBVIOUS
<1>3. m # 0
  <2> SUFFICES ASSUME m = 0 PROVE FALSE
    OBVIOUS
  <2> DEFINE g == [s \in SUBSET (1 .. 0) |-> 0]
             h == [s \in SUBSET (1 .. 0) |->
                     IF s = {} THEN 0 ELSE g[s \ {Max(s)}] + arrays[Max(s)].size]
  <2>1. \A s \in SUBSET (1 .. 0) : s = {}
    OBVIOUS
  <2>2. g = h
    BY <2>1
  <2>3. Tallies(arrays, 0, g)
    BY <2>2 DEF Tallies
  <2> QED
    BY <1>2, <2>3
<1>4. m - 1 \in Nat /\ m - 1 \notin Bad
  BY <1>1, <1>2, <1>3
<1>5. PICK f : Tallies(arrays, m - 1, f)
  BY <1>4
<1> DEFINE g == [s \in SUBSET (1 .. m) |->
                   IF m \in s THEN f[s \ {m}] + arrays[m].size ELSE f[s]]
           h == [s \in SUBSET (1 .. m) |->
                   IF s = {} THEN 0 ELSE g[s \ {Max(s)}] + arrays[Max(s)].size]
<1>6. ASSUME NEW s \in SUBSET (1 .. m)
      PROVE  g[s] = h[s]
  <2>1. CASE m \in s
    <3>1. Max(s) = m
      BY <1>2, <2>1, MaxIs
    <3>2. s \ {m} \in SUBSET (1 .. m) /\ m \notin s \ {m} /\ s # {}
      BY <2>1
    <3>3. g[s \ {m}] = f[s \ {m}]
      BY <3>2
    <3>4. h[s] = g[s \ {m}] + arrays[m].size
      BY <3>1, <3>2
    <3> QED
      BY <2>1, <3>3, <3>4
  <2>2. CASE m \notin s
    <3>1. s \in SUBSET (1 .. m - 1) /\ g[s] = f[s]
      BY <1>2, <2>2
    <3>2. f[s] = IF s = {} THEN 0 ELSE f[s \ {Max(s)}] + arrays[Max(s)].size
      BY <1>5, <3>1 DEF Tallies
    <3> DEFINE r == s \ {Max(s)}
    <3>3. r \in SUBSET (1 .. m) /\ m \notin r
      BY <2>2
    <3>4. g[r] = f[r]
      BY <3>3
    <3> HIDE DEF g, r
    <3>5. h[s] = IF s = {} THEN 0 ELSE g[r] + arrays[Max(s)].size
      BY DEF r
    <3> QED
      BY <3>1, <3>2, <3>4, <3>5 DEF r
  <2> QED
    BY <2>1, <2>2
<1>7. g = h
  <2>1. g = [s \in SUBSET (1 .. m) |-> g[s]] /\ h = [s \in SUBSET (1 .. m) |-> h[s]]
    OBVIOUS
  <2> HIDE DEF g, h
  <2> QED
    BY <1>6, <2>1
<1>8. Tallies(arrays, m, g)
  BY <1>7 DEF Tallies
<1> QED
  BY <1>2, <1>8

(* What the read adds up.                                                  *)
LEMMA SumTallies ==
  ASSUME NEW V, NEW f, f.arrays \in Seq(V)
  PROVE  \E g : Tallies(f.arrays, Len(f.arrays), g)
                /\ PresentCount(f) = g[1 .. Len(f.arrays)]
<1> DEFINE n == Len(f.arrays)
           g == CHOOSE h : Tallies(f.arrays, n, h)
<1>1. n \in Nat /\ DOMAIN f.arrays = 1 .. n
  OBVIOUS
<1>2. Tallies(f.arrays, n, g)
  BY <1>1, TallyExists
<1>3. PresentCount(f) = g[1 .. n]
  <2>1. g = CHOOSE h : h = [s \in SUBSET (1 .. n) |->
              IF s = {} THEN 0 ELSE h[s \ {Max(s)}] + f.arrays[Max(s)].size]
    BY DEF Tallies
  <2>2. PresentCount(f) =
          (CHOOSE h : h = [s \in SUBSET DOMAIN f.arrays |->
              IF s = {} THEN 0 ELSE h[s \ {Max(s)}] + f.arrays[Max(s)].size])[DOMAIN f.arrays]
    BY DEF PresentCount, FoldLeft, MapThenFoldSet
  <2> HIDE DEF g, n
  <2> QED
    BY <1>1, <2>1, <2>2
<1> HIDE DEF g
<1> QED
  BY <1>2, <1>3

WrittenArrays(V) ==
  [size : Nat, array : [values : Seq(V), bitmap_vals : SUBSET Indices,
                        bitmap_deleted_vals : SUBSET Indices]]

Blocks(f) == [s \in DOMAIN f.arrays |-> f.arrays[s].array.values]

(* The blocks of a file.                                                   *)
LEMMA BlocksOK ==
  ASSUME NEW V, NEW f, f.arrays \in Seq(WrittenArrays(V))
  PROVE  /\ Blocks(f) \in Seq(Seq(V)) /\ Len(Blocks(f)) = Len(f.arrays)
         /\ Len(f.arrays) \in Nat /\ DOMAIN Blocks(f) = 1 .. Len(f.arrays)
         /\ DOMAIN f.arrays = 1 .. Len(f.arrays)
         /\ \A s \in 1 .. Len(f.arrays) :
              f.arrays[s] \in WrittenArrays(V) /\ Blocks(f)[s] = f.arrays[s].array.values
         /\ FileValues(f) = FlattenSeq(Blocks(f))
<1> DEFINE n == Len(f.arrays)
<1>1. /\ n \in Nat /\ DOMAIN f.arrays = 1 .. n
      /\ \A s \in 1 .. n : f.arrays[s] \in WrittenArrays(V)
  OBVIOUS
<1> HIDE DEF n
<1>2. \A s \in 1 .. n : f.arrays[s].array.values \in Seq(V)
  BY <1>1 DEF WrittenArrays
<1>3. Blocks(f) = [s \in 1 .. n |-> f.arrays[s].array.values]
  BY <1>1 DEF Blocks
<1>4. Blocks(f) \in Seq(Seq(V)) /\ Len(Blocks(f)) = n
  BY <1>1, <1>2, <1>3
<1>5. FileValues(f) = FlattenSeq(Blocks(f))
  BY DEF FileValues, Blocks
<1> QED
  BY <1>1, <1>3, <1>4, <1>5 DEF n

(* If every array of a file has the size it says, the sizes add up to the  *)
(* number of values.                                                       *)
LEMMA SizesAddUp ==
  ASSUME NEW V, NEW f, f.arrays \in Seq(WrittenArrays(V)),
         \A s \in DOMAIN f.arrays : f.arrays[s].size = Len(f.arrays[s].array.values)
  PROVE  PresentCount(f) = Len(FileValues(f))
<1> DEFINE n == Len(f.arrays)
           blocks == Blocks(f)
<1>1. /\ n \in Nat /\ DOMAIN f.arrays = 1 .. n
      /\ \A s \in 1 .. n : f.arrays[s].size = Len(blocks[s])
  BY BlocksOK
<1>2. blocks \in Seq(Seq(V)) /\ Len(blocks) = n /\ \A s \in 1 .. n : blocks[s] \in Seq(V)
  <2>1. blocks \in Seq(Seq(V)) /\ Len(blocks) = n
    BY BlocksOK
  <2> HIDE DEF blocks, n
  <2> QED
    BY <2>1
<1>3. PICK g : Tallies(f.arrays, n, g) /\ PresentCount(f) = g[1 .. n]
  BY SumTallies
<1> HIDE DEF n
<1>4. \A s \in SUBSET (1 .. n) :
        g[s] = IF s = {} THEN 0 ELSE g[s \ {Max(s)}] + f.arrays[Max(s)].size
  BY <1>3 DEF Tallies
<1>5. g[{}] = 0
  BY <1>4
<1>6. ASSUME NEW i \in 1 .. n
      PROVE  g[1 .. i] = g[1 .. i - 1] + Len(blocks[i])
  <2>1. 1 .. i \in SUBSET (1 .. n) /\ 1 .. i # {} /\ (1 .. i) \ {i} = 1 .. i - 1
    <3> HIDE DEF n, blocks
    <3>1. i \in Nat /\ 1 <= i /\ i <= n
      BY <1>1
    <3>2. i \in 1 .. i
      BY <3>1
    <3>3. (1 .. i) \ {i} = 1 .. i - 1
      BY <3>1
    <3>4. 1 .. i \subseteq 1 .. n
      BY <1>1, <3>1
    <3> QED
      BY <3>2, <3>3, <3>4
  <2>2. Max(1 .. i) = i
    <3>1. i \in Nat /\ i \in 1 .. i
      BY <1>1
    <3> QED
      BY <3>1, MaxIs
  <2>3. f.arrays[i].size = Len(blocks[i])
    BY <1>1
  <2> HIDE DEF blocks, n
  <2> QED
    BY <1>4, <2>1, <2>2, <2>3
<1>7. FileValues(f) = FlattenSeq(blocks)
  BY BlocksOK
<1> HIDE DEF blocks, n
<1>8. CASE n = 0
  <2>1. blocks = <<>> /\ 1 .. n = {}
    BY <1>2, <1>8
  <2>2. FlattenSeq(blocks) = <<>>
    BY <1>2, <2>1, Flattens
  <2>3. g[1 .. n] = 0
    <3>1. 1 .. n = {}
      BY <2>1
    <3> HIDE DEF blocks, n
    <3> QED
      BY <1>5, <3>1
  <2>4. Len(FileValues(f)) = 0
    BY <1>7, <2>2
  <2> QED
    BY <1>3, <2>3, <2>4
<1>9. CASE n # 0
  <2>1. PICK j : Joins(blocks, n, j) /\ FlattenSeq(blocks) = j[n]
    BY <1>2, <1>9, Flattens
  <2>2. \A i \in 1 .. n : j[i] = IF i = 1 THEN blocks[i] ELSE j[i - 1] \o blocks[i]
    BY <2>1 DEF Joins
  <2> DEFINE Right(i) == j[i] \in Seq(V) /\ g[1 .. i] = Len(j[i])
             Bad == { i \in Nat : i \in 1 .. n /\ ~Right(i) }
  <2>3. ASSUME n \in Bad PROVE FALSE
    <3>1. Bad \subseteq Nat /\ Bad # {}
      BY <2>3
    <3> HIDE DEF Bad
    <3>2. PICK i \in Bad : \A k \in Bad : i <= k
      BY <3>1, LeastNatural
    <3> USE DEF Bad
    <3> HIDE DEF Right
    <3>3. i \in 1 .. n /\ ~Right(i)
      BY <3>2
    <3>4. blocks[i] \in Seq(V) /\ g[1 .. i] = g[1 .. i - 1] + Len(blocks[i])
      BY <1>1, <1>2, <1>6, <3>3
    <3>5. CASE i = 1
      <4>1. 1 .. i - 1 = {} /\ j[i] = blocks[i]
        BY <2>2, <3>3, <3>5
      <4> QED
        BY <1>5, <3>3, <3>4, <4>1 DEF Right
    <3>6. CASE i # 1
      <4>1. i - 1 \in Nat /\ i - 1 \in 1 .. n /\ ~ (i <= i - 1)
        BY <1>1, <3>3, <3>6
      <4>2. Right(i - 1)
        BY <3>2, <4>1
      <4>3. j[i] = j[i - 1] \o blocks[i]
        BY <2>2, <3>3, <3>6
      <4> QED
        BY <3>3, <3>4, <4>2, <4>3 DEF Right
    <3> QED
      BY <3>5, <3>6
  <2>4. n \in 1 .. n
    BY <1>1, <1>9
  <2>5. Right(n)
    BY <1>1, <2>3, <2>4
  <2>6. g[1 .. n] = Len(FlattenSeq(blocks))
    BY <2>1, <2>5
  <2> QED
    BY <1>3, <1>7, <2>6
<1> QED
  BY <1>8, <1>9

-----------------------------------------------------------------------------
(* What is written of a table. *)

(* The offset of a slot depends on the bitmap of values alone.             *)
LEMMA OffsetsByBitmap ==
  ASSUME NEW a, NEW b, a.bitmap_vals = b.bitmap_vals
  PROVE  /\ \A j : IndexToOffset(a, j) = IndexToOffset(b, j)
         /\ \A off : OffsetToIndex(a, off) = OffsetToIndex(b, off)
BY DEF IndexToOffset, OffsetToIndex

(* An array is written with its values in the order of their slots.        *)
LEMMA WrittenArrayOK ==
  ASSUME bucket_count \in Nat, sparse_buckets \in Table(bucket_count), NEW s \in Nat
  PROVE  LET a == WrittenArray(s).array IN
         /\ WrittenArray(s) \in WrittenArrays(Pair) /\ a \in PackedOver(Pair)
         /\ WrittenArray(s).size = Len(a.values)
         /\ a.bitmap_vals = { b \in InArray(s) : CellOf(s, b) \notin {Empty, Deleted} }
         /\ a.bitmap_deleted_vals = { b \in InArray(s) : CellOf(s, b) = Deleted }
         /\ \A o \in 1 .. Len(a.values) : a.values[o] = CellOf(s, OffsetToIndex(a, o - 1))
<1> DEFINE vals == { b \in InArray(s) : CellOf(s, b) \notin {Empty, Deleted} }
           gone == { b \in InArray(s) : CellOf(s, b) = Deleted }
           bare == FromParts(vals, gone, <<>>)
           m == Cardinality(vals)
           packed == [p \in 1 .. m |-> CellOf(s, OffsetToIndex(bare, p - 1))]
           a == FromParts(vals, gone, packed)
           zero == FromParts(vals, gone, [p \in 1 .. m |-> 0])
<1>1. InArray(s) \subseteq Indices
  BY DEF InArray, Indices
<1>2. vals \in SUBSET Indices /\ gone \in SUBSET Indices /\ vals \cap gone = {}
  BY <1>1
<1>3. WrittenArray(s) = [size |-> m, array |-> a]
  BY DEF WrittenArray
<1>4. \A b \in vals : s * Bits + b \in 0 .. bucket_count - 1 /\ CellOf(s, b) \in Pair
  <2> SUFFICES ASSUME NEW b \in vals
               PROVE  s * Bits + b \in 0 .. bucket_count - 1 /\ CellOf(s, b) \in Pair
    OBVIOUS
  <2>1. s * Bits + b \in Nat
    BY <1>2, SlotNumber
  <2>2. s * Bits + b < bucket_count
    BY DEF InArray
  <2>3. s * Bits + b \in 0 .. bucket_count - 1
    BY <2>1, <2>2
  <2>4. sparse_buckets[s * Bits + b] \in Slot
    BY <2>3 DEF Table
  <2> QED
    BY <2>3, <2>4 DEF Slot, CellOf
<1> HIDE DEF vals, gone
<1>5. m \in Nat
  BY <1>2, Bitmap
<1>6. zero \in PackedOver({0}) /\ zero.values = [p \in 1 .. m |-> 0]
  <2> DEFINE z == [p \in 1 .. m |-> 0]
  <2>1. z \in Seq({0}) /\ Len(z) = m
    BY <1>5
  <2> HIDE DEF z, m
  <2>2. FromParts(vals, gone, z) \in PackedOver({0})
    BY <1>2, <2>1 DEF PackedOver, FromParts, m
  <2> QED
    BY <2>2 DEF z, m, FromParts
<1>7. \A p \in 1 .. m : OffsetToIndex(bare, p - 1) \in vals
  <2> SUFFICES ASSUME NEW p \in 1 .. m
               PROVE  OffsetToIndex(bare, p - 1) \in vals
    OBVIOUS
  <2>1. Len(zero.values) = m /\ p - 1 \in 0 .. m - 1
    BY <1>5, <1>6
  <2>2. OffsetToIndex(zero, p - 1) \in zero.bitmap_vals
    BY <1>6, <2>1, Offsets
  <2>3. zero.bitmap_vals = vals /\ bare.bitmap_vals = vals
    BY DEF FromParts
  <2> QED
    BY <2>2, <2>3, OffsetsByBitmap
<1>8. packed \in Seq(Pair) /\ Len(packed) = m
  <2>1. \A p \in 1 .. m : CellOf(s, OffsetToIndex(bare, p - 1)) \in Pair
    BY <1>4, <1>7
  <2> HIDE DEF m, bare
  <2> QED
    BY <1>5, <2>1
<1>9. \A o \in 1 .. m : packed[o] = CellOf(s, OffsetToIndex(a, o - 1))
  <2>1. a.bitmap_vals = bare.bitmap_vals
    BY DEF FromParts
  <2> QED
    BY <2>1, OffsetsByBitmap
<1> HIDE DEF packed
<1>10. a \in PackedOver(Pair) /\ a.values = packed
  <2>1. Len(packed) = Cardinality(vals)
    BY <1>8
  <2>2. a = [values |-> packed, bitmap_vals |-> vals, bitmap_deleted_vals |-> gone]
    BY DEF FromParts
  <2> HIDE DEF a, m
  <2> QED
    BY <1>2, <1>8, <2>1, <2>2 DEF PackedOver
<1>11. a.bitmap_vals = vals /\ a.bitmap_deleted_vals = gone
  BY DEF FromParts
<1> HIDE DEF a, m
<1>12. WrittenArray(s) \in WrittenArrays(Pair)
  BY <1>3, <1>5, <1>10 DEF WrittenArrays, PackedOver
<1> QED
  BY <1>3, <1>8, <1>9, <1>10, <1>11, <1>12 DEF vals, gone

(* A value in an array has a slot of its own, and every value its place.   *)
LEMMA WrittenSlots ==
  ASSUME bucket_count \in Nat, sparse_buckets \in Table(bucket_count), NEW s \in Nat
  PROVE  LET a == WrittenArray(s).array IN
         /\ \A o \in DOMAIN a.values : \E b \in Indices :
              /\ s * Bits + b \in Occupied(sparse_buckets)
              /\ a.values[o] = sparse_buckets[s * Bits + b]
              /\ IndexToOffset(a, b) = o - 1
         /\ \A b \in InArray(s) : Report(a, b, Empty, Deleted) = CellOf(s, b)
         /\ \A b \in InArray(s) : s * Bits + b \in Occupied(sparse_buckets) =>
              \E o \in DOMAIN a.values : a.values[o] = sparse_buckets[s * Bits + b]
<1> DEFINE a == WrittenArray(s).array
<1>1. /\ a \in PackedOver(Pair)
      /\ a.bitmap_vals = { b \in InArray(s) : CellOf(s, b) \notin {Empty, Deleted} }
      /\ a.bitmap_deleted_vals = { b \in InArray(s) : CellOf(s, b) = Deleted }
      /\ \A o \in 1 .. Len(a.values) : a.values[o] = CellOf(s, OffsetToIndex(a, o - 1))
  BY WrittenArrayOK
<1> HIDE DEF a
<1>2. InArray(s) \subseteq Indices
  BY DEF InArray, Indices
<1>3. \A b \in InArray(s) : s * Bits + b \in 0 .. bucket_count - 1
  BY <1>2, SlotNumber DEF InArray
<1>4. DOMAIN sparse_buckets = 0 .. bucket_count - 1
  BY DEF Table
<1>5. \A b \in a.bitmap_vals : s * Bits + b \in Occupied(sparse_buckets)
  BY <1>1, <1>3, <1>4 DEF Occupied, CellOf
<1>6. Len(a.values) \in Nat /\ DOMAIN a.values = 1 .. Len(a.values)
  BY <1>1 DEF PackedOver
<1>7. ASSUME NEW o \in DOMAIN a.values
      PROVE  /\ OffsetToIndex(a, o - 1) \in a.bitmap_vals
             /\ IndexToOffset(a, OffsetToIndex(a, o - 1)) = o - 1
             /\ a.values[o] = sparse_buckets[s * Bits + OffsetToIndex(a, o - 1)]
  <2>1. o - 1 \in 0 .. Len(a.values) - 1 /\ o \in 1 .. Len(a.values)
    BY <1>6
  <2>2. /\ OffsetToIndex(a, o - 1) \in a.bitmap_vals
        /\ IndexToOffset(a, OffsetToIndex(a, o - 1)) = o - 1
    BY <1>1, <2>1, Offsets
  <2> QED
    BY <1>1, <2>1, <2>2 DEF CellOf
<1>8. ASSUME NEW b \in a.bitmap_vals
      PROVE  /\ IndexToOffset(a, b) + 1 \in DOMAIN a.values
             /\ a.values[IndexToOffset(a, b) + 1] = CellOf(s, b)
  <2> DEFINE off == IndexToOffset(a, b)
  <2>1. off \in 0 .. Len(a.values) - 1
    BY <1>1, Offsets
  <2> HIDE DEF off
  <2>2. off + 1 \in DOMAIN a.values /\ (off + 1) - 1 = off
    BY <1>6, <2>1
  <2>3. OffsetToIndex(a, off) \in a.bitmap_vals /\ IndexToOffset(a, OffsetToIndex(a, off)) = off
    BY <1>1, <2>1, Offsets
  <2>4. OffsetToIndex(a, off) = b
    BY <1>1, <2>3, Offsets DEF off
  <2>5. a.values[off + 1] = CellOf(s, OffsetToIndex(a, (off + 1) - 1))
    BY <1>7, <2>2 DEF CellOf
  <2> QED
    BY <2>2, <2>4, <2>5 DEF off
<1>9. ASSUME NEW o \in DOMAIN a.values
      PROVE  \E b \in Indices :
               /\ s * Bits + b \in Occupied(sparse_buckets)
               /\ a.values[o] = sparse_buckets[s * Bits + b]
               /\ IndexToOffset(a, b) = o - 1
  <2> DEFINE b == OffsetToIndex(a, o - 1)
  <2>1. b \in a.bitmap_vals /\ IndexToOffset(a, b) = o - 1
        /\ a.values[o] = sparse_buckets[s * Bits + b]
    BY <1>7
  <2>2. b \in Indices
    BY <1>1, <1>2, <2>1
  <2> QED
    BY <1>5, <2>1, <2>2
<1>10. ASSUME NEW b \in InArray(s)
       PROVE  Report(a, b, Empty, Deleted) = CellOf(s, b)
  <2>1. CASE b \in a.bitmap_vals
    BY <1>8, <2>1 DEF Report, HasValue, Dense
  <2>2. CASE b \notin a.bitmap_vals
    <3>1. CellOf(s, b) \in {Empty, Deleted}
      BY <1>1, <2>2
    <3> QED
      BY <1>1, <2>2, <3>1 DEF Report, HasValue, HasDeletedValue
  <2> QED
    BY <2>1, <2>2
<1>11. ASSUME NEW b \in InArray(s), s * Bits + b \in Occupied(sparse_buckets)
       PROVE  \E o \in DOMAIN a.values : a.values[o] = sparse_buckets[s * Bits + b]
  <2>1. b \in a.bitmap_vals
    BY <1>1, <1>11 DEF Occupied, CellOf
  <2> QED
    BY <1>8, <2>1 DEF CellOf
<1> QED
  BY <1>9, <1>10, <1>11 DEF a

(* A table at rest: it may have lost its arrays, but nothing else.         *)
InOrder(t, n, elements, deleted) ==
  /\ n \in SettledCounts /\ elements \in Nat /\ deleted \in Nat
  /\ n = 0 => elements = 0 /\ deleted = 0
  /\ \/ t = NoArrays
     \/ /\ t \in Table(n) /\ Findable(t, n) /\ KeysApart(t)
        /\ elements = Cardinality(Occupied(t)) /\ deleted = Cardinality(Tombstones(t))
        /\ \E i \in DOMAIN t : t[i] = Empty

(* What a hash-compatible read makes of a file.                            *)
Restored(f) ==
  [i \in 0 .. f.bucket_count - 1 |->
     Report(f.arrays[SparseBucket(i) + 1].array, IndexIn(i), Empty, Deleted)]

TableOf(f) == IF f.arrays = <<>> THEN NoArrays ELSE Restored(f)

(* Whatever its header says, a file has pairs of a key and a value, and    *)
(* every key once.                                                         *)
SoundFile(f) ==
  /\ f.arrays \in Seq(WrittenArrays(Pair))
  /\ f.nb_elements \in Nat /\ f.load \in Nat
  /\ KeyedSeq(FileValues(f))

FileRecords ==
  [version : Nat, bucket_count : Nat, nb_sparse : Nat, nb_elements : Nat,
   nb_deleted : Nat, load : Nat, arrays : Seq(WrittenArrays(Pair))]

(* A file as serialize writes it.                                          *)
OwnFile(f) ==
  /\ f \in FileRecords /\ f.nb_sparse = Len(f.arrays) /\ f.load \in 1 .. 8
  /\ \A s \in DOMAIN f.arrays :
       /\ f.arrays[s].array \in PackedOver(Pair)
       /\ f.arrays[s].size = Len(f.arrays[s].array.values)
  /\ InOrder(TableOf(f), f.bucket_count, f.nb_elements, f.nb_deleted)
  /\ FileEntries(f) = HeldIn(TableOf(f))

(* The values of a file are those of its arrays.                           *)
LEMMA FileValuesOK ==
  ASSUME NEW f, f.arrays \in Seq(WrittenArrays(Pair))
  PROVE  /\ FileValues(f) \in Seq(Pair)
         /\ \A e : e \in FileEntries(f) <=>
              \E s \in DOMAIN f.arrays : \E o \in DOMAIN f.arrays[s].array.values :
                e = f.arrays[s].array.values[o]
         /\ KeyedBlocks(Blocks(f)) => KeyedSeq(FileValues(f))
<1>1. /\ Blocks(f) \in Seq(Seq(Pair)) /\ DOMAIN f.arrays = 1 .. Len(f.arrays)
      /\ FileValues(f) = FlattenSeq(Blocks(f)) /\ Len(Blocks(f)) = Len(f.arrays)
      /\ \A s \in 1 .. Len(f.arrays) : Blocks(f)[s] = f.arrays[s].array.values
  BY BlocksOK
<1>2. HoldsBlocks(Pair, FileValues(f), Blocks(f), Len(f.arrays))
  BY <1>1, FlatHolds
<1> DEFINE n == Len(f.arrays)
           seq == FileValues(f)
<1>3. /\ \A p \in DOMAIN seq : \E s \in 1 .. n : \E o \in DOMAIN Blocks(f)[s] :
            seq[p] = Blocks(f)[s][o]
      /\ \A s \in 1 .. n : \A o \in DOMAIN Blocks(f)[s] : \E p \in DOMAIN seq :
            seq[p] = Blocks(f)[s][o]
  BY <1>2 DEF HoldsBlocks
<1>4. \A e : e \in FileEntries(f) <=> \E p \in DOMAIN seq : e = seq[p]
  BY DEF FileEntries
<1> HIDE DEF n, seq
<1>5. ASSUME NEW e \in FileEntries(f)
      PROVE  \E s \in DOMAIN f.arrays : \E o \in DOMAIN f.arrays[s].array.values :
               e = f.arrays[s].array.values[o]
  <2>1. PICK p \in DOMAIN seq : e = seq[p]
    BY <1>4
  <2>2. PICK s \in 1 .. n : \E o \in DOMAIN Blocks(f)[s] : seq[p] = Blocks(f)[s][o]
    BY <1>3
  <2>3. s \in DOMAIN f.arrays /\ Blocks(f)[s] = f.arrays[s].array.values
    BY <1>1 DEF n
  <2> QED
    BY <2>1, <2>2, <2>3
<1>6. ASSUME NEW s \in DOMAIN f.arrays, NEW o \in DOMAIN f.arrays[s].array.values
      PROVE  f.arrays[s].array.values[o] \in FileEntries(f)
  <2>1. s \in 1 .. n /\ Blocks(f)[s] = f.arrays[s].array.values
    BY <1>1 DEF n
  <2>2. PICK p \in DOMAIN seq : seq[p] = Blocks(f)[s][o]
    BY <1>3, <2>1
  <2> QED
    BY <1>4, <2>1, <2>2
<1> QED
  BY <1>2, <1>5, <1>6 DEF HoldsBlocks

(* Between two calls the table is in order.                                *)
LEMMA RestInOrder ==
  ASSUME RoomInv, ~Rehashing
  PROVE  InOrder(sparse_buckets, bucket_count, nb_elements, nb_deleted_buckets)
<1>1. /\ bucket_count \in SettledCounts /\ bucket_count \in Nat
      /\ nb_elements \in Nat /\ nb_deleted_buckets \in Nat
      /\ sparse_buckets \in Table(bucket_count) \/ sparse_buckets = NoArrays
      /\ bucket_count = 0 => nb_elements = 0 /\ nb_deleted_buckets = 0
  BY SizesAreNat DEF RoomInv, KeyInv, ProbeInv, Inv, TypeOK, TypesOK, CountersAgree
<1>2. KeysApart(sparse_buckets) /\ Findable(sparse_buckets, bucket_count)
  BY AtRest DEF RoomInv, KeyInv, ProbeInv, EveryValueFindable
<1>3. sparse_buckets # NoArrays =>
        /\ nb_elements = Cardinality(Occupied(sparse_buckets))
        /\ nb_deleted_buckets = Cardinality(Tombstones(sparse_buckets))
        /\ \E i \in DOMAIN sparse_buckets : sparse_buckets[i] = Empty
  BY DEF RoomInv, KeyInv, ProbeInv, Inv, CountersAgree, OwnRoom, Torn
<1> QED
  BY <1>1, <1>2, <1>3 DEF InOrder

(* The arrays of a file cover its table.                                   *)
LEMMA ArraysCover ==
  ASSUME NEW n \in 0 .. MaxBucketCount
  PROVE  /\ NbSparseBuckets(n) \in Nat /\ (n > 0 => NbSparseBuckets(n) > 0)
         /\ \A i \in 0 .. n - 1 :
              SparseBucket(i) \in 0 .. NbSparseBuckets(n) - 1 /\ IndexIn(i) \in Indices
<1>1. MaxBucketCount \in Nat /\ Bits \in Nat /\ n \in Nat
  BY SizesAreNat, BitsOK
<1>2. Doubling(n + Bits)
  <2>1. \A k \in 0 .. (n + Bits) - 1 : k \in 0 .. MaxBucketCount + Bits - 1
    BY <1>1
  <2> QED
    BY <2>1, PowerLaw DEF Doubling
<1> QED
  BY <1>1, <1>2, SlotsCovered

(* A file without arrays has no values.                                    *)
LEMMA NoBlocks ==
  ASSUME NEW f, f.arrays = <<>>
  PROVE  FileValues(f) = <<>> /\ FileEntries(f) = {}
<1>1. f.arrays \in Seq(WrittenArrays(Pair)) /\ Len(f.arrays) = 0
  OBVIOUS
<1>2. FileValues(f) = FlattenSeq(Blocks(f)) /\ Blocks(f) \in Seq(Seq(Pair)) /\ Len(Blocks(f)) = 0
  BY <1>1, BlocksOK
<1> DEFINE blocks == Blocks(f)
<1> HIDE DEF blocks
<1>3. FileValues(f) = FlattenSeq(blocks) /\ blocks \in Seq(Seq(Pair)) /\ blocks = <<>>
  BY <1>2 DEF blocks
<1>4. FlattenSeq(blocks) = <<>>
  BY <1>3, Flattens
<1>5. DOMAIN FileValues(f) = {}
  BY <1>3, <1>4
<1> QED
  BY <1>3, <1>4, <1>5 DEF FileEntries

(* A table with arrays, written.                                           *)
LEMMA WrittenTable ==
  ASSUME RoomInv, pc = "idle", sparse_buckets # NoArrays
  PROVE  /\ Written.arrays \in Seq(WrittenArrays(Pair))
         /\ Len(Written.arrays) = ArrayCount /\ ArrayCount \in Nat \ {0}
         /\ \A s \in DOMAIN Written.arrays : Written.arrays[s] = WrittenArray(s - 1)
         /\ Restored(Written) = sparse_buckets
         /\ KeyedBlocks(Blocks(Written))
         /\ FileEntries(Written) = HeldIn(sparse_buckets)
<1> DEFINE f == Written
           m == ArrayCount
           n == bucket_count
           t == sparse_buckets
<1>1. n \in Nat /\ n \in 0 .. MaxBucketCount /\ t \in Table(n) /\ n > 0
  <2>1. n \in Nat /\ n \in 0 .. MaxBucketCount /\ t \in Table(n)
    BY SizesAreNat DEF RoomInv, KeyInv, ProbeInv, Inv, TypeOK, TypesOK
  <2> QED
    BY <2>1, ArraysIffSlots
<1>2. m = NbSparseBuckets(n) /\ m \in Nat /\ m > 0
  BY <1>1, ArraysCover DEF ArrayCount
<1>3. f.arrays = [s \in 1 .. m |-> WrittenArray(s - 1)] /\ f.bucket_count = n
  BY DEF Written
<1> HIDE DEF m, f
<1>4. \A s \in 1 .. m : s - 1 \in Nat /\ WrittenArray(s - 1) \in WrittenArrays(Pair)
  BY <1>1, <1>2, WrittenArrayOK
<1>5. /\ f.arrays \in Seq(WrittenArrays(Pair)) /\ Len(f.arrays) = m
      /\ DOMAIN f.arrays = 1 .. m
      /\ \A s \in 1 .. m : f.arrays[s] = WrittenArray(s - 1)
  BY <1>2, <1>3, <1>4
<1>6. ASSUME NEW i \in 0 .. n - 1
      PROVE  /\ SparseBucket(i) + 1 \in 1 .. m
             /\ f.arrays[SparseBucket(i) + 1] = WrittenArray(SparseBucket(i))
             /\ IndexIn(i) \in InArray(SparseBucket(i))
             /\ i = SparseBucket(i) * Bits + IndexIn(i) /\ SparseBucket(i) \in Nat
  <2> DEFINE s == SparseBucket(i)
             b == IndexIn(i)
  <2>1. s \in 0 .. m - 1 /\ b \in Indices /\ i = s * Bits + b
    BY <1>1, <1>2, ArraysCover, SlotParts
  <2> HIDE DEF s, b
  <2>2. s + 1 \in 1 .. m /\ (s + 1) - 1 = s
    BY <1>2, <2>1
  <2>3. b \in InArray(s)
    <3>1. s * Bits + b < bucket_count
      BY <1>1, <2>1
    <3> QED
      BY <2>1, <3>1 DEF InArray, Indices
  <2> QED
    BY <1>5, <2>1, <2>2, <2>3 DEF s, b
<1>7. Restored(f) = t
  <2> DEFINE r == [i \in 0 .. n - 1 |->
                     Report(f.arrays[SparseBucket(i) + 1].array, IndexIn(i), Empty, Deleted)]
  <2>1. ASSUME NEW i \in 0 .. n - 1
        PROVE  r[i] = t[i]
    <3>1. Report(WrittenArray(SparseBucket(i)).array, IndexIn(i), Empty, Deleted)
            = CellOf(SparseBucket(i), IndexIn(i))
      BY <1>1, <1>6, WrittenSlots
    <3>2. CellOf(SparseBucket(i), IndexIn(i)) = t[i]
      BY <1>6 DEF CellOf
    <3> QED
      BY <1>6, <3>1, <3>2
  <2>2. t = [i \in 0 .. n - 1 |-> t[i]] /\ r = [i \in 0 .. n - 1 |-> r[i]]
    BY <1>1 DEF Table
  <2>3. Restored(f) = r
    BY <1>3 DEF Restored
  <2> HIDE DEF r
  <2> QED
    BY <2>1, <2>2, <2>3
<1>8. ASSUME NEW s \in 1 .. m, NEW o \in DOMAIN f.arrays[s].array.values
      PROVE  \E b \in Indices :
               /\ (s - 1) * Bits + b \in Occupied(t)
               /\ f.arrays[s].array.values[o] = t[(s - 1) * Bits + b]
               /\ IndexToOffset(f.arrays[s].array, b) = o - 1
  <2> DEFINE r == s - 1
             a == WrittenArray(r).array
  <2>1. r \in Nat /\ f.arrays[s] = WrittenArray(r) /\ f.arrays[s].array = a
    BY <1>4, <1>5
  <2> HIDE DEF r
  <2>2. o \in DOMAIN a.values
    BY <1>8, <2>1
  <2>3. \E b \in Indices :
          /\ r * Bits + b \in Occupied(sparse_buckets)
          /\ a.values[o] = sparse_buckets[r * Bits + b]
          /\ IndexToOffset(a, b) = o - 1
    BY <1>1, <2>1, <2>2, WrittenSlots
  <2> HIDE DEF a
  <2> QED
    BY <2>1, <2>3 DEF r
<1>9. KeysApart(t)
  BY AtRest DEF RoomInv, KeyInv, ProbeInv, Rehashing
<1>10. KeyedBlocks(Blocks(f))
  <2>1. DOMAIN Blocks(f) = 1 .. m /\ \A s \in 1 .. m : Blocks(f)[s] = f.arrays[s].array.values
    BY <1>5 DEF Blocks
  <2> SUFFICES ASSUME NEW s \in 1 .. m, NEW r \in 1 .. m,
                      NEW o \in DOMAIN f.arrays[s].array.values,
                      NEW q \in DOMAIN f.arrays[r].array.values,
                      f.arrays[s].array.values[o][1] = f.arrays[r].array.values[q][1]
               PROVE  s = r /\ o = q
    BY <2>1 DEF KeyedBlocks
  <2>2. PICK b \in Indices :
          /\ (s - 1) * Bits + b \in Occupied(t)
          /\ f.arrays[s].array.values[o] = t[(s - 1) * Bits + b]
          /\ IndexToOffset(f.arrays[s].array, b) = o - 1
    BY <1>8
  <2>3. PICK c \in Indices :
          /\ (r - 1) * Bits + c \in Occupied(t)
          /\ f.arrays[r].array.values[q] = t[(r - 1) * Bits + c]
          /\ IndexToOffset(f.arrays[r].array, c) = q - 1
    BY <1>8
  <2>4. (s - 1) * Bits + b = (r - 1) * Bits + c
    BY <1>9, <2>2, <2>3 DEF KeysApart
  <2>5. s - 1 \in Nat /\ r - 1 \in Nat
    OBVIOUS
  <2>6. s - 1 = r - 1 /\ b = c
    BY <2>4, <2>5, SlotNumber
  <2>7. s = r
    BY <2>6
  <2>8. o \in Nat /\ q \in Nat
    <3>1. f.arrays[s] \in WrittenArrays(Pair) /\ f.arrays[r] \in WrittenArrays(Pair)
      BY <1>4, <1>5
    <3>2. /\ f.arrays[s].array.values \in Seq(Pair)
          /\ f.arrays[r].array.values \in Seq(Pair)
      BY <3>1 DEF WrittenArrays
    <3>3. \A v \in Seq(Pair) : DOMAIN v \subseteq Nat
      OBVIOUS
    <3> QED
      BY <3>2, <3>3
  <2> QED
    BY <2>2, <2>3, <2>6, <2>7, <2>8
<1>11. FileEntries(f) = HeldIn(t)
  <2>1. \A e : e \in FileEntries(f) <=>
          \E s \in 1 .. m : \E o \in DOMAIN f.arrays[s].array.values :
            e = f.arrays[s].array.values[o]
    BY <1>5, FileValuesOK
  <2>2. ASSUME NEW e \in FileEntries(f)
        PROVE  e \in HeldIn(t)
    <3>1. PICK s \in 1 .. m : \E o \in DOMAIN f.arrays[s].array.values :
            e = f.arrays[s].array.values[o]
      BY <2>1
    <3>2. PICK i \in Occupied(t) : e = t[i]
      BY <1>8, <3>1
    <3> QED
      BY <3>2 DEF HeldIn
  <2>3. ASSUME NEW i \in Occupied(t)
        PROVE  t[i] \in FileEntries(f)
    <3> DEFINE s == SparseBucket(i)
    <3>1. i \in 0 .. n - 1
      BY <1>1, OccupiedPair
    <3>2. PICK o \in DOMAIN WrittenArray(s).array.values :
            WrittenArray(s).array.values[o] = t[i]
      BY <1>1, <1>6, <3>1, WrittenSlots
    <3> QED
      BY <1>6, <2>1, <3>1, <3>2
  <2> QED
    BY <2>2, <2>3 DEF HeldIn
<1> QED
  BY <1>2, <1>5, <1>7, <1>10, <1>11 DEF f, m

(* What Save leaves in the file is the table: it could be read back by     *)
(* either mode.                                                            *)
LEMMA WrittenOK ==
  ASSUME RoomInv, pc = "idle"
  PROVE  SoundFile(Written) /\ OwnFile(Written) /\ FileEntries(Written) = Entries
<1> DEFINE f == Written
           t == sparse_buckets
<1>1. ~Rehashing
  BY DEF Rehashing
<1>2. Entries = HeldIn(t)
  BY <1>1, AtRest DEF RoomInv, KeyInv, ProbeInv
<1>3. InOrder(t, bucket_count, nb_elements, nb_deleted_buckets)
  BY <1>1, RestInOrder
<1>4. nb_elements \in Nat /\ max_load_factor \in 1 .. 8 /\ max_load_factor \in Nat
  BY DEF RoomInv, KeyInv, ProbeInv, Inv, TypeOK, TypesOK
<1>0. f = [version |-> Version, bucket_count |-> bucket_count, nb_sparse |-> ArrayCount,
           nb_elements |-> nb_elements, nb_deleted |-> nb_deleted_buckets,
           load |-> max_load_factor,
           arrays |-> [s \in 1 .. ArrayCount |-> WrittenArray(s - 1)]]
  BY DEF Written
<1>5. /\ f.bucket_count = bucket_count /\ f.nb_sparse = ArrayCount
      /\ f.nb_elements = nb_elements /\ f.nb_deleted = nb_deleted_buckets
      /\ f.load = max_load_factor
      /\ f.arrays = [s \in 1 .. ArrayCount |-> WrittenArray(s - 1)]
  BY DEF Written
<1> HIDE DEF f
<1>8. ASSUME f.arrays \in Seq(WrittenArrays(Pair)), ArrayCount \in Nat
      PROVE  f \in FileRecords
  <2>1. f.bucket_count \in Nat /\ f.nb_elements \in Nat /\ f.nb_deleted \in Nat
    BY <1>5, SizesAreNat DEF RoomInv, KeyInv, ProbeInv, Inv, TypeOK, TypesOK
  <2>2. f.version \in Nat /\ f.nb_sparse \in Nat /\ f.load \in Nat
    BY <1>0, <1>4, <1>5, <1>8 DEF Version
  <2>3. f = [version |-> f.version, bucket_count |-> f.bucket_count,
             nb_sparse |-> f.nb_sparse, nb_elements |-> f.nb_elements,
             nb_deleted |-> f.nb_deleted, load |-> f.load, arrays |-> f.arrays]
    BY <1>0
  <2> QED
    BY <1>8, <2>1, <2>2, <2>3 DEF FileRecords
<1>6. CASE t = NoArrays
  <2>1. ArrayCount = 0
    BY <1>6 DEF ArrayCount
  <2>2. f.arrays = <<>>
    BY <1>5, <2>1
  <2>3. FileValues(f) = <<>> /\ FileEntries(f) = {}
    BY <2>2, NoBlocks
  <2>4. HeldIn(t) = {} /\ TableOf(f) = t
    BY <1>6, <2>2, NoArraysEmpty DEF HeldIn, TableOf
  <2>5. SoundFile(f)
    BY <1>4, <1>5, <2>2, <2>3 DEF SoundFile, KeyedSeq
  <2>6. OwnFile(f)
    <3>1. f \in FileRecords
      <4>1. f.arrays \in Seq(WrittenArrays(Pair))
        BY <2>2
      <4> QED
        BY <1>8, <2>1, <4>1
    <3> QED
      BY <1>3, <1>4, <1>5, <2>1, <2>2, <2>3, <2>4, <3>1 DEF OwnFile
  <2> QED
    BY <1>2, <2>3, <2>4, <2>5, <2>6 DEF f
<1>7. CASE t # NoArrays
  <2>1. /\ f.arrays \in Seq(WrittenArrays(Pair))
        /\ Len(f.arrays) = ArrayCount /\ ArrayCount \in Nat \ {0}
        /\ \A s \in DOMAIN f.arrays : f.arrays[s] = WrittenArray(s - 1)
        /\ Restored(f) = t /\ KeyedBlocks(Blocks(f)) /\ FileEntries(f) = HeldIn(t)
    BY <1>7, WrittenTable DEF f
  <2>2. TableOf(f) = t
    BY <2>1 DEF TableOf
  <2>3. SoundFile(f)
    BY <1>4, <1>5, <2>1, FileValuesOK DEF SoundFile
  <2>4. \A s \in DOMAIN f.arrays :
          /\ f.arrays[s].array \in PackedOver(Pair)
          /\ f.arrays[s].size = Len(f.arrays[s].array.values)
    <3> SUFFICES ASSUME NEW s \in DOMAIN f.arrays
                 PROVE  /\ f.arrays[s].array \in PackedOver(Pair)
                        /\ f.arrays[s].size = Len(f.arrays[s].array.values)
      OBVIOUS
    <3>1. s - 1 \in Nat /\ f.arrays[s] = WrittenArray(s - 1)
      BY <2>1
    <3>2. bucket_count \in Nat /\ t \in Table(bucket_count)
      BY <1>7, SizesAreNat DEF RoomInv, KeyInv, ProbeInv, Inv, TypeOK, TypesOK
    <3> QED
      BY <3>1, <3>2, WrittenArrayOK
  <2>5. OwnFile(f)
    BY <1>3, <1>4, <1>5, <1>8, <2>1, <2>2, <2>4 DEF OwnFile
  <2> QED
    BY <1>2, <2>1, <2>3, <2>5 DEF f
<1> QED
  BY <1>6, <1>7

-----------------------------------------------------------------------------
(* The engine between two calls, and what an insertion leaves alone. *)

(* No call runs, and none has left anything behind.                        *)
EngineRest ==
  /\ pc = "idle" /\ req = None /\ res = None
  /\ ibucket \in Nat /\ probe = 0 /\ found_deleted = None
  /\ draining = <<>> /\ new_buckets = NoArrays
  /\ new_count = 0 /\ new_elements = 0

(* A table in order is all that the engine needs to go on.                 *)
LEMMA RestOK ==
  EngineRest /\ InOrder(sparse_buckets, bucket_count, nb_elements, nb_deleted_buckets)
    /\ max_load_factor \in 1 .. 8 /\ ThresholdsFresh => RoomInv
<1> SUFFICES ASSUME EngineRest,
                    InOrder(sparse_buckets, bucket_count, nb_elements, nb_deleted_buckets),
                    max_load_factor \in 1 .. 8, ThresholdsFresh
             PROVE  RoomInv
  OBVIOUS
<1>1. bucket_count \in Nat /\ ~Rehashing
  BY SizesAreNat DEF InOrder, EngineRest, Rehashing
<1>2. load_threshold_rehash \in Nat /\ load_threshold_clear_deleted \in Nat
  BY <1>1, ThresholdsOK DEF ThresholdsFresh
<1>3. TypesOK
  <2>1. draining \in Seq(ValueTable)
    BY DEF EngineRest
  <2>2. new_buckets \in Table(new_count)
    BY NoArraysEmpty DEF EngineRest
  <2>3. sparse_buckets \in Table(bucket_count) \/ sparse_buckets = NoArrays
    BY DEF InOrder
  <2> QED
    BY <1>1, <1>2, <2>1, <2>2, <2>3 DEF TypesOK, InOrder, EngineRest
<1>4. CallOK /\ RehashOK
  BY <1>1 DEF CallOK, RehashOK, EngineRest
<1>5. Cardinality(Occupied(NoArrays)) = 0 /\ Cardinality(Tombstones(NoArrays)) = 0
  BY NoArraysEmpty, FS_EmptySet
<1>6. CountersAgree
  <2>1. sparse_buckets # NoArrays =>
          /\ nb_elements = Cardinality(Occupied(sparse_buckets))
          /\ nb_deleted_buckets = Cardinality(Tombstones(sparse_buckets))
    BY DEF InOrder
  <2>2. ~Torn /\ sparse_buckets = NoArrays => nb_elements = 0 /\ nb_deleted_buckets = 0
    BY <1>1 DEF Torn, InOrder
  <2> QED
    BY <1>5, <2>1, <2>2 DEF CountersAgree, EngineRest, InOrder
<1>7. Inv
  BY <1>3, <1>4, <1>6 DEF Inv, TypeOK
<1>8. EveryValueFindable
  BY NoArraysEmpty, EmptyFindable DEF EveryValueFindable, EngineRest, InOrder
<1>9. KeysApart(sparse_buckets)
  BY NoArraysEmpty DEF InOrder, KeysApart
<1>10. KeyInv
  BY <1>1, <1>7, <1>8, <1>9, AtRest
  DEF KeyInv, ProbeInv, CursorAtRest, ProbeTrail, CallKinds, KnownAbsent, EngineRest
<1> QED
  BY <1>1, <1>10
  DEF RoomInv, RoomForAll, OwnRoom, ResizeRoom, ResizeKeepsPromise, InOrder, EngineRest

(* The same after a step.                                                  *)
LEMMA RestOKNext ==
  ASSUME EngineRest', ThresholdsFresh', max_load_factor' \in 1 .. 8,
         InOrder(sparse_buckets', bucket_count', nb_elements', nb_deleted_buckets')
  PROVE  RoomInv'
<1>1. (EngineRest /\ InOrder(sparse_buckets, bucket_count, nb_elements, nb_deleted_buckets)
         /\ max_load_factor \in 1 .. 8 /\ ThresholdsFresh => RoomInv)'
  BY RestOK, PTL
<1> QED
  BY <1>1 DEF InOrder

(* Nothing is left behind by a call that has ended or is about to.         *)
LEMMA RestAgain ==
  ASSUME RoomInv, pc \in {"idle", "return"}
  PROVE  /\ ibucket \in Nat /\ probe = 0 /\ found_deleted = None
         /\ draining = <<>> /\ new_buckets = NoArrays
         /\ new_count = 0 /\ new_elements = 0
<1>1. ~Rehashing
  BY DEF Rehashing
<1>2. /\ draining = <<>> /\ new_count = 0 /\ new_elements = 0
      /\ new_buckets \in Table(0) /\ ibucket \in Nat
  BY <1>1 DEF RoomInv, KeyInv, ProbeInv, Inv, TypeOK, TypesOK, RehashOK
<1>3. new_buckets = NoArrays
  BY <1>2, ArraysIffSlots
<1> QED
  BY <1>2, <1>3 DEF RoomInv, KeyInv, ProbeInv, CursorAtRest

(* A table without buckets is in order.                                    *)
LEMMA NoBucketsOK ==
  /\ InOrder(NoArrays, 0, 0, 0)
  /\ \A load \in 1 .. 8 : ThresholdRehash(0, load) = 0 /\ ThresholdClear(0, load) = 0
<1>1. 0 \in SettledCounts
  BY NoBucketsAssumption, SizesAreNat DEF SettledCounts
<1>2. \A load \in 1 .. 8 : 0 * load = 0 /\ 0 * (10 + load) = 0
  OBVIOUS
<1>3. 0 \div 10 = 0 /\ 0 \div 20 = 0
  OBVIOUS
<1> QED
  BY <1>1, <1>2, <1>3 DEF InOrder, ThresholdRehash, ThresholdClear

(* Whatever is asked for is brought into the range of load factors.        *)
LEMMA ClampOK ==
  ASSUME NEW load \in Nat
  PROVE  Clamp(load) \in 1 .. 8
BY DEF Clamp, Max2, Min2

(* The arrays are lost in a step that answers with a panic.                *)
LEMMA TornStep ==
  ASSUME Inv, Inv', ~Torn, [OpenNext]_vars, Torn'
  PROVE  pc' = "return" /\ res' = Panicked
<1>1. \/ TablesKept \/ Replaced \/ Cleared
      \/ \E gone \in SUBSET Occupied(sparse_buckets) : Buried(gone)
      \/ \E i : Added(i)
      \/ \E n \in SettledCounts : Begun(n)
      \/ \E n \in SettledCounts : Nested(n)
      \/ SwapNested \/ SwapIn \/ PlaceHere \/ Lost
  BY Effects
<1>2. /\ bucket_count \in Nat
      /\ sparse_buckets \in Table(bucket_count) \/ sparse_buckets = NoArrays
      /\ DOMAIN NoArrays = {}
      /\ ~Rehashing' /\ sparse_buckets' = NoArrays /\ bucket_count' > 0
  BY SizesAreNat, NoArraysEmpty DEF Inv, TypeOK, TypesOK, Torn
<1>3. CASE Lost
  BY <1>3 DEF Lost, LoseArrays, Return
<1>4. CASE \/ \E n \in SettledCounts : Begun(n)
           \/ \E n \in SettledCounts : Nested(n)
           \/ SwapNested \/ PlaceHere
  BY <1>2, <1>4 DEF Begun, Nested, SwapNested, PlaceHere, Rehashing
<1>5. CASE SwapIn
  <2>1. /\ sparse_buckets' = new_buckets /\ bucket_count' = new_count
        /\ new_buckets \in Table(new_count) /\ new_count \in Nat
    BY <1>5, SizesAreNat DEF SwapIn, Inv, TypeOK, TypesOK
  <2> QED
    BY <1>2, <2>1, ArraysIffSlots
<1>6. CASE \/ Replaced \/ Cleared \/ \E i : Added(i)
           \/ \E gone \in SUBSET Occupied(sparse_buckets) : Buried(gone)
  <2>1. /\ DOMAIN sparse_buckets' = DOMAIN sparse_buckets /\ bucket_count' = bucket_count
        /\ ~Rehashing
    BY <1>6 DEF Replaced, Cleared, Added, Buried, OnlySlots
  <2>2. sparse_buckets # NoArrays
    BY <1>2, <2>1 DEF Torn
  <2>3. DOMAIN sparse_buckets = 0 .. bucket_count - 1 /\ bucket_count > 0
    BY <1>2, <2>2, ArraysIffSlots DEF Table
  <2>4. 0 \in DOMAIN sparse_buckets
    BY <1>2, <2>3
  <2> QED
    BY <1>2, <2>1, <2>4
<1>7. CASE TablesKept
  <2>1. UNCHANGED <<bucket_count, sparse_buckets, draining>>
    BY <1>7 DEF TablesKept, build
  <2>2. ~Rehashing
    BY <1>2, <2>1 DEF Inv, TypeOK, RehashOK
  <2> QED
    BY <1>2, <2>1, <2>2 DEF Torn
<1> QED
  BY <1>1, <1>3, <1>4, <1>5, <1>6, <1>7

(* Only one operation sets the load factor.                                *)
LEMMA LoadKept ==
  ASSUME [OpenNext]_vars, pc = "idle" \/ req.op # "set_max_load_factor"
  PROVE  max_load_factor' = max_load_factor
<1>1. ~SetMaxLoadFactor
  BY DEF SetMaxLoadFactor, Whole
<1>2. CASE SwapIn
  BY <1>2 DEF SwapIn
<1>3. CASE ~SwapIn
  BY <1>1, <1>3, LimitsStep DEF limits
<1> QED
  BY <1>2, <1>3

(* An insertion that rebuilds the table makes it no smaller.               *)
LEMMA InsertKeepsLimits ==
  ASSUME RoomInv, RoomInv', Working, req.op = "insert", [OpenNext]_vars
  PROVE  load_threshold_rehash' >= load_threshold_rehash
<1>1. bucket_count \in Nat /\ max_load_factor \in Nat /\ load_threshold_rehash \in Nat
  <2>1. /\ bucket_count \in Nat /\ max_load_factor \in 1 .. 8
        /\ load_threshold_rehash \in Nat
    BY SizesAreNat DEF RoomInv, KeyInv, ProbeInv, Inv, TypeOK, TypesOK
  <2> QED
    BY <2>1
<1>2. ~SetMaxLoadFactor
  BY DEF SetMaxLoadFactor, Whole
<1>3. CASE SwapIn
  <2> DEFINE a == bucket_count * max_load_factor
             b == new_count * max_load_factor
  <2>1. new_count >= bucket_count /\ new_count \in Nat
    BY <1>3, RehashingFacts DEF RoomInv, KeyInv, ProbeInv, SwapIn, Rehashing, ResizeOps
  <2>2. a \in Nat /\ b \in Nat /\ a <= b
    BY <1>1, <2>1, ProductUp
  <2>3. load_threshold_rehash = a \div 10 /\ load_threshold_rehash' = b \div 10
    BY <1>3 DEF RoomInv, ThresholdsFresh, SwapIn, ThresholdRehash
  <2> HIDE DEF a, b
  <2> QED
    BY <2>2, <2>3
<1>4. CASE ~SwapIn
  BY <1>1, <1>2, <1>4, LimitsStep DEF limits
<1> QED
  BY <1>3, <1>4

(* An insertion makes no tombstones.                                       *)
LEMMA InsertKeepsClean ==
  ASSUME RoomInv, RoomInv', Working, req.op = "insert", nb_deleted_buckets = 0,
         Step \/ HasherPanics
  PROVE  nb_deleted_buckets' = 0
<1>1. pc \notin {"find", "whole", "return"} /\ nb_deleted_buckets' \in Nat
  BY OnTheWhole
  DEF RoomInv, KeyInv, CallKinds, ProbeInv, Inv, TypeOK, TypesOK, CallOK, Working,
      WholeRequests
<1>2. ~Find /\ ~WholeTable /\ ~Finish
  BY <1>1
  DEF Find, FindNoBuckets, FindNoArrays, FindHit, FindMiss, FindAdvance, WholeTable,
      Resize, Clear, EraseAll, Retain, PopFront, EraseRange, SetMaxLoadFactor, Whole,
      Finish
<1>3. CASE HasherPanics \/ Drain \/ Place
  BY <1>3 DEF HasherPanics, LoseArrays, Drain, DrainNext, SwapIn, SwapNested, Place,
              PlaceHere, PlaceAdvance, PlaceExhausted, table
<1>4. CASE Insert
  <2>1. \/ nb_deleted_buckets' = nb_deleted_buckets
        \/ nb_deleted_buckets' = nb_deleted_buckets - 1
        \/ nb_deleted_buckets' = nb_deleted_buckets - 0
    BY <1>4 DEF Insert, InsertNoArrays, InsertExhausted, InsertHit, InsertAdvance,
                InsertEmpty, Put, PutAt, Grow, Rehash, table
  <2> QED
    BY <1>1, <2>1
<1> QED
  BY <1>2, <1>3, <1>4 DEF Step

(* With room for one more value and no tombstones, an insertion rebuilds   *)
(* the table only at the end of its probe path.                            *)
LEMMA InsertWithRoom ==
  ASSUME RoomInv, ~Torn, nb_deleted_buckets = 0, nb_elements < load_threshold_rehash,
         Step \/ HasherPanics, pc = "insert", pc' = "drain"
  PROVE  probe >= bucket_count
<1>1. /\ bucket_count \in Nat /\ max_load_factor \in 1 .. 8 /\ probe \in Nat
      /\ nb_elements \in Nat /\ load_threshold_rehash \in Nat
      /\ load_threshold_clear_deleted \in Nat /\ ~Rehashing
  BY SizesAreNat DEF RoomInv, KeyInv, ProbeInv, Inv, TypeOK, TypesOK, Rehashing
<1>2. Insert
  BY DEF HasherPanics, Step, Find, FindNoBuckets, FindNoArrays, FindHit, FindMiss,
         FindAdvance, Drain, DrainNext, SwapIn, SwapNested, Place, PlaceHere,
         PlaceAdvance, PlaceExhausted, Placing, WholeTable, Resize, Clear, EraseAll,
         Retain, PopFront, EraseRange, SetMaxLoadFactor, Whole, Finish
<1>3. CASE InsertNoArrays
  BY <1>1, <1>3 DEF InsertNoArrays, Torn
<1>4. CASE InsertExhausted
  BY <1>4 DEF InsertExhausted
<1>5. CASE InsertHit \/ InsertAdvance
  BY <1>5 DEF InsertHit, InsertAdvance, Inserting, Return, Advance
<1>6. CASE InsertEmpty
  <2>1. ~(nb_elements >= load_threshold_rehash)
    BY <1>1
  <2>2. ~(nb_elements + nb_deleted_buckets >= load_threshold_clear_deleted)
    <3> DEFINE n == bucket_count
               load == max_load_factor
    <3>1. /\ load_threshold_rehash = ThresholdRehash(n, load)
          /\ load_threshold_clear_deleted = ThresholdClear(n, load)
      BY DEF RoomInv, ThresholdsFresh
    <3> HIDE DEF n, load
    <3>2. ThresholdRehash(n, load) <= ThresholdClear(n, load)
      BY <1>1, CleanupAfterGrowth DEF n, load
    <3> QED
      BY <1>1, <3>1, <3>2
  <2>3. Put
    BY <1>6, <2>1, <2>2, Zenon DEF InsertEmpty
  <2> QED
    BY <2>3 DEF Put, PutAt, Return
<1> QED
  BY <1>2, <1>3, <1>4, <1>5, <1>6 DEF Insert

-----------------------------------------------------------------------------
(* How many values there are. *)

(* The first k values.                                                     *)
FirstOnes(seq, k) == { seq[p] : p \in 1 .. k }

(* As many pairs as places, for every key has one place.                   *)
LEMMA ValuesCount ==
  ASSUME NEW seq \in Seq(Pair), KeyedSeq(seq), NEW k \in 0 .. Len(seq)
  PROVE  IsFiniteSet(FirstOnes(seq, k)) /\ Cardinality(FirstOnes(seq, k)) = k
<1> DEFINE f == [p \in 1 .. k |-> seq[p]]
           V == FirstOnes(seq, k)
<1>1. k \in Nat /\ DOMAIN seq = 1 .. Len(seq) /\ Len(seq) \in Nat
  OBVIOUS
<1>2. f \in Surjection(1 .. k, V)
  BY DEF Surjection, FirstOnes
<1>3. f \in Injection(1 .. k, V)
  BY <1>1 DEF Injection, IsInjective, FirstOnes, KeyedSeq
<1>4. f \in Bijection(1 .. k, V)
  BY <1>2, <1>3 DEF Bijection
<1>5. IsFiniteSet(1 .. k) /\ Cardinality(1 .. k) = k
  BY <1>1, FS_Interval
<1> HIDE DEF f, V
<1>6. ExistsBijection(1 .. k, V)
  BY <1>4 DEF ExistsBijection
<1> QED
  BY <1>5, <1>6, FS_Bijection DEF V

(* All of them are the entries of the file.                                *)
LEMMA AllValues ==
  ASSUME NEW f, SoundFile(f)
  PROVE  /\ FileValues(f) \in Seq(Pair) /\ Len(FileValues(f)) \in Nat
         /\ FileEntries(f) = FirstOnes(FileValues(f), Len(FileValues(f)))
         /\ Cardinality(FileEntries(f)) = Len(FileValues(f))
<1> DEFINE s == FileValues(f)
<1>1. s \in Seq(Pair) /\ KeyedSeq(s)
  BY FileValuesOK DEF SoundFile
<1>2. FileEntries(f) = { s[p] : p \in DOMAIN s }
  BY DEF FileEntries
<1> HIDE DEF s
<1>3. Len(s) \in Nat /\ Len(s) \in 0 .. Len(s) /\ DOMAIN s = 1 .. Len(s)
  BY <1>1
<1> QED
  BY <1>1, <1>2, <1>3, ValuesCount DEF s, FirstOnes

(* The table's own counter is at least what its file holds: it is more     *)
(* only when a panic has emptied the table.                                *)
LEMMA OwnCounts ==
  ASSUME NEW f, SoundFile(f), OwnFile(f)
  PROVE  Len(FileValues(f)) <= f.nb_elements
<1> DEFINE t == TableOf(f)
           n == f.bucket_count
<1>1. f.nb_elements \in Nat /\ FileEntries(f) = HeldIn(t)
      /\ InOrder(t, n, f.nb_elements, f.nb_deleted)
  BY DEF SoundFile, OwnFile
<1> HIDE DEF t, n
<1>2. n \in Nat
  <2>1. n \in SettledCounts
    BY <1>1 DEF InOrder
  <2> QED
    BY <2>1, SizesAreNat
<1>3. CASE t = NoArrays
  <2>1. Cardinality(HeldIn(t)) = 0
    BY <1>3, NoArraysEmpty, FS_EmptySet DEF HeldIn
  <2> QED
    BY <1>1, <2>1, AllValues
<1>4. CASE t # NoArrays
  <2>1. t \in Table(n) /\ KeysApart(t) /\ f.nb_elements = Cardinality(Occupied(t))
    BY <1>1, <1>4 DEF InOrder
  <2>2. Cardinality(HeldIn(t)) = Cardinality(Occupied(t))
    BY <1>2, <2>1, HeldCounts
  <2> QED
    BY <1>1, <2>1, <2>2, AllValues
<1> QED
  BY <1>3, <1>4

-----------------------------------------------------------------------------
(* What every state of the storage keeps. *)

(* How far a rehashing read has come.                                      *)
Taken == Len(FileValues(file)) - Len(unread)

Unwinds == pc = "return" /\ res = Panicked

(* Every array is right about one of its two counts: only one field may    *)
(* have changed.                                                           *)
HalfSound(f) ==
  /\ f.bucket_count \in 0 .. UsizeMax
  /\ \A s \in DOMAIN f.arrays :
       \/ f.arrays[s].size = Len(f.arrays[s].array.values)
       \/ Cardinality(f.arrays[s].array.bitmap_vals) = Len(f.arrays[s].array.values)

FileOK ==
  stage # "running" =>
    /\ SoundFile(file)
    /\ origin = "own" => OwnFile(file)
    /\ origin # "foreign" => HalfSound(file)
    /\ ~Damaged => Len(FileValues(file)) <= file.nb_elements

(* The values not yet read are the last ones of the file.                  *)
UnreadOK ==
  /\ unread \in Seq(Pair) /\ Taken \in Nat
  /\ \A q \in DOMAIN unread : unread[q] = FileValues(file)[Taken + q]

(* Nothing has been read.                                                  *)
BlankOK ==
  /\ EngineRest
  /\ sparse_buckets = NoArrays /\ bucket_count = 0
  /\ nb_elements = 0 /\ nb_deleted_buckets = 0
  /\ max_load_factor \in 1 .. 8
  /\ load_threshold_rehash = 0 /\ load_threshold_clear_deleted = 0

Reserving == Working /\ req.op = "reserve"
Adding == Working /\ req.op = "insert"

(* A rehashing read holds the values before those not yet read, and has    *)
(* room for the others.                                                    *)
ReadingOK ==
  /\ RoomInv /\ max_load_factor = Clamp(file.load)
  /\ Working => Reserving \/ Adding
  /\ pc = "idle" => req = None /\ res = None
  /\ ~Unwinds =>
       /\ UnreadOK /\ ~Torn
       /\ Reserving => Taken = 0 /\ Entries = {} /\ req.count = file.nb_elements
       /\ Adding => /\ Taken >= 1 /\ <<req.key, req.val>> = FileValues(file)[Taken]
                    /\ Entries = FirstOnes(FileValues(file), Taken - 1)
       /\ ~Working => Entries = FirstOnes(FileValues(file), Taken)
       /\ ~Damaged /\ ~Reserving =>
            Len(FileValues(file)) <= load_threshold_rehash /\ nb_deleted_buckets = 0

ReadOK ==
  /\ EngineRest /\ DamageCaught
  /\ ~Damaged =>
       /\ RoomInv /\ Entries = FileEntries(file)
       /\ nb_elements = Len(FileValues(file)) /\ max_load_factor = Clamp(file.load)

StorageInv ==
  /\ stage \in {"running", "stored", "reserving", "reading", "read"}
  /\ origin \in {"own", "foreign", "damaged_header", "damaged_array"}
  /\ FileOK
  /\ stage = "running" =>
       RoomInv /\ origin = "own" /\ (pc = "idle" => req = None /\ res = None)
  /\ stage \in {"stored", "reserving"} => BlankOK
  /\ stage = "reserving" =>
       max_load_factor = Clamp(file.load) /\ unread = FileValues(file)
  /\ stage = "reading" => ReadingOK
  /\ stage = "read" => ReadOK

(* No table is as large as a usize can count.                              *)
LEMMA SizesBelowMax ==
  ASSUME NEW n \in SettledCounts
  PROVE  n \in 0 .. UsizeMax /\ n + 1 \in 0 .. UsizeMax
<1> DEFINE h == UsizeMax \div 2
<1>1. h \in Nat /\ h + 1 <= UsizeMax /\ UsizeMax \in Nat
  BY SizesAreNat
<1>2. n \in 0 .. h
  BY SizesAreNat DEF MaxBucketCount
<1> HIDE DEF h
<1> QED
  BY <1>1, <1>2

(* A file that is left alone.                                              *)
LEMMA FileKept ==
  ASSUME FileOK, stage # "running", UNCHANGED <<file, origin>>
  PROVE  FileOK'
BY DEF FileOK, Damaged

(* The table of a process that has none is in order.                       *)
LEMMA BlankIsRoom ==
  BlankOK => RoomInv /\ ~Torn /\ Entries = {}
<1> SUFFICES ASSUME BlankOK PROVE RoomInv /\ ~Torn /\ Entries = {}
  OBVIOUS
<1>1. ThresholdsFresh
  BY NoBucketsOK DEF BlankOK, ThresholdsFresh
<1>2. InOrder(sparse_buckets, bucket_count, nb_elements, nb_deleted_buckets)
  BY NoBucketsOK DEF BlankOK
<1>3. RoomInv
  BY <1>1, <1>2, RestOK DEF BlankOK
<1>4. ~Rehashing /\ ~Torn
  BY DEF BlankOK, EngineRest, Rehashing, Torn
<1>5. Entries = HeldIn(sparse_buckets)
  BY <1>3, <1>4, AtRest DEF RoomInv, KeyInv, ProbeInv
<1> QED
  BY <1>3, <1>4, <1>5, NoArraysEmpty DEF BlankOK, HeldIn

(* A call that is over has left nothing behind.                            *)
LEMMA IdleStep ==
  ASSUME pc = "idle" => req = None /\ res = None, [OpenNext]_vars
  PROVE  pc' = "idle" => req' = None /\ res' = None
<1>1. CASE UNCHANGED vars
  BY <1>1 DEF vars
<1>2. CASE AskKey \/ AskWhole
  BY <1>2 DEF AskKey, AskWhole, StartOnKey, StartOnWhole
<1>3. CASE HasherPanics \/ Find \/ Drain
  BY <1>3 DEF HasherPanics, LoseArrays, Find, FindNoBuckets, FindNoArrays, FindHit,
              FindMiss, FindAdvance, Absent, Return, ProbeFrom, Drain, DrainNext,
              SwapIn, SwapNested
<1>4. CASE Place \/ Insert
  BY <1>4 DEF Place, PlaceHere, PlaceAdvance, PlaceExhausted, Placing, LoseArrays,
              Advance, Return, Insert, InsertNoArrays, InsertExhausted, InsertHit,
              InsertAdvance, InsertEmpty, Inserting, Put, PutAt, Grow, Rehash
<1>5. CASE WholeTable
  BY <1>5 DEF WholeTable, Resize, Rehash, Clear, EraseAll, Retain, PopFront,
              EraseRange, SetMaxLoadFactor, Whole, Return
<1>6. CASE Finish
  BY <1>6 DEF Finish
<1> QED
  BY <1>1, <1>2, <1>3, <1>4, <1>5, <1>6 DEF OpenNext, Step

(* The steps of a table in use are those of the engine.                    *)
LEMMA StorageOpens ==
  ASSUME Client \/ Engine \/ EnginePanics
  PROVE  [OpenNext]_vars /\ UNCHANGED storage
BY CallsOK DEF Client, Engine, EnginePanics, CallOnKey, CallOnWhole, OpenNext, AskKey,
               AskWhole

LEMMA RunningStep ==
  ASSUME StorageInv, stage = "running", Client \/ Engine \/ EnginePanics
  PROVE  StorageInv'
<1>1. [OpenNext]_vars /\ UNCHANGED storage
  BY StorageOpens
<1>2. RoomInv' /\ (pc' = "idle" => req' = None /\ res' = None)
  BY <1>1, RoomStep, IdleStep DEF StorageInv
<1> QED
  BY <1>1, <1>2 DEF StorageInv, FileOK, storage

(* The process that wrote the file ends.                                   *)
LEMMA SaveStep ==
  ASSUME StorageInv, Save
  PROVE  StorageInv'
<1>1. RoomInv /\ pc = "idle" /\ req = None /\ res = None
  BY DEF Save, StorageInv
<1>2. SoundFile(Written) /\ OwnFile(Written)
  BY <1>1, WrittenOK
<1>3. HalfSound(Written)
  <2> DEFINE f == Written
  <2>1. /\ OwnFile(f) /\ InOrder(TableOf(f), f.bucket_count, f.nb_elements, f.nb_deleted)
        /\ \A s \in DOMAIN f.arrays : f.arrays[s].size = Len(f.arrays[s].array.values)
    BY <1>2 DEF OwnFile
  <2> HIDE DEF f
  <2>2. f.bucket_count \in SettledCounts
    BY <2>1 DEF InOrder
  <2>3. f.bucket_count \in 0 .. UsizeMax
    BY <2>2, SizesBelowMax
  <2> QED
    BY <2>1, <2>3 DEF HalfSound, f
<1>4. Len(FileValues(Written)) <= Written.nb_elements
  BY <1>2, OwnCounts
<1>5. FileOK'
  <2>1. file' = Written /\ origin' = "own"
    BY DEF Save
  <2> QED
    BY <1>2, <1>3, <1>4, <2>1 DEF FileOK
<1>6. BlankOK'
  BY <1>1, RestAgain, LoadAssumption
  DEF Save, NewTable, BlankOK, EngineRest, cursor, build
<1> QED
  BY <1>5, <1>6 DEF Save, StorageInv

(* A changed header has the values it had.                                 *)
LEMMA HeaderDamaged ==
  ASSUME NEW f, SoundFile(f), OwnFile(f), HalfSound(f), NEW g \in DamagedHeaders(f)
  PROVE  SoundFile(g) /\ HalfSound(g) /\ FileValues(g) = FileValues(f)
<1>1. f \in FileRecords
  BY DEF OwnFile
<1>2. \A n \in Nat : \A m \in OffByOne(n) : m \in Nat /\ m <= n + 1
  BY DEF OffByOne
<1>3. /\ g.arrays = f.arrays /\ g.load = f.load /\ g.nb_elements \in Nat
      /\ \/ g.bucket_count = f.bucket_count
         \/ g.bucket_count \in OffByOne(f.bucket_count)
  BY <1>1, <1>2 DEF DamagedHeaders, FileRecords
<1>4. f.bucket_count + 1 \in 0 .. UsizeMax /\ f.bucket_count \in Nat
  <2>1. f.bucket_count \in SettledCounts
    <3> DEFINE n == f.bucket_count
               t == TableOf(f)
    <3>1. InOrder(t, n, f.nb_elements, f.nb_deleted)
      BY DEF OwnFile
    <3> HIDE DEF t, n
    <3> QED
      BY <3>1 DEF InOrder, n
  <2> QED
    BY <1>1, <2>1, SizesBelowMax DEF FileRecords
<1>5. g.bucket_count \in 0 .. UsizeMax
  BY <1>2, <1>3, <1>4, SizesAreNat DEF HalfSound
<1>6. FileValues(g) = FileValues(f)
  BY <1>3 DEF FileValues
<1> QED
  BY <1>3, <1>5, <1>6 DEF SoundFile, HalfSound

(* A changed array has the values it had, and one of its counts is right.  *)
LEMMA ArrayDamaged ==
  ASSUME NEW f, SoundFile(f), OwnFile(f), HalfSound(f), NEW s \in DOMAIN f.arrays,
         NEW w \in DamagedArrays(f.arrays[s]), NEW g, g = [f EXCEPT !.arrays[s] = w]
  PROVE  SoundFile(g) /\ HalfSound(g) /\ FileValues(g) = FileValues(f)
<1> DEFINE a == f.arrays[s]
<1>1. /\ f \in FileRecords /\ a.array \in PackedOver(Pair) /\ a.size = Len(a.array.values)
      /\ f.arrays \in Seq(WrittenArrays(Pair)) /\ a \in WrittenArrays(Pair)
  BY DEF OwnFile, SoundFile
<1>2. Len(a.array.values) = Cardinality(a.array.bitmap_vals)
  BY <1>1 DEF PackedOver
<1>3. \A n \in Nat : \A m \in OffByOne(n) : m \in Nat
  BY DEF OffByOne
<1>4. \A bits \in SUBSET Indices : Flipped(bits) \subseteq SUBSET Indices
  BY DEF Flipped, Indices
<1>5. /\ a.size \in Nat /\ a.array.bitmap_vals \in SUBSET Indices
      /\ a.array.bitmap_deleted_vals \in SUBSET Indices
  BY <1>1 DEF WrittenArrays
<1>6. /\ w \in WrittenArrays(Pair) /\ w.array.values = a.array.values
      /\ \/ w.size = Len(w.array.values)
         \/ Cardinality(w.array.bitmap_vals) = Len(w.array.values)
  <2>0. /\ a = [size |-> a.size, array |-> a.array]
        /\ a.array = [values |-> a.array.values, bitmap_vals |-> a.array.bitmap_vals,
                      bitmap_deleted_vals |-> a.array.bitmap_deleted_vals]
        /\ a.array.values \in Seq(Pair)
    <3>1. a \in WrittenArrays(Pair)
      BY <1>1
    <3> HIDE DEF a
    <3> QED
      BY <3>1 DEF WrittenArrays
  <2>1. CASE \E n \in OffByOne(a.size) : w = [a EXCEPT !.size = n]
    <3>1. PICK n \in OffByOne(a.size) : w = [a EXCEPT !.size = n]
      BY <2>1
    <3>2. w = [size |-> n, array |-> a.array] /\ n \in Nat
      BY <1>3, <1>5, <2>0, <3>1
    <3> HIDE DEF a
    <3> QED
      BY <1>2, <1>5, <2>0, <3>2 DEF WrittenArrays
  <2>2. CASE \E bits \in Flipped(a.array.bitmap_vals) :
               w = [a EXCEPT !.array.bitmap_vals = bits]
    <3>1. PICK bits \in Flipped(a.array.bitmap_vals) :
            w = [a EXCEPT !.array.bitmap_vals = bits]
      BY <2>2
    <3>2. /\ bits \in SUBSET Indices
          /\ w = [size |-> a.size,
                  array |-> [values |-> a.array.values, bitmap_vals |-> bits,
                             bitmap_deleted_vals |-> a.array.bitmap_deleted_vals]]
      BY <1>4, <1>5, <2>0, <3>1
    <3>3. a.size = Len(a.array.values)
      BY <1>1
    <3> HIDE DEF a
    <3> QED
      BY <1>5, <2>0, <3>2, <3>3 DEF WrittenArrays
  <2>3. CASE \E bits \in Flipped(a.array.bitmap_deleted_vals) :
               w = [a EXCEPT !.array.bitmap_deleted_vals = bits]
    <3>1. PICK bits \in Flipped(a.array.bitmap_deleted_vals) :
            w = [a EXCEPT !.array.bitmap_deleted_vals = bits]
      BY <2>3
    <3>2. /\ bits \in SUBSET Indices
          /\ w = [size |-> a.size,
                  array |-> [values |-> a.array.values,
                             bitmap_vals |-> a.array.bitmap_vals,
                             bitmap_deleted_vals |-> bits]]
      BY <1>4, <1>5, <2>0, <3>1
    <3>3. a.size = Len(a.array.values)
      BY <1>1
    <3> HIDE DEF a
    <3> QED
      BY <1>5, <2>0, <3>2, <3>3 DEF WrittenArrays
  <2> QED
    BY <2>1, <2>2, <2>3 DEF DamagedArrays
<1> HIDE DEF a
<1>7. /\ g.arrays = [f.arrays EXCEPT ![s] = w]
      /\ g.nb_elements = f.nb_elements /\ g.load = f.load
      /\ g.bucket_count = f.bucket_count
  BY <1>1 DEF FileRecords
<1>8. /\ g.arrays \in Seq(WrittenArrays(Pair)) /\ DOMAIN g.arrays = DOMAIN f.arrays
      /\ g.arrays[s] = w /\ \A r \in DOMAIN f.arrays \ {s} : g.arrays[r] = f.arrays[r]
  BY <1>1, <1>6, <1>7
<1>9. FileValues(g) = FileValues(f)
  <2>1. \A r \in DOMAIN f.arrays : g.arrays[r].array.values = f.arrays[r].array.values
    BY <1>6, <1>8 DEF a
  <2>2. [r \in DOMAIN g.arrays |-> g.arrays[r].array.values]
          = [r \in DOMAIN f.arrays |-> f.arrays[r].array.values]
    BY <1>8, <2>1
  <2> QED
    BY <2>2 DEF FileValues
<1> QED
  BY <1>6, <1>7, <1>8, <1>9 DEF SoundFile, HalfSound

LEMMA DamageStep ==
  ASSUME StorageInv, Damage
  PROVE  StorageInv'
<1>1. /\ stage = "stored" /\ stage' = "stored" /\ SoundFile(file) /\ OwnFile(file)
      /\ HalfSound(file) /\ UNCHANGED vars /\ BlankOK
  BY DEF Damage, StorageInv, FileOK
<1>2. SoundFile(file') /\ HalfSound(file') /\ origin' \in {"damaged_header", "damaged_array"}
  BY <1>1, HeaderDamaged, ArrayDamaged DEF Damage
<1>3. FileOK'
  BY <1>2 DEF FileOK, Damaged
<1>4. BlankOK'
  BY <1>1 DEF BlankOK, EngineRest, vars, table, limits, cursor, build
<1> QED
  BY <1>1, <1>2, <1>3, <1>4 DEF StorageInv

(* A process whose table has been emptied.                                 *)
LEMMA EmptiedStep ==
  ASSUME EngineRest, NewTable
  PROVE  BlankOK'
BY LoadAssumption DEF NewTable, BlankOK, EngineRest, cursor, build

(* A refused file, and a table that is given up.                           *)
LEMMA RefuseStep ==
  ASSUME StorageInv, RefuseVersion \/ RefuseReserve \/ FastRefuse \/ Discard
  PROVE  StorageInv'
<1>1. /\ stage \in {"stored", "reserving", "read"} /\ stage' = "stored" /\ NewTable
      /\ UNCHANGED <<file, origin>>
  BY DEF RefuseVersion, RefuseReserve, FastRefuse, Discard, Refuse
<1>2. EngineRest
  BY <1>1 DEF StorageInv, BlankOK, ReadOK
<1>3. BlankOK'
  BY <1>1, <1>2, EmptiedStep
<1>4. FileOK'
  BY <1>1, FileKept DEF StorageInv
<1> QED
  BY <1>1, <1>3, <1>4 DEF StorageInv

(* A read that unwinds.                                                    *)
LEMMA ReadPanicsStep ==
  ASSUME StorageInv, ReadPanics
  PROVE  StorageInv'
<1>1. /\ stage = "reading" /\ stage' = "stored" /\ pc = "return" /\ RoomInv
      /\ UNCHANGED <<file, origin>>
  BY DEF ReadPanics, StorageInv, ReadingOK
<1>2. BlankOK'
  BY <1>1, RestAgain, LoadAssumption DEF ReadPanics, BlankOK, EngineRest, cursor, build
<1>3. FileOK'
  BY <1>1, FileKept DEF StorageInv
<1> QED
  BY <1>1, <1>2, <1>3 DEF StorageInv

(* A rehashing read starts with an empty table and all the values to come. *)
LEMMA StartRehashingStep ==
  ASSUME StorageInv, StartRehashing
  PROVE  StorageInv'
<1>1. /\ stage = "stored" /\ stage' = "reserving" /\ BlankOK /\ file' = file
      /\ UNCHANGED origin /\ SoundFile(file) /\ max_load_factor' = Clamp(file.load)
      /\ unread' = FileValues(file)
  BY DEF StartRehashing, StorageInv, FileOK
<1>2. BlankOK'
  BY <1>1, ClampOK DEF StartRehashing, SoundFile, BlankOK, EngineRest, table, cursor, build
<1>3. FileOK'
  BY <1>1, FileKept DEF StorageInv
<1> QED
  BY <1>1, <1>2, <1>3 DEF StorageInv

(* The reservation is made of an empty table.                              *)
LEMMA ReserveForFileStep ==
  ASSUME StorageInv, ReserveForFile
  PROVE  StorageInv'
<1> DEFINE r == [op |-> "reserve", count |-> file.nb_elements]
<1>1. /\ stage = "reserving" /\ stage' = "reading" /\ BlankOK /\ SoundFile(file)
      /\ UNCHANGED <<file, origin, unread>> /\ StartOnWhole(r)
      /\ max_load_factor = Clamp(file.load) /\ unread = FileValues(file)
  BY DEF ReserveForFile, StorageInv, FileOK
<1>2. r \in WholeRequests /\ r.op = "reserve" /\ r.count = file.nb_elements
  BY <1>1, RequestsOK DEF SoundFile
<1>3. RoomInv /\ Entries = {} /\ bucket_count = 0
  BY <1>1, BlankIsRoom DEF BlankOK
<1>4. RoomInv'
  BY <1>1, <1>2, <1>3, RoomStep DEF OpenNext, AskWhole
<1>5. /\ Entries' = {} /\ req' = r /\ pc' = "whole"
      /\ max_load_factor' = max_load_factor /\ bucket_count' = 0
  BY <1>1, <1>3, AskingKeeps DEF RoomInv, StartOnWhole, limits, table
<1> HIDE DEF r
<1>6. Working' /\ Reserving' /\ ~Unwinds' /\ ~Torn'
  BY <1>2, <1>5 DEF Working, Reserving, Unwinds, Torn
<1>7. unread \in Seq(Pair) /\ Len(unread) \in Nat
  BY <1>1, AllValues
<1>8. Taken' = 0
  BY <1>1, <1>7 DEF Taken
<1>9. UnreadOK'
  <2>1. \A q \in DOMAIN unread : unread[q] = FileValues(file)[0 + q]
    BY <1>1, <1>7
  <2> QED
    BY <1>1, <1>7, <1>8, <2>1 DEF UnreadOK
<1>10. ReadingOK'
  BY <1>1, <1>2, <1>4, <1>5, <1>6, <1>8, <1>9 DEF ReadingOK, Adding, Reserving
<1>11. FileOK'
  BY <1>1, FileKept DEF StorageInv
<1> QED
  BY <1>1, <1>10, <1>11 DEF StorageInv

(* The next value of the file goes into the table.                         *)
LEMMA InsertFromFileStep ==
  ASSUME StorageInv, InsertFromFile
  PROVE  StorageInv'
<1> DEFINE r == [op |-> "insert", key |-> Head(unread)[1], val |-> Head(unread)[2]]
           seq == FileValues(file)
<1>1. /\ stage = "reading" /\ stage' = "reading" /\ ReadingOK /\ SoundFile(file)
      /\ UNCHANGED <<file, origin>> /\ StartOnKey(r) /\ pc = "idle"
      /\ unread # <<>> /\ unread' = Tail(unread)
  BY DEF InsertFromFile, StorageInv, FileOK, StartOnKey
<1>2. ~Working /\ ~Unwinds
  BY <1>1 DEF Working, Unwinds
<1>3. /\ RoomInv /\ UnreadOK /\ ~Torn /\ Entries = FirstOnes(seq, Taken)
      /\ max_load_factor = Clamp(file.load)
      /\ ~Damaged => Len(seq) <= load_threshold_rehash /\ nb_deleted_buckets = 0
  BY <1>1, <1>2 DEF ReadingOK, Reserving
<1>4. seq \in Seq(Pair) /\ Len(seq) \in Nat
  BY <1>1, AllValues
<1> HIDE DEF seq
<1>5. /\ unread \in Seq(Pair) /\ Taken \in Nat /\ Taken = Len(seq) - Len(unread)
      /\ \A q \in DOMAIN unread : unread[q] = seq[Taken + q]
  BY <1>3 DEF UnreadOK, Taken, seq
<1>6. /\ Head(unread) \in Pair /\ Head(unread)[1] \in Key /\ Head(unread)[2] \in Val
      /\ Head(unread) = <<Head(unread)[1], Head(unread)[2]>>
  BY <1>1, <1>5, NextPair
<1>7. r \in KeyRequests \cup PairRequests /\ r.op = "insert"
      /\ <<r.key, r.val>> = Head(unread)
  BY <1>6, RequestsOK
<1> HIDE DEF r
<1>8. RoomInv'
  BY <1>1, <1>3, <1>7, RoomStep DEF OpenNext, AskKey
<1>9. Entries' = Entries /\ req' = r
  BY <1>1, <1>3, AskingKeeps DEF RoomInv, KeyInv
<1>10. pc' = "insert" /\ UNCHANGED <<table, limits>>
  BY <1>1, <1>7 DEF StartOnKey
<1>11. /\ unread' \in Seq(Pair) /\ Len(unread') = Len(unread) - 1 /\ Len(unread) \in Nat
       /\ \A q \in DOMAIN unread' : q + 1 \in DOMAIN unread /\ unread'[q] = unread[q + 1]
       /\ \A q \in DOMAIN unread' : q \in Nat
       /\ Head(unread) = unread[1] /\ 1 \in DOMAIN unread
  BY <1>1, <1>5
<1>12. Taken' = Taken + 1
  BY <1>1, <1>4, <1>5, <1>11 DEF Taken, seq
<1>13. \A q \in DOMAIN unread' : unread'[q] = seq[Taken' + q]
  <2> SUFFICES ASSUME NEW q \in DOMAIN unread'
               PROVE  unread'[q] = seq[Taken' + q]
    OBVIOUS
  <2>1. unread'[q] = seq[Taken + (q + 1)] /\ q \in Nat
    BY <1>5, <1>11
  <2>2. Taken + (q + 1) = Taken' + q
    BY <1>5, <1>12, <2>1
  <2> QED
    BY <2>1, <2>2
<1>14. UnreadOK'
  BY <1>1, <1>5, <1>11, <1>12, <1>13 DEF UnreadOK, seq
<1>15. Working' /\ Adding' /\ ~Reserving' /\ ~Unwinds' /\ ~Torn' /\ ~(pc' = "idle")
  <2>1. ~Torn'
    BY <1>1, <1>3, <1>10 DEF Torn, table, Rehashing
  <2> QED
    BY <1>7, <1>9, <1>10, <2>1 DEF Working, Adding, Reserving, Unwinds
<1>16. /\ Taken' >= 1 /\ Taken' - 1 = Taken /\ <<req'.key, req'.val>> = seq[Taken']
       /\ Entries' = FirstOnes(seq, Taken' - 1)
  <2>1. Taken' >= 1 /\ Taken' - 1 = Taken
    BY <1>5, <1>12
  <2>2. <<req'.key, req'.val>> = seq[Taken']
    BY <1>5, <1>7, <1>9, <1>11, <1>12
  <2> QED
    BY <1>3, <1>9, <2>1, <2>2
<1>17. ReadingOK'
  <2>1. seq = FileValues(file')
    BY <1>1 DEF seq
  <2>2. ~Damaged' => Len(seq) <= load_threshold_rehash' /\ nb_deleted_buckets' = 0
    BY <1>1, <1>3, <1>10 DEF Damaged, limits, table
  <2>3. max_load_factor' = Clamp(file'.load)
    BY <1>1, <1>3, <1>10 DEF limits
  <2> QED
    BY <1>8, <1>14, <1>15, <1>16, <2>1, <2>2, <2>3 DEF ReadingOK
<1>18. FileOK'
  BY <1>1, FileKept DEF StorageInv
<1> QED
  BY <1>1, <1>17, <1>18 DEF StorageInv

(* Every value has been read.                                              *)
LEMMA FinishRehashingStep ==
  ASSUME StorageInv, FinishRehashing
  PROVE  StorageInv'
<1> DEFINE seq == FileValues(file)
<1>1. /\ stage = "reading" /\ stage' = "read" /\ ReadingOK /\ SoundFile(file)
      /\ UNCHANGED <<vars, file, origin, unread>> /\ pc = "idle"
      /\ unread = <<>> /\ verdict' = "rehashed"
  BY DEF FinishRehashing, StorageInv, FileOK
<1>2. ~Working /\ ~Unwinds /\ ~Rehashing
  BY <1>1 DEF Working, Unwinds, Rehashing
<1>3. /\ RoomInv /\ UnreadOK /\ ~Torn /\ Entries = FirstOnes(seq, Taken)
      /\ max_load_factor = Clamp(file.load) /\ req = None /\ res = None
  BY <1>1, <1>2 DEF ReadingOK, Reserving
<1>4. /\ Len(seq) \in Nat /\ FileEntries(file) = FirstOnes(seq, Len(seq))
      /\ Cardinality(FileEntries(file)) = Len(seq)
  BY <1>1, AllValues
<1> HIDE DEF seq
<1>5. Taken = Len(seq)
  BY <1>1, <1>4 DEF Taken, seq
<1>6. Entries = FileEntries(file)
  BY <1>3, <1>4, <1>5
<1>7. nb_elements = Len(seq)
  <2>1. nb_elements = Cardinality(Occupied(sparse_buckets))
    BY <1>2, <1>3 DEF RoomInv, KeyInv, ProbeInv, Inv, CountersAgree
  <2> QED
    BY <1>2, <1>3, <1>4, <1>6, <2>1, OwnCounted
<1>8. RoomInv' /\ Entries' = Entries
  BY <1>1, <1>3, RoomStep, KeptMoves DEF vars, table, TablesKept, RoomInv, KeyInv
<1>9. EngineRest'
  BY <1>1, <1>3, RestAgain DEF EngineRest, vars, cursor, build
<1>10. DamageCaught'
  BY <1>1 DEF DamageCaught
<1>11. ReadOK'
  BY <1>1, <1>3, <1>6, <1>7, <1>8, <1>9, <1>10 DEF ReadOK, vars, table, limits, seq
<1>12. FileOK'
  BY <1>1, FileKept DEF StorageInv
<1> QED
  BY <1>1, <1>11, <1>12 DEF StorageInv

(* The engine while it reserves room for the file.                         *)
LEMMA ReservingStep ==
  ASSUME StorageInv, stage = "reading", Engine \/ EnginePanics, Reserving
  PROVE  ReadingOK'
<1> DEFINE seq == FileValues(file)
<1>1. /\ [OpenNext]_vars /\ UNCHANGED storage /\ (Step \/ HasherPanics)
      /\ ReadingOK /\ SoundFile(file) /\ Working /\ req.op = "reserve"
      /\ ~Damaged => Len(seq) <= file.nb_elements
  BY StorageOpens DEF Engine, EnginePanics, StorageInv, FileOK, Reserving
<1>2. file' = file /\ unread' = unread /\ origin' = origin /\ Taken' = Taken
      /\ FileValues(file') = seq
  BY <1>1 DEF storage, Taken
<1>3. ~Unwinds /\ pc # "idle" /\ pc # "return"
  BY <1>1 DEF Unwinds, Working
<1>4. /\ RoomInv /\ UnreadOK /\ ~Torn /\ Taken = 0 /\ Entries = {}
      /\ req.count = file.nb_elements /\ max_load_factor = Clamp(file.load)
  BY <1>1, <1>3 DEF ReadingOK, Reserving
<1>5. RoomInv' /\ max_load_factor' = max_load_factor
  BY <1>1, <1>4, RoomStep, LoadKept
<1>6. MapStep
  BY <1>1, <1>4, <1>5, EngineMaps DEF RoomInv
<1>7. /\ req' = req /\ (Working' \/ pc' = "return")
      /\ Entries' = {} \/ (pc' = "return" /\ res' = Panicked)
  BY <1>1, <1>4, <1>6, ReserveRuns
<1>8. Inv /\ Inv'
  BY <1>4, <1>5 DEF RoomInv, KeyInv, ProbeInv
<1>9. Torn' => Unwinds'
  BY <1>1, <1>4, <1>8, TornStep DEF Unwinds
<1>10. UnreadOK'
  BY <1>2, <1>4 DEF UnreadOK
<1>11. CASE Working'
  <2>1. Reserving' /\ ~Adding' /\ ~Unwinds' /\ pc' # "idle"
    BY <1>1, <1>7, <1>11 DEF Reserving, Adding, Unwinds, Working
  <2>2. Entries' = {}
    BY <1>7, <1>11 DEF Working
  <2> QED
    BY <1>2, <1>4, <1>5, <1>7, <1>9, <1>10, <1>11, <2>1, <2>2 DEF ReadingOK
<1>12. CASE pc' = "return"
  <2>1. ~Working' /\ ~Reserving' /\ ~Adding' /\ pc' # "idle"
    BY <1>12 DEF Working, Reserving, Adding
  <2>2. CASE Unwinds'
    BY <1>2, <1>4, <1>5, <2>1, <2>2 DEF ReadingOK
  <2>3. CASE ~Unwinds'
    <3>1. res' # Panicked /\ Entries' = {}
      BY <1>7, <1>12, <2>3 DEF Unwinds
    <3>2. SwapIn
      BY <1>1, <1>8, <1>12, <3>1, ReserveEnds
    <3>3. nb_deleted_buckets' = 0
      BY <3>2 DEF SwapIn
    <3>4. req.count <= load_threshold_rehash'
      BY <1>1, <1>5, <1>7, <1>12, <3>1 DEF RoomInv, ResizeKeepsPromise, ResizeOps
    <3>5. Len(seq) \in Nat /\ file.nb_elements \in Nat /\ load_threshold_rehash' \in Nat
      <4>1. load_threshold_rehash' \in Nat
        BY <1>8 DEF Inv, TypeOK, TypesOK
      <4> QED
        BY <1>1, <4>1, AllValues DEF SoundFile
    <3>6. ~Damaged' => Len(seq) <= load_threshold_rehash'
      BY <1>1, <1>2, <1>4, <3>4, <3>5 DEF Damaged
    <3>7. Entries' = FirstOnes(seq, Taken')
      BY <1>2, <1>4, <3>1 DEF FirstOnes
    <3> QED
      BY <1>2, <1>4, <1>5, <1>9, <1>10, <2>1, <2>3, <3>3, <3>6, <3>7 DEF ReadingOK
  <2> QED
    BY <2>2, <2>3
<1> QED
  BY <1>7, <1>11, <1>12

(* The engine while it inserts a value of the file.                        *)
LEMMA AddingStep ==
  ASSUME StorageInv, stage = "reading", Engine \/ EnginePanics, Adding
  PROVE  ReadingOK'
<1> DEFINE seq == FileValues(file)
<1>1. /\ [OpenNext]_vars /\ UNCHANGED storage /\ (Step \/ HasherPanics)
      /\ ReadingOK /\ SoundFile(file) /\ Working /\ req.op = "insert" /\ ~Reserving
  BY StorageOpens DEF Engine, EnginePanics, StorageInv, FileOK, Adding, Reserving
<1>2. file' = file /\ unread' = unread /\ origin' = origin /\ Taken' = Taken
      /\ FileValues(file') = seq
  BY <1>1 DEF storage, Taken
<1>3. ~Unwinds /\ pc # "idle" /\ pc # "return"
  BY <1>1 DEF Unwinds, Working
<1>4. /\ RoomInv /\ UnreadOK /\ ~Torn /\ Taken >= 1
      /\ <<req.key, req.val>> = seq[Taken]
      /\ Entries = FirstOnes(seq, Taken - 1) /\ max_load_factor = Clamp(file.load)
      /\ ~Damaged => Len(seq) <= load_threshold_rehash /\ nb_deleted_buckets = 0
  BY <1>1, <1>3 DEF ReadingOK
<1>5. RoomInv' /\ max_load_factor' = max_load_factor
  BY <1>1, <1>4, RoomStep, LoadKept
<1>6. MapStep
  BY <1>1, <1>4, <1>5, EngineMaps DEF RoomInv
<1>7. Inv /\ Inv'
  BY <1>4, <1>5 DEF RoomInv, KeyInv, ProbeInv
<1>8. seq \in Seq(Pair) /\ Len(seq) \in Nat /\ KeyedSeq(seq)
  BY <1>1, AllValues DEF SoundFile
<1> HIDE DEF seq
<1>9. Taken \in Nat /\ Taken \in 1 .. Len(seq) /\ DOMAIN seq = 1 .. Len(seq)
  <2>1. unread \in Seq(Pair) /\ Taken \in Nat /\ Taken = Len(seq) - Len(unread)
    BY <1>4 DEF UnreadOK, Taken, seq
  <2>2. Len(unread) \in Nat
    BY <2>1
  <2> QED
    BY <1>4, <1>8, <2>1, <2>2
<1> DEFINE m == Taken
<1>10. m \in Nat /\ m \in 1 .. Len(seq) /\ seq[m] = <<req.key, req.val>>
       /\ Entries = FirstOnes(seq, m - 1)
  BY <1>4, <1>9
<1> HIDE DEF m
<1>11. ~Map!Has(req.key)
  <2>1. \A e \in Entries : e[1] # req.key
    <3> SUFFICES ASSUME NEW p \in 1 .. m - 1
                 PROVE  seq[p][1] # req.key
      BY <1>10 DEF FirstOnes
    <3>1. p \in DOMAIN seq /\ m \in DOMAIN seq /\ p # m
      BY <1>8, <1>9, <1>10
    <3> QED
      BY <1>8, <1>10, <3>1 DEF KeyedSeq
  <2> QED
    BY <1>7, <2>1, EntriesArePairs, HasByKey
<1>12. FirstOnes(seq, m) = Entries \cup {<<req.key, req.val>>}
  <2>1. 1 .. m = (1 .. m - 1) \cup {m}
    BY <1>10
  <2> QED
    BY <1>10, <2>1 DEF FirstOnes
<1>13. /\ req' = req
       /\ \/ Working' /\ Entries' = Entries
          \/ /\ pc' = "return"
             /\ res' = Panicked \/ Entries' = FirstOnes(seq, m)
  BY <1>1, <1>6, <1>11, <1>12, InsertRuns
<1>14. Torn' => Unwinds'
  BY <1>1, <1>4, <1>7, TornStep DEF Unwinds
<1>15. UnreadOK'
  BY <1>2, <1>4 DEF UnreadOK, seq
<1>16. ~Damaged' => Len(seq) <= load_threshold_rehash' /\ nb_deleted_buckets' = 0
  <2> SUFFICES ASSUME ~Damaged'
               PROVE  Len(seq) <= load_threshold_rehash' /\ nb_deleted_buckets' = 0
    OBVIOUS
  <2>1. Len(seq) <= load_threshold_rehash /\ nb_deleted_buckets = 0
    BY <1>2, <1>4 DEF Damaged
  <2>2. load_threshold_rehash' >= load_threshold_rehash /\ nb_deleted_buckets' = 0
    BY <1>1, <1>4, <1>5, <2>1, InsertKeepsLimits, InsertKeepsClean
  <2>3. load_threshold_rehash \in Nat /\ load_threshold_rehash' \in Nat
    BY <1>7 DEF Inv, TypeOK, TypesOK
  <2> QED
    BY <1>8, <2>1, <2>2, <2>3
<1>17. CASE Working'
  <2>1. Adding' /\ ~Reserving' /\ ~Unwinds' /\ pc' # "idle"
    BY <1>1, <1>13, <1>17 DEF Reserving, Adding, Unwinds, Working
  <2>2. Entries' = Entries
    BY <1>13, <1>17 DEF Working
  <2>3. /\ Taken' >= 1 /\ <<req'.key, req'.val>> = FileValues(file')[Taken']
        /\ Entries' = FirstOnes(FileValues(file'), Taken' - 1)
    BY <1>2, <1>4, <1>13, <2>2 DEF seq
  <2> QED
    BY <1>2, <1>4, <1>5, <1>14, <1>15, <1>16, <1>17, <2>1, <2>3 DEF ReadingOK, seq
<1>18. CASE pc' = "return"
  <2>1. ~Working' /\ ~Reserving' /\ ~Adding' /\ pc' # "idle"
    BY <1>18 DEF Working, Reserving, Adding
  <2>2. ~Unwinds' => Entries' = FirstOnes(FileValues(file'), Taken')
    BY <1>2, <1>13, <1>18, <2>1 DEF Unwinds, m, seq
  <2> QED
    BY <1>2, <1>4, <1>5, <1>14, <1>15, <1>16, <2>1, <2>2 DEF ReadingOK, seq
<1> QED
  BY <1>13, <1>17, <1>18

(* The engine while a file is read.                                        *)
LEMMA ReadingEngineStep ==
  ASSUME StorageInv, stage = "reading", Engine \/ EnginePanics
  PROVE  StorageInv'
<1>1. /\ [OpenNext]_vars /\ UNCHANGED storage /\ (Step \/ HasherPanics)
      /\ ReadingOK /\ pc # "idle"
  BY StorageOpens, StepsRun DEF Engine, EnginePanics, StorageInv
<1>2. ReadingOK'
  <2>1. CASE Reserving
    BY <2>1, ReservingStep
  <2>2. CASE Adding
    BY <2>2, AddingStep
  <2>3. CASE pc = "return"
    <3>1. Finish /\ res # Panicked
      BY <2>3
      DEF Engine, EnginePanics, HasherPanics, Step, Find, FindNoBuckets, FindNoArrays,
          FindHit, FindMiss, FindAdvance, Drain, DrainNext, SwapIn, SwapNested, Place,
          PlaceHere, PlaceAdvance, PlaceExhausted, Placing, Insert, InsertNoArrays,
          InsertExhausted, InsertHit, InsertAdvance, InsertEmpty, Inserting, WholeTable,
          Resize, Clear, EraseAll, Retain, PopFront, EraseRange, SetMaxLoadFactor, Whole
    <3>2. ~Unwinds /\ ~Working /\ ~Reserving
      BY <2>3, <3>1 DEF Unwinds, Working, Reserving
    <3>3. /\ RoomInv /\ UnreadOK /\ ~Torn /\ max_load_factor = Clamp(file.load)
          /\ Entries = FirstOnes(FileValues(file), Taken)
          /\ ~Damaged => /\ Len(FileValues(file)) <= load_threshold_rehash
                         /\ nb_deleted_buckets = 0
      BY <1>1, <3>2 DEF ReadingOK
    <3>4. /\ pc' = "idle" /\ req' = None /\ res' = None /\ UNCHANGED <<table, limits, build>>
      BY <3>1 DEF Finish
    <3>5. RoomInv' /\ Entries' = Entries
      BY <1>1, <3>3, <3>4, RoomStep, KeptMoves DEF table, TablesKept, RoomInv, KeyInv
    <3>6. ~Unwinds' /\ ~Working' /\ ~Reserving' /\ ~Adding' /\ ~Torn'
      BY <2>3, <3>3, <3>4 DEF Unwinds, Working, Reserving, Adding, Torn, Rehashing, table
    <3>7. UnreadOK' /\ Taken' = Taken /\ Damaged' = Damaged /\ file' = file
      BY <1>1, <3>3 DEF UnreadOK, Taken, Damaged, storage
    <3> QED
      BY <3>3, <3>4, <3>5, <3>6, <3>7 DEF ReadingOK, limits, table
  <2> QED
    BY <1>1, <2>1, <2>2, <2>3 DEF ReadingOK, Working
<1>3. FileOK'
  BY <1>1, FileKept DEF StorageInv, storage
<1> QED
  BY <1>1, <1>2, <1>3 DEF StorageInv, storage

(* What a file must satisfy to be accepted says what its arrays are.       *)
LEMMA AcceptedFile ==
  ASSUME NEW f, SoundFile(f), HalfSound(f), FastAccepts(f)
  PROVE  /\ f.bucket_count \in SettledCounts /\ f.bucket_count \in Nat
         /\ \A s \in DOMAIN f.arrays :
              /\ Len(f.arrays[s].array.values) = Cardinality(f.arrays[s].array.bitmap_vals)
              /\ f.arrays[s].array.bitmap_vals \cap f.arrays[s].array.bitmap_deleted_vals = {}
         /\ \A i \in 0 .. f.bucket_count - 1 : SparseBucket(i) + 1 \in DOMAIN f.arrays
         /\ f.nb_elements = Len(FileValues(f)) /\ f.nb_deleted = DeletedCount(f)
         /\ f.arrays = <<>> => f.bucket_count = 0
<1> DEFINE n == f.bucket_count
           arrays == f.arrays
<1>1. /\ Settle(n) = n /\ n \in 0 .. UsizeMax
      /\ f.nb_sparse = NbSparseBuckets(n) /\ f.nb_sparse <= Len(arrays)
      /\ \A s \in DOMAIN arrays : ArrayAccepted(arrays[s])
      /\ f.nb_elements = PresentCount(f) /\ f.nb_deleted = DeletedCount(f)
  BY DEF FastAccepts, CountsAccepted, HalfSound
<1>2. arrays \in Seq(WrittenArrays(Pair)) /\ Len(arrays) \in Nat
      /\ DOMAIN arrays = 1 .. Len(arrays)
  <2>1. arrays \in Seq(WrittenArrays(Pair))
    BY DEF SoundFile
  <2> QED
    BY <2>1
<1>3. \A s \in DOMAIN arrays :
        /\ arrays[s].size = Len(arrays[s].array.values)
        /\ arrays[s].size = Cardinality(arrays[s].array.bitmap_vals)
        /\ arrays[s].array.bitmap_vals \cap arrays[s].array.bitmap_deleted_vals = {}
  BY <1>1 DEF HalfSound, ArrayAccepted
<1>4. PresentCount(f) = Len(FileValues(f))
  BY <1>2, <1>3, SizesAddUp
<1> HIDE DEF n, arrays
<1>5. n \in SettledCounts /\ n \in Nat /\ n \in 0 .. MaxBucketCount
  <2>1. n # LengthError
    BY <1>1, SizesAreNat
  <2>2. n \in SettledCounts
    BY <1>1, <2>1, SettleOK
  <2>3. n \in 0 .. MaxBucketCount
    BY <2>2, SizesAreNat
  <2> QED
    BY <2>2, <2>3
<1>6. /\ NbSparseBuckets(n) \in Nat /\ (n > 0 => NbSparseBuckets(n) > 0)
      /\ \A i \in 0 .. n - 1 : SparseBucket(i) \in 0 .. NbSparseBuckets(n) - 1
  BY <1>5, ArraysCover
<1>7. \A i \in 0 .. n - 1 : SparseBucket(i) + 1 \in DOMAIN arrays
  BY <1>1, <1>2, <1>6
<1>8. arrays = <<>> => n = 0
  BY <1>1, <1>2, <1>5, <1>6
<1> QED
  BY <1>1, <1>3, <1>4, <1>5, <1>7, <1>8 DEF n, arrays

(* The table of an own file comes back slot by slot.                       *)
LEMMA OwnTableBack ==
  ASSUME NEW f, f.arrays = <<>> => f.bucket_count = 0
  PROVE  Restored(f) = TableOf(f)
<1>1. CASE f.arrays = <<>>
  <2>1. 0 .. f.bucket_count - 1 = {} /\ 0 .. 0 - 1 = {}
    BY <1>1
  <2>2. Restored(f) = NoArrays
    BY <2>1 DEF Restored, NoArrays, FreshBuckets
  <2> QED
    BY <1>1, <2>2 DEF TableOf
<1>2. CASE f.arrays # <<>>
  BY <1>2 DEF TableOf
<1> QED
  BY <1>1, <1>2

(* A hash-compatible read takes the table over.                            *)
LEMMA FastReadStep ==
  ASSUME StorageInv, FastRead
  PROVE  StorageInv'
<1>1. /\ stage = "stored" /\ stage' = "read" /\ BlankOK /\ SoundFile(file)
      /\ HalfSound(file) /\ FastAccepts(file) /\ (origin = "own" \/ Damaged)
      /\ UNCHANGED <<file, origin, unread, pc, req, res, cursor, build>>
      /\ verdict' = "restored"
  BY DEF FastRead, StorageInv, FileOK, Damaged
<1>2. /\ bucket_count' = file.bucket_count /\ sparse_buckets' = Restored(file)
      /\ nb_elements' = file.nb_elements /\ nb_deleted_buckets' = file.nb_deleted
      /\ max_load_factor' = Clamp(file.load)
      /\ load_threshold_rehash' = ThresholdRehash(file.bucket_count, Clamp(file.load))
      /\ load_threshold_clear_deleted' =
           ThresholdClear(file.bucket_count, Clamp(file.load))
  BY DEF FastRead, Restored
<1>3. EngineRest'
  BY <1>1 DEF BlankOK, EngineRest, cursor, build
<1>4. /\ file.bucket_count \in Nat
      /\ \A s \in DOMAIN file.arrays :
           /\ Len(file.arrays[s].array.values)
                = Cardinality(file.arrays[s].array.bitmap_vals)
           /\ file.arrays[s].array.bitmap_vals
                \cap file.arrays[s].array.bitmap_deleted_vals = {}
      /\ \A i \in 0 .. file.bucket_count - 1 : SparseBucket(i) + 1 \in DOMAIN file.arrays
      /\ file.nb_elements = Len(FileValues(file)) /\ file.nb_deleted = DeletedCount(file)
      /\ file.arrays = <<>> => file.bucket_count = 0
  BY <1>1, AcceptedFile
<1>5. DamageCaught'
  BY <1>1, <1>2, <1>4 DEF DamageCaught
<1>6. ASSUME ~Damaged
      PROVE  RoomInv' /\ Entries' = FileEntries(file)
  <2>1. OwnFile(file)
    BY <1>1, <1>6 DEF StorageInv, FileOK
  <2>2. Restored(file) = TableOf(file)
    BY <1>4, OwnTableBack
  <2>3. InOrder(sparse_buckets', bucket_count', nb_elements', nb_deleted_buckets')
    BY <1>2, <2>1, <2>2 DEF OwnFile
  <2>4. ThresholdsFresh'
    BY <1>2 DEF ThresholdsFresh
  <2>5. max_load_factor' \in 1 .. 8
    BY <1>1, <1>2, ClampOK DEF SoundFile
  <2>6. RoomInv'
    BY <1>3, <2>3, <2>4, <2>5, RestOKNext
  <2>7. Entries' = HeldIn(sparse_buckets')
    BY <1>3, <2>6, AtRestNext DEF RoomInv, KeyInv, ProbeInv, EngineRest, Rehashing
  <2>8. FileEntries(file) = HeldIn(TableOf(file))
    BY <2>1 DEF OwnFile
  <2> QED
    BY <1>2, <2>2, <2>6, <2>7, <2>8
<1>7. ReadOK'
  BY <1>1, <1>2, <1>3, <1>4, <1>5, <1>6 DEF ReadOK, Damaged
<1>8. FileOK'
  BY <1>1, FileKept DEF StorageInv
<1> QED
  BY <1>1, <1>7, <1>8 DEF StorageInv

(* The process goes on with the table that it has read.                    *)
LEMMA OpenStep ==
  ASSUME StorageInv, Open
  PROVE  StorageInv'
<1>1. /\ stage = "read" /\ stage' = "running" /\ ~Damaged /\ ReadOK
      /\ UNCHANGED <<vars, unread>> /\ origin' = "own"
  BY DEF Open, StorageInv
<1>2. RoomInv /\ EngineRest
  BY <1>1 DEF ReadOK
<1>3. RoomInv'
  BY <1>1, <1>2, RoomStep
<1>4. pc' = "idle" /\ req' = None /\ res' = None
  BY <1>1, <1>2 DEF EngineRest, vars
<1>5. FileOK'
  BY <1>1 DEF FileOK
<1> QED
  BY <1>1, <1>3, <1>4, <1>5 DEF StorageInv

(* Nothing happens.                                                        *)
LEMMA StorageStutter ==
  ASSUME StorageInv, UNCHANGED allVars
  PROVE  StorageInv'
<1>1. /\ UNCHANGED <<table, limits, pc, req, res, cursor, build>>
      /\ UNCHANGED <<stage, file, origin, verdict, unread>> /\ UNCHANGED vars
  BY DEF allVars, vars, storage
<1>2. RoomInv => RoomInv' /\ Entries' = Entries
  BY <1>1, RoomStep, KeptMoves DEF RoomInv, KeyInv, TablesKept, table
<1>3. FileOK'
  BY <1>1 DEF StorageInv, FileOK, Damaged
<1>4. (BlankOK => BlankOK') /\ (EngineRest => EngineRest')
  BY <1>1 DEF BlankOK, EngineRest, table, limits, cursor, build
<1>5. ReadingOK => ReadingOK'
  BY <1>1, <1>2
  DEF ReadingOK, Working, Reserving, Adding, Unwinds, UnreadOK, Taken, Torn, Rehashing,
      Damaged, table, limits
<1>6. DamageCaught => DamageCaught'
  BY <1>1 DEF DamageCaught, table
<1>7. ReadOK => ReadOK'
  BY <1>1, <1>2, <1>4, <1>6 DEF ReadOK, Damaged, table, limits
<1> QED
  BY <1>1, <1>2, <1>3, <1>4, <1>5, <1>7 DEF StorageInv, limits

LEMMA StorageStep ==
  ASSUME StorageInv, [StorageNext]_allVars
  PROVE  StorageInv'
<1>1. CASE Client
  BY <1>1, RunningStep DEF Client
<1>2. CASE Engine \/ EnginePanics
  BY <1>2, RunningStep, ReadingEngineStep DEF Engine, EnginePanics
<1>3. CASE Save \/ Damage
  BY <1>3, SaveStep, DamageStep
<1>4. CASE RefuseVersion \/ RefuseReserve \/ FastRefuse \/ Discard
  BY <1>4, RefuseStep
<1>5. CASE StartRehashing \/ ReserveForFile \/ InsertFromFile
  BY <1>5, StartRehashingStep, ReserveForFileStep, InsertFromFileStep
<1>6. CASE FinishRehashing \/ ReadPanics
  BY <1>6, FinishRehashingStep, ReadPanicsStep
<1>7. CASE FastRead \/ Open
  BY <1>7, FastReadStep, OpenStep
<1>8. CASE UNCHANGED allVars
  BY <1>8, StorageStutter
<1> QED
  BY <1>1, <1>2, <1>3, <1>4, <1>5, <1>6, <1>7, <1>8 DEF StorageNext, Reading

LEMMA StorageStarts ==
  ASSUME StorageInit
  PROVE  StorageInv
<1>1. CASE Init /\ stage = "running" /\ origin = "own"
  <2>1. RoomInv
    BY <1>1, RoomInitOK, KeyInitOK DEF Init, ThresholdsFresh, RoomInv
  <2>2. pc = "idle" /\ req = None /\ res = None
    BY <1>1 DEF Init
  <2> QED
    BY <1>1, <2>1, <2>2 DEF StorageInv, FileOK
<1>2. CASE stage = "stored" /\ file \in ForeignFiles /\ origin = "foreign"
  <2>1. BlankOK
    BY <1>2, LoadAssumption DEF StorageInit, BlankOK, EngineRest
  <2> DEFINE f == file
  <2> HIDE DEF f
  <2>2. f \in ForeignFiles
    BY <1>2 DEF f
  <2>3. /\ f.arrays \in Seq(WrittenArrays(Pair)) /\ f.load \in Nat
        /\ f.nb_elements = Len(FileValues(f)) /\ KeyedSeq(FileValues(f))
    BY <2>2, ForeignAssumption DEF WrittenArrays, Indices, KeyedSeq
  <2>4. f.nb_elements \in Nat
    <3>1. FileValues(f) \in Seq(Pair)
      BY <2>3, FileValuesOK
    <3> QED
      BY <2>3, <3>1
  <2>5. FileOK
    BY <1>2, <2>3, <2>4 DEF FileOK, SoundFile, Damaged, f
  <2> QED
    BY <1>2, <2>1, <2>5 DEF StorageInv
<1> QED
  BY <1>1, <1>2 DEF StorageInit

LEMMA StorageInvHolds == StorageSpec => []StorageInv
BY StorageStarts, StorageStep, PTL DEF StorageSpec

-----------------------------------------------------------------------------
(* The theorems. *)

(* A table that is restored from a file is never one with a slot of two    *)
(* kinds, a value bit without a value, a slot without an array or counters *)
(* that do not count: whichever single field of the file has changed.      *)
THEOREM DamageFound == StorageSpec => []DamageCaught
<1>1. StorageInv => DamageCaught
  BY DEF StorageInv, ReadOK, DamageCaught
<1> QED
  BY <1>1, StorageInvHolds, PTL

(* After a read of an undamaged file, in either mode and with any policy   *)
(* and hash function, lookups find every value and the counters,           *)
(* thresholds and load factor are those of the contents and of the file.   *)
THEOREM ReadsWhole == StorageSpec => []ReadBackWhole
<1>1. StorageInv => ReadBackWhole
  BY DEF StorageInv, ReadOK, ReadBackWhole, RoomInv, KeyInv, ProbeInv, Inv
<1> QED
  BY <1>1, StorageInvHolds, PTL

(* The reservation makes room for all the values of the file.              *)
LEMMA RoomMade ==
  ASSUME StorageInv, [StorageNext]_allVars,
         stage = "reading", ~Damaged, pc = "insert", pc' = "drain"
  PROVE  probe >= bucket_count
<1> DEFINE seq == FileValues(file)
<1>1. ReadingOK /\ SoundFile(file) /\ Working /\ ~Unwinds
  BY DEF StorageInv, FileOK, Working, Unwinds
<1>2. Step \/ HasherPanics
  BY DEF StorageNext, Client, Engine, EnginePanics, Save, Damage, RefuseVersion,
         StartRehashing, Reading, RefuseReserve, ReserveForFile, InsertFromFile,
         StartOnKey, FinishRehashing, ReadPanics, FastRead, FastRefuse, Open, Discard,
         allVars, vars
<1>3. RoomInv /\ Inv
  BY <1>1 DEF ReadingOK, RoomInv, KeyInv, ProbeInv
<1>4. ~Reserving
  BY <1>3 DEF Reserving, Inv, TypeOK, CallOK, PairRequests
<1>5. /\ ~Torn /\ UnreadOK /\ Taken >= 1 /\ Entries = FirstOnes(seq, Taken - 1)
      /\ Len(seq) <= load_threshold_rehash /\ nb_deleted_buckets = 0
  BY <1>1, <1>4 DEF ReadingOK
<1>6. seq \in Seq(Pair) /\ Len(seq) \in Nat /\ KeyedSeq(seq)
  BY <1>1, AllValues DEF SoundFile
<1> DEFINE m == Taken - 1
<1>7. m \in 0 .. Len(seq) /\ m < Len(seq)
  <2>1. unread \in Seq(Pair) /\ Taken \in Nat /\ Taken = Len(seq) - Len(unread)
    BY <1>5 DEF UnreadOK, Taken
  <2> QED
    BY <1>5, <1>6, <2>1
<1> HIDE DEF seq, m
<1>8. Cardinality(FirstOnes(seq, m)) = m
  BY <1>6, <1>7, ValuesCount
<1>9. nb_elements = m
  <2>1. ~Rehashing
    BY DEF Rehashing
  <2>2. nb_elements = Cardinality(Occupied(sparse_buckets))
    BY <1>3, <1>5, <2>1 DEF Inv, CountersAgree
  <2> QED
    BY <1>3, <1>5, <1>8, <2>1, <2>2, OwnCounted DEF m
<1>10. nb_elements < load_threshold_rehash
  <2>1. load_threshold_rehash \in Nat
    BY <1>3 DEF Inv, TypeOK, TypesOK
  <2> QED
    BY <1>5, <1>6, <1>7, <1>9, <2>1
<1> QED
  BY <1>2, <1>3, <1>5, <1>10, InsertWithRoom

(* While a file is read with rehashing the table is never rebuilt at a     *)
(* threshold: reserve has seen to that, whatever order the values come in. *)
THEOREM ReadsInPlace == StorageSpec => ReadWithoutGrowth
<1>1. StorageInv /\ [StorageNext]_allVars =>
        (stage = "reading" /\ ~Damaged /\ pc = "insert" /\ pc' = "drain" =>
           probe >= bucket_count)
  BY RoomMade
<1>2. UNCHANGED allVars => pc' = pc
  BY DEF allVars, vars
<1> QED
  BY <1>1, <1>2, StorageInvHolds, PTL DEF StorageSpec, ReadWithoutGrowth

-----------------------------------------------------------------------------
(* One and the same map. *)

(* A step of the table in use is a step of the map that persists.          *)
LEMMA RunningMaps ==
  ASSUME MapStep, stage = "running", stage' = "running"
  PROVE  Stored!Next \/ UNCHANGED Stored!mapVars
<1>1. Held = Entries /\ Held' = Entries'
  BY DEF Held
<1>2. CASE UNCHANGED Map!mapVars
  BY <1>1, <1>2 DEF Map!mapVars, Stored!mapVars
<1>3. CASE Map!Call \/ Map!Finish
  BY <1>1, <1>3 DEF Map!Call, Map!Finish, Stored!Next, Stored!Call, Stored!Finish
<1>4. \A k : Map!Has(k) = Stored!Has(k) /\ Map!Lookup(k) = Stored!Lookup(k)
             /\ Map!Others(k) = Stored!Others(k)
  BY <1>1 DEF Map!Has, Stored!Has, Map!Lookup, Stored!Lookup, Map!EntryOf, Stored!EntryOf,
              Map!Others, Stored!Others, Map!Done, Stored!Done, Map!Answer, Stored!Answer
<1>5. \A a : Map!Respond(a) = Stored!Respond(a)
  BY DEF Map!Respond, Stored!Respond
<1>6. \A ops : Map!Asked(ops) = Stored!Asked(ops)
  BY DEF Map!Asked, Stored!Asked
<1>7. CASE Map!Get \/ Map!Remove \/ Map!GetMut
  BY <1>1, <1>4, <1>5, <1>6, <1>7
  DEF Map!Get, Map!Remove, Map!GetMut, Stored!Next, Stored!Get, Stored!Remove,
      Stored!GetMut
<1>8. CASE Map!AddNew \/ Map!KeepOld \/ Map!Overwrite
  BY <1>1, <1>4, <1>5, <1>6, <1>8
  DEF Map!AddNew, Map!KeepOld, Map!Overwrite, Stored!Next, Stored!AddNew,
      Stored!KeepOld, Stored!Overwrite, Map!Answer, Stored!Answer
<1>9. CASE Map!Configure \/ Map!EraseEverything \/ Map!Retain \/ Map!Panic
  BY <1>1, <1>5, <1>6, <1>9
  DEF Map!Configure, Map!EraseEverything, Map!Retain, Map!Panic, Stored!Next,
      Stored!Configure, Stored!EraseEverything, Stored!Retain, Stored!Panic, Map!Done,
      Stored!Done, Map!Answer, Stored!Answer
<1>10. CASE Map!PopFront
  BY <1>1, <1>5, <1>6, <1>10
  DEF Map!PopFront, Stored!Next, Stored!PopFront, Map!Done, Stored!Done, Map!Answer,
      Stored!Answer
<1>11. CASE Map!EraseRange
  <2>1. \A S : Map!Cardinality(S) = Stored!Cardinality(S)
    BY DEF Map!Cardinality, Stored!Cardinality
  <2>2. Map!Done = Stored!Done
    BY DEF Map!Done, Stored!Done, Map!Answer, Stored!Answer
  <2>3. Stored!EraseRange
    BY <1>1, <1>5, <1>6, <1>11, <2>1, <2>2 DEF Map!EraseRange, Stored!EraseRange
  <2> QED
    BY <2>3 DEF Stored!Next
<1> QED
  BY <1>2, <1>3, <1>7, <1>8, <1>9, <1>10, <1>11 DEF MapStep, Map!Next

(* Writing, damaging, reading and opening a file are steps that the map    *)
(* does not see.                                                           *)
LEMMA FileMaps ==
  ASSUME StorageInv, [StorageNext]_allVars
  PROVE  Stored!Next \/ UNCHANGED Stored!mapVars
<1>1. CASE Client \/ ((Engine \/ EnginePanics) /\ stage = "running")
  <2>1. [OpenNext]_vars /\ UNCHANGED storage /\ stage = "running" /\ stage' = "running"
    BY <1>1, StorageOpens DEF Client, storage
  <2>2. RoomInv /\ RoomInv'
    BY <2>1, RoomStep DEF StorageInv
  <2>3. MapStep
    BY <2>1, <2>2, EngineMaps DEF RoomInv
  <2> QED
    BY <2>1, <2>3, RunningMaps
<1>2. CASE Save
  <2>1. RoomInv /\ pc = "idle" /\ req = None /\ res = None
    BY <1>2 DEF Save, StorageInv
  <2>2. FileEntries(Written) = Entries
    BY <2>1, WrittenOK
  <2>3. stage = "running" /\ stage' = "stored" /\ file' = Written
    BY <1>2 DEF Save
  <2>4. Held = Entries /\ Held' = Entries
    BY <2>2, <2>3 DEF Held
  <2> QED
    BY <2>1, <2>3, <2>4, PhaseIs DEF Stored!mapVars
<1>3. CASE Damage
  <2>1. /\ stage = "stored" /\ stage' = "stored" /\ SoundFile(file) /\ OwnFile(file)
        /\ HalfSound(file)
    BY <1>3 DEF Damage, StorageInv, FileOK
  <2>2. FileValues(file') = FileValues(file)
    BY <1>3, <2>1, HeaderDamaged, ArrayDamaged DEF Damage
  <2> QED
    BY <2>1, <2>2 DEF Stored!mapVars, Held, FileEntries
<1>4. CASE Open
  <2>1. /\ stage = "read" /\ stage' = "running" /\ EngineRest /\ RoomInv
        /\ Entries = FileEntries(file) /\ UNCHANGED vars
    BY <1>4 DEF Open, StorageInv, ReadOK
  <2>2. Entries' = Entries
    BY <2>1, KeptMoves DEF RoomInv, KeyInv, TablesKept, vars, table
  <2>3. Held' = Held
    BY <2>1, <2>2 DEF Held
  <2>4. pc' = "idle" /\ req' = None /\ res' = None
    BY <2>1 DEF EngineRest, vars
  <2> QED
    BY <2>1, <2>3, <2>4, PhaseIsNext DEF Stored!mapVars
<1>5. CASE stage # "running" /\ stage' # "running" /\ file' = file
  BY <1>5 DEF Stored!mapVars, Held
<1>6. CASE \/ (Engine \/ EnginePanics) /\ stage # "running"
           \/ RefuseVersion \/ StartRehashing \/ Reading \/ FastRead \/ FastRefuse
           \/ Discard
  <2>1. stage # "running" /\ stage' # "running" /\ file' = file
    BY <1>6 DEF Engine, EnginePanics, RefuseVersion, StartRehashing, Reading,
                RefuseReserve, ReserveForFile, InsertFromFile, FinishRehashing,
                ReadPanics, FastRead, FastRefuse, Discard, Refuse, storage
  <2> QED
    BY <1>5, <2>1
<1>7. CASE UNCHANGED allVars
  <2>1. UNCHANGED vars /\ stage' = stage /\ file' = file
    BY <1>7 DEF allVars, storage
  <2>2. CASE stage = "running"
    <3>1. RoomInv /\ RoomInv'
      BY <2>1, <2>2, RoomStep DEF StorageInv
    <3>2. MapStep
      BY <2>1, <3>1, EngineMaps DEF RoomInv
    <3> QED
      BY <2>1, <2>2, <3>2, RunningMaps
  <2>3. CASE stage # "running"
    BY <1>5, <2>1, <2>3
  <2> QED
    BY <2>2, <2>3
<1> QED
  BY <1>1, <1>2, <1>3, <1>4, <1>6, <1>7 DEF StorageNext

(* Across any number of files, with either mode of reading, refusals and   *)
(* panics while reading included, the container is one and the same map.   *)
THEOREM MapPersists == StorageSpec => Persists
BY FileMaps, StorageInvHolds, PTL DEF StorageSpec, Persists
=============================================================================
