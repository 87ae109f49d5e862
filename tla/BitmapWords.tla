----------------------------- MODULE BitmapWords -----------------------------
(***************************************************************************)
(* A sparse array as src/sparse_array.rs computes it: both bitmaps are     *)
(* words of W bits, read and written with shifts and masks, and the dense  *)
(* block is a vector whose capacity grows in steps.  The value stored at   *)
(* an index is the index itself, so a value out of order shows.            *)
(*                                                                         *)
(* Also the bit arithmetic of src/util.rs and src/popcount.rs, applied to  *)
(* whatever words the array goes through.                                  *)
(***************************************************************************)
EXTENDS Integers, Sequences, FiniteSets, SequencesExt

CONSTANTS
  W,        (* bits of a word: 64 or 32 in the code                          *)
  Levels    (* the sparsity levels to look at                                *)

ASSUME WidthAssumption == \E e \in 0 .. W : W = 2 ^ e
ASSUME LevelsAssumption == Levels \subseteq {"High", "Medium", "Low"}

(* Arithmetic, for the proofs: what 2 ^ k is.                              *)
ASSUME PowerLaw == \A k \in 0 .. 2 * W : 2 ^ (k + 1) = 2 * 2 ^ k

SA == INSTANCE SparseArray WITH Bits <- W

VARIABLES values, bitmap_vals, bitmap_deleted_vals, capacity, step

vars == <<values, bitmap_vals, bitmap_deleted_vals, capacity, step>>

Indices == 0 .. W - 1
WordMax == 2 ^ W - 1

(* STEP of the sparsity levels.                                            *)
StepOf == [High |-> 2, Medium |-> 4, Low |-> 8]

-----------------------------------------------------------------------------
(* Words *)

Bit(index) == 2 ^ index
Complement(word) == WordMax - word

(* The bits of a word, or of two side by side, and the word of given bits. *)
BitsOf(word) == { b \in 0 .. 2 * W - 1 : (word \div 2 ^ b) % 2 = 1 }
WordOf(bits) ==
  LET Low[n \in 0 .. 2 * W] ==
        IF n = 0 THEN 0
        ELSE Low[n - 1] + (IF n - 1 \in bits THEN 2 ^ (n - 1) ELSE 0)
  IN Low[2 * W]

x & y == WordOf(BitsOf(x) \cap BitsOf(y))
x | y == WordOf(BitsOf(x) \cup BitsOf(y))
x ^^ y == WordOf((BitsOf(x) \ BitsOf(y)) \cup (BitsOf(y) \ BitsOf(x)))
shiftR(x, n) == x \div 2 ^ n

(* count_ones                                                              *)
Popcount(word) == Cardinality(BitsOf(word))

(* The SWAR count on a word of twice the width.  A mask of alternating     *)
(* runs of n zeros and n ones is the n-th of Masks.                        *)
DoubleMax == 2 ^ (2 * W) - 1
Mask(n) == DoubleMax \div (2 ^ n + 1)

(* Mutant: the upper pairs are not masked.                                 *)
FallbackPopcountUnmasked(word) ==
  LET ones  == word - shiftR(word, 1)
      pairs == (ones & Mask(2)) + (shiftR(ones, 2) & Mask(2))
      bytes == (pairs + shiftR(pairs, 4)) & Mask(4)
  IN shiftR((bytes * (DoubleMax \div 255)) % (DoubleMax + 1), 2 * W - 8)

FallbackPopcount(word) ==
  LET ones  == word - (shiftR(word, 1) & Mask(1))
      pairs == (ones & Mask(2)) + (shiftR(ones, 2) & Mask(2))
      bytes == (pairs + shiftR(pairs, 4)) & Mask(4)
  IN shiftR((bytes * (DoubleMax \div 255)) % (DoubleMax + 1), 2 * W - 8)

IsPowerOfTwo(value) == value # 0 /\ (value & (value - 1)) = 0

(* After the shifts by 1, 2, 4 and on, up to one by i / 2.                 *)
Smear(value) ==
  LET Smeared[i \in 1 .. W] ==
        IF i = 1 THEN value
        ELSE LET last == Smeared[i \div 2] IN last | shiftR(last, i \div 2)
  IN Smeared[W]

(* Mutant: the value itself is smeared, not its predecessor.               *)
RoundUpSmearingValue(value) ==
  IF IsPowerOfTwo(value) THEN value ELSE IF value = 0 THEN 1
  ELSE Smear(value)

RoundUpToPowerOfTwo(value) ==
  IF IsPowerOfTwo(value) THEN value ELSE IF value = 0 THEN 1
  ELSE Smear(value - 1) + 1

(* hash & mask, and the masked sum of next_bucket, for n buckets.          *)
MaskedBucket(n, sum) == (sum % (WordMax + 1)) & (n - 1)

-----------------------------------------------------------------------------
(* The array *)

HasValue(index) == (bitmap_vals & Bit(index)) # 0
HasDeletedValue(index) == (bitmap_deleted_vals & Bit(index)) # 0

(* Mutant: the mask takes in the index itself.                             *)
IndexToOffsetInclusive(index) ==
  Popcount(bitmap_vals & ((Bit(index) * 2 + WordMax) % (WordMax + 1)))

IndexToOffset(index) ==
  Popcount(bitmap_vals & ((Bit(index) + WordMax) % (WordMax + 1)))

(* Where the scan ends that has come to index and has seen nb_ones.        *)
OffsetToIndex(offset) ==
  LET ScanBits[index \in 0 .. W] ==
        [nb_ones \in 0 .. W |->
           LET bitmap == shiftR(bitmap_vals, index) IN
           IF bitmap = 0 \/ (bitmap % 2 = 1 /\ nb_ones = offset)
           THEN index
           ELSE ScanBits[index + 1][nb_ones + (bitmap % 2)]]
  IN ScanBits[0][0]

Init ==
  /\ values = <<>> /\ bitmap_vals = 0 /\ bitmap_deleted_vals = 0
  /\ capacity = 0 /\ step \in { StepOf[level] : level \in Levels }

(* Mutants: the block doubles; the tombstone bit is toggled, not cleared.  *)
SetDoubling ==
  \E index \in Indices :
    /\ ~HasValue(index)
    /\ capacity' = IF Len(values) < capacity THEN capacity
                   ELSE IF capacity = 0 THEN step ELSE 2 * capacity
    /\ values' = InsertAt(values, IndexToOffset(index) + 1, index)
    /\ bitmap_vals' = (bitmap_vals | Bit(index))
    /\ bitmap_deleted_vals' = (bitmap_deleted_vals & Complement(Bit(index)))
    /\ UNCHANGED step
SetToggling ==
  \E index \in Indices :
    /\ ~HasValue(index)
    /\ capacity' = IF Len(values) < capacity THEN capacity ELSE capacity + step
    /\ values' = InsertAt(values, IndexToOffset(index) + 1, index)
    /\ bitmap_vals' = (bitmap_vals | Bit(index))
    /\ bitmap_deleted_vals' = (bitmap_deleted_vals ^^ Bit(index))
    /\ UNCHANGED step

(* A full block reserves exactly one step more.                            *)
Set ==
  \E index \in Indices :
    /\ ~HasValue(index)
    /\ capacity' = IF Len(values) < capacity THEN capacity ELSE Len(values) + step
    /\ values' = InsertAt(values, IndexToOffset(index) + 1, index)
    /\ bitmap_vals' = (bitmap_vals | Bit(index))
    /\ bitmap_deleted_vals' = (bitmap_deleted_vals & Complement(Bit(index)))
    /\ UNCHANGED step

(* The walks name a value by its offset and look its index up.             *)
RemoveValue ==
  \E offset \in 0 .. Len(values) - 1 :
    LET index == OffsetToIndex(offset) IN
    /\ values' = RemoveAt(values, offset + 1)
    /\ bitmap_vals' = (bitmap_vals & Complement(Bit(index)))
    /\ bitmap_deleted_vals' = (bitmap_deleted_vals | Bit(index))
    /\ UNCHANGED <<capacity, step>>

EraseAll ==
  /\ values' = <<>>
  /\ bitmap_deleted_vals' = (bitmap_deleted_vals | bitmap_vals)
  /\ bitmap_vals' = 0
  /\ UNCHANGED <<capacity, step>>

(* clear() replaces the array by a new one.                                *)
Renew ==
  /\ values' = <<>> /\ bitmap_vals' = 0 /\ bitmap_deleted_vals' = 0
  /\ capacity' = 0
  /\ UNCHANGED step

(* A clone, or from_parts with what was written of the array: the block is *)
(* as large as its values.                                                 *)
FromParts ==
  /\ capacity' = Len(values)
  /\ UNCHANGED <<values, bitmap_vals, bitmap_deleted_vals, step>>

Next == Set \/ RemoveValue \/ EraseAll \/ Renew \/ FromParts
Spec == Init /\ [][Next]_vars

-----------------------------------------------------------------------------
(* Properties *)

(* The words and shifts do to the array what SparseArray says in terms of  *)
(* sets, whichever index an offset is turned into.                         *)
Sets == SA!FromParts(BitsOf(bitmap_vals), BitsOf(bitmap_deleted_vals), values)
SetStep ==
  \/ Sets' = SA!NewArray
  \/ Sets' = SA!EraseArray(Sets)
  \/ \E i \in Indices : ~SA!HasValue(Sets, i) /\ Sets' = SA!Set(Sets, i, i)
  \/ \E i \in Indices :
       SA!HasValue(Sets, i)
         /\ Sets' = SA!RemoveValue(Sets, SA!IndexToOffset(Sets, i), i)
IsSparseArray == Sets = SA!NewArray /\ [][SetStep]_Sets

(* The offset of an index is where its value is, and leads back to it: the *)
(* one is a popcount under a mask, the other a scan over the bits.         *)
OffsetsInvert ==
  \A i \in Indices : HasValue(i) =>
    /\ IndexToOffset(i) < Len(values) /\ values[IndexToOffset(i) + 1] = i
    /\ OffsetToIndex(IndexToOffset(i)) = i

(* The portable count "equals popcountll for every input" (popcount.rs);   *)
(* the two bitmaps side by side are the input.                             *)
FallbackAgrees ==
  FallbackPopcount(bitmap_vals * (WordMax + 1) + bitmap_deleted_vals)
    = Popcount(bitmap_vals) + Popcount(bitmap_deleted_vals)

(* On any word, shifts and masks compute the quotients, remainders and     *)
(* powers of two that the other modules are written with.                  *)
WordHelpersAgree ==
  LET n == bitmap_vals IN
  /\ IsPowerOfTwo(n) <=> \E e \in Indices : n = 2 ^ e
  /\ n <= 2 ^ (W - 1) => RoundUpToPowerOfTwo(n) = SA!RoundUpToPowerOfTwo(n)
  /\ \A e \in Indices :
       MaskedBucket(2 ^ e, n) = n % 2 ^ e /\ shiftR(n, e) = n \div 2 ^ e

(* The slack of a dense block stays within one step of what a full array   *)
(* needs, also when the block was rebuilt at an odd size.                  *)
BlockBounded == Len(values) <= capacity /\ capacity < W + step
=============================================================================
