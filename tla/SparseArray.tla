----------------------------- MODULE SparseArray -----------------------------
(***************************************************************************)
(* One sparse array of src/sparse_array.rs: up to Bits logical indices,    *)
(* the bitmap of those that hold a value, the bitmap of those that are     *)
(* tombstones, and the values packed in index order.  A bitmap is the set  *)
(* of its bits; BitmapWords has the words and shifts of the code.          *)
(***************************************************************************)
EXTENDS Integers, Sequences, FiniteSets, SequencesExt

CONSTANT Bits   (* BITMAP_NB_BITS, a power of two                          *)

ASSUME BitsAssumption == \E e \in 0 .. Bits : Bits = 2 ^ e

RoundUpToPowerOfTwo(n) ==
  2 ^ (CHOOSE e \in 0 .. n : 2 ^ e >= n /\ \A d \in 0 .. e - 1 : 2 ^ d < n)

SparseBucket(i) == i \div Bits
(* Mutant: the slot number is not reduced to the array.                    *)
IndexUnmasked(i) == i

IndexIn(i) == i % Bits

NbSparseBuckets(count) ==
  IF count = 0 THEN 0
  ELSE LET n == SparseBucket(RoundUpToPowerOfTwo(count)) IN IF n > 1 THEN n ELSE 1

FromParts(vals, deleted, seq) ==
  [values |-> seq, bitmap_vals |-> vals, bitmap_deleted_vals |-> deleted]

NewArray == FromParts({}, {}, <<>>)

HasValue(array, index) == index \in array.bitmap_vals
HasDeletedValue(array, index) == index \in array.bitmap_deleted_vals

IndexToOffset(array, index) == Cardinality({ j \in array.bitmap_vals : j < index })
OffsetToIndex(array, off) ==
  CHOOSE j \in array.bitmap_vals : IndexToOffset(array, j) = off

(* The dense block is 0-based in the code.                                 *)
Dense(array, off) == array.values[off + 1]

(* Mutant: the tombstone bit stays.                                        *)
SetOverTombstone(array, index, v) ==
  [values |-> InsertAt(array.values, IndexToOffset(array, index) + 1, v),
   bitmap_vals |-> array.bitmap_vals \cup {index},
   bitmap_deleted_vals |-> array.bitmap_deleted_vals]

Set(array, index, v) ==
  [values |-> InsertAt(array.values, IndexToOffset(array, index) + 1, v),
   bitmap_vals |-> array.bitmap_vals \cup {index},
   bitmap_deleted_vals |-> array.bitmap_deleted_vals \ {index}]

RemoveValue(array, off, index) ==
  [values |-> RemoveAt(array.values, off + 1),
   bitmap_vals |-> array.bitmap_vals \ {index},
   bitmap_deleted_vals |-> array.bitmap_deleted_vals \cup {index}]

EraseArray(array) ==
  [values |-> <<>>, bitmap_vals |-> {},
   bitmap_deleted_vals |-> array.bitmap_deleted_vals \cup array.bitmap_vals]

(* What has_value, has_deleted_value and value tell of a slot; the marks   *)
(* stand for the two kinds of slot without a value.                        *)
Report(array, index, empty, deleted) ==
  IF HasValue(array, index) THEN Dense(array, IndexToOffset(array, index))
  ELSE IF HasDeletedValue(array, index) THEN deleted ELSE empty
=============================================================================
