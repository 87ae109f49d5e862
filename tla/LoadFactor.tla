----------------------------- MODULE LoadFactor -----------------------------
(***************************************************************************)
(* The floating-point arithmetic of set_max_load_factor and reserve in     *)
(* src/sparse_hash.rs.  f32 has 24 significant bits and usize has 64; here *)
(* a float has Precision significant bits, and a word WordBits, so that    *)
(* counts are rounded when they become floats, and so are products,        *)
(* quotients and sums, to the nearest float and to an even mantissa on a   *)
(* tie.                                                                    *)
(*                                                                         *)
(* A float is its value in units of 1/One.  The smallest that occurs is    *)
(* half of a load factor's complement, at least 1/16, so no float needs a  *)
(* finer unit.                                                             *)
(***************************************************************************)
EXTENDS GrowthPolicy

CONSTANT Precision   (* the significant bits of f32                        *)

(* With fewer than 5 the two thresholds of a small table may coincide with *)
(* its bucket count.                                                       *)
ASSUME PrecisionAssumption == Precision \in Nat /\ Precision >= 5

(* What exponentiation is, for the exponents below: the provers know it of *)
(* numerals only.                                                          *)
ASSUME PowerLaw ==
  \A k \in 0 .. Precision + WordBits + 7 : 2 ^ (k + 1) = 2 * 2 ^ k

One == 2 ^ (Precision + 3)

(* The distance of the floats next to num/den.  The largest, a word        *)
(* divided by the lowest load factor, is below 2^(WordBits + 4).           *)
Spacing(num, den) ==
  LET above == { k \in 0 .. WordBits + 7 : num \div 2 ^ (Precision + k) < den }
  IN 2 ^ (CHOOSE k \in above : \A j \in above : k <= j)

(* The float nearest to num/den.                                           *)
Nearest(num, den) ==
  LET step  == Spacing(num, den) * den
      below == num \div step
      rest  == 2 * (num % step)
      up    == rest > step \/ (rest = step /\ below % 2 = 1)
  IN Spacing(num, den) * (IF up THEN below + 1 ELSE below)

Floats == { x \in 0 .. One : Nearest(x, 1) = x }

(* n as f32; x as usize, which truncates and saturates; x.ceil() as usize. *)
AsFloat(n) == Nearest(n * One, 1)
AsWord(x) == IF x \div One > WordMax THEN WordMax ELSE x \div One
CeilingAsWord(x) == AsWord(x + One - 1)

Times(x, y) == Nearest(x * y, One)
Over(x, y) == Nearest(x * One, y)

-----------------------------------------------------------------------------
(* set_max_load_factor, load_factor, reserve                               *)

MinLoad == Nearest(One, 10)
MaxLoad == Nearest(8 * One, 10)

Clamp(ml) == Larger(MinLoad, IF ml < MaxLoad THEN ml ELSE MaxLoad)

LoadThresholdRehash(n, load) == AsWord(Times(AsFloat(n), load))

(* max_load_factor + 0.5 * (1.0 - max_load_factor)                         *)
LoadWithDeleted(load) ==
  Nearest(load + Times(One \div 2, Nearest(One - load, 1)), 1)

(* Mutant: the product is rounded up.                                      *)
ThresholdClearDeletedUp(n, load) ==
  CeilingAsWord(Times(AsFloat(n), LoadWithDeleted(load)))

LoadThresholdClearDeleted(n, load) ==
  AsWord(Times(AsFloat(n), LoadWithDeleted(load)))

LoadFactorOf(elements, n) ==
  IF n = 0 THEN 0 ELSE Over(AsFloat(elements), AsFloat(n))

BucketsFor(count, load) == CeilingAsWord(Over(AsFloat(count), load))
=============================================================================
