---------------------------- MODULE GrowthPolicy ----------------------------
(***************************************************************************)
(* The three growth policies of src/growth_policy.rs as operators on the   *)
(* bucket count.                                                           *)
(*                                                                         *)
(* A policy value of the code (mask, modulo, iprime) is a function of the  *)
(* bucket count it was built with, so each policy is given here by         *)
(*   New(min)        the settled count, or LengthError,                    *)
(*   NextCount(n)    next_bucket_count of the policy built with n,         *)
(*   Max             max_bucket_count,                                     *)
(* and all three map a hash to a bucket with a remainder.  Integers have   *)
(* WordBits bits.  The f64 arithmetic of Mod is exact here: at 64 bits the *)
(* code rounds Num/Den * modulo to 53 significant bits.                    *)
(***************************************************************************)
EXTENDS Integers, Sequences

CONSTANTS
  WordBits,     (* usize::BITS                                              *)
  Factor,       (* FACTOR of PowerOfTwo: a power of two, at least 2         *)
  Num, Den,     (* the rational factor of Mod, at least 1.1                 *)
  PrimesTable,  (* PRIMES_TABLE of Prime, ascending by a tenth at least     *)
  LengthError   (* the error value                                          *)

ASSUME WordAssumption == WordBits \in Nat /\ WordBits >= 2 /\ LengthError \notin Nat

WordMax == 2 ^ WordBits - 1

(* The asserts of PowerOfTwo::new and Mod::new on their parameters, which  *)
(* are words.                                                              *)
ASSUME FactorAssumption ==
  /\ \E k \in 1 .. WordBits - 1 : Factor = 2 ^ k
  /\ Num \in 0 .. WordMax /\ Den \in 1 .. WordMax /\ 10 * Num >= 11 * Den

ASSUME PrimesAssumption ==
  /\ PrimesTable \in Seq(0 .. WordMax) /\ PrimesTable # <<>> /\ PrimesTable[1] = 1
  /\ \A i, j \in DOMAIN PrimesTable :
       i < j => PrimesTable[i] < PrimesTable[j] /\ 11 * PrimesTable[i] <= 10 * PrimesTable[j]

Larger(a, b) == IF a >= b THEN a ELSE b

(* isize::MAX, the ceiling the bucket vector puts on every policy.         *)
VectorMax == WordMax \div 2

(* hash & mask, hash % modulo and hash % prime: the divisor is 1 for the   *)
(* zero-bucket table.                                                      *)
BucketForHash(n, hash) == hash % Larger(n, 1)

-----------------------------------------------------------------------------
(* PowerOfTwo *)

PowersOfTwo == { 2 ^ k : k \in 0 .. WordBits - 1 }

(* Mutant: a power of two is rounded up too.                               *)
RoundUpPastValue(value) ==
  CHOOSE p \in PowersOfTwo :
    p > value /\ \A q \in PowersOfTwo : q > value => p <= q

RoundUpToPowerOfTwo(value) ==
  CHOOSE p \in PowersOfTwo :
    p >= value /\ \A q \in PowersOfTwo : q >= value => p <= q

PowerOfTwoMax == WordMax \div 2 + 1

PowerOfTwoNew(min) ==
  IF min > PowerOfTwoMax THEN LengthError
  ELSE IF min = 0 THEN 0 ELSE RoundUpToPowerOfTwo(min)

PowerOfTwoNext(n) ==
  IF Larger(n, 1) > PowerOfTwoMax \div Factor
  THEN LengthError
  ELSE Larger(n, 1) * Factor

-----------------------------------------------------------------------------
(* Mod *)

ModMax == (WordMax * Den) \div Num

ModNew(min) == IF min > ModMax THEN LengthError ELSE min

(* Mutants: the product is truncated; the table grows one bucket at a time.*)
ModNextTruncated(n) ==
  LET next == (Larger(n, 1) * Num) \div Den
  IN IF Larger(n, 1) = ModMax THEN LengthError
     ELSE IF next > ModMax THEN ModMax ELSE next
ModNextByOne(n) == IF Larger(n, 1) = ModMax THEN LengthError ELSE n + 1

ModNext(n) ==
  LET modulo == Larger(n, 1)
      next   == (modulo * Num + Den - 1) \div Den
  IN IF modulo = ModMax THEN LengthError
     ELSE IF next > ModMax THEN ModMax ELSE next

-----------------------------------------------------------------------------
(* Prime *)

PrimeMax == PrimesTable[Len(PrimesTable)]

(* partition_point(p < min): the first index whose prime is not below min. *)
PrimeIndex(min) ==
  CHOOSE i \in 1 .. Len(PrimesTable) :
    /\ PrimesTable[i] >= min
    /\ \A j \in 1 .. i - 1 : PrimesTable[j] < min

PrimeNew(min) ==
  IF min > PrimeMax THEN LengthError
  ELSE IF min = 0 THEN 0 ELSE PrimesTable[PrimeIndex(min)]

PrimeNext(n) ==
  IF PrimeIndex(n) + 1 > Len(PrimesTable)
  THEN LengthError
  ELSE PrimesTable[PrimeIndex(n) + 1]
=============================================================================
