---------------------------- MODULE MCPowerOfTwo ----------------------------
(* The engine on PowerOfTwo<2>, the default policy of the crate, for TLC.  *)
(* With a 6-bit usize a vector has at most 31 entries and the largest      *)
(* table 16 buckets.                                                       *)
EXTENDS SparseHash, TLC

CONSTANTS k1, k2, k3, k4

GP == INSTANCE GrowthPolicy WITH
        WordBits <- 6, Factor <- 2, Num <- 3, Den <- 2, PrimesTable <- <<1>>

MCUsizeMax == GP!WordMax
MCPolicyNew(n) == GP!PowerOfTwoNew(n)
MCPolicyNext(n) == GP!PowerOfTwoNext(n)

(* k1 and k2 have one hash; the probe paths of k3 and k4 cross theirs.     *)
MCHashOf == [k \in Key |-> CASE k = k3 -> 1 [] k = k4 -> 34 [] OTHER -> 0]
MCSymmetry == Permutations({k1, k2})

(* The hypothesis of the theorems about power-of-two tables.               *)
ASSUME PowersAssumption == OnlyPowersOfTwo
=============================================================================
