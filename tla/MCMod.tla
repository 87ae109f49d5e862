------------------------------- MODULE MCMod -------------------------------
(* The engine on Mod<3, 2> for TLC.  With a 5-bit usize the largest table  *)
(* has 15 buckets, and a probe path in it visits 5 of them; in a table of  *)
(* 14 it visits 7, in one of 9 only 4.                                     *)
EXTENDS SparseHash, TLC

CONSTANTS k1, k2, k3, k4, k5, k6, other

GP == INSTANCE GrowthPolicy WITH
        WordBits <- 5, Factor <- 2, Num <- 3, Den <- 2, PrimesTable <- <<1>>

MCUsizeMax == GP!WordMax
MCPolicyNew(n) == GP!ModNew(n)
MCPolicyNext(n) == GP!ModNext(n)

(* All keys collide, except one whose slot lies off their probe paths.     *)
MCHashOf == [k \in Key |-> IF k = other THEN 2 ELSE 0]
MCSymmetry == Permutations(Key \ {other})
=============================================================================
