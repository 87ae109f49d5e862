------------------------------ MODULE MCPrime ------------------------------
(* The engine on Prime, with the first primes of PRIMES_TABLE, for TLC.    *)
(* The probe path of a table of 5 slots visits only 3 of them.             *)
EXTENDS SparseHash, TLC

CONSTANTS k1, k2, k3, k4

GP == INSTANCE GrowthPolicy WITH
        WordBits <- 6, Factor <- 2, Num <- 3, Den <- 2,
        PrimesTable <- <<1, 5, 17, 29>>

MCUsizeMax == GP!WordMax
MCPolicyNew(n) == GP!PrimeNew(n)
MCPolicyNext(n) == GP!PrimeNext(n)

MCHashOf == [k \in Key |-> 0]
MCSymmetry == Permutations(Key)
=============================================================================
