------------------------------ MODULE MCMapApi ------------------------------
(* The API on PowerOfTwo<2>, with batches of no or two pairs, which may    *)
(* name a key twice, and other maps of no or two entries.                  *)
EXTENDS MapApi

CONSTANTS k1, k2, k3, v, w

GP == INSTANCE GrowthPolicy WITH
        WordBits <- 6, Factor <- 2, Num <- 3, Den <- 2, PrimesTable <- <<1>>

MCUsizeMax == GP!WordMax
MCPolicyNew(n) == GP!PowerOfTwoNew(n)
MCPolicyNext(n) == GP!PowerOfTwoNext(n)

(* k1 and k2 have one hash; the probe path of k3 crosses theirs.           *)
MCHashOf == [k \in Key |-> IF k = k3 THEN 1 ELSE 0]

MCBatches ==
  {<<>>} \cup { << <<a, v>>, <<b, w>> >> : a \in Key, b \in Key }
MCOtherMaps == { s \in MCBatches : s # <<>> => s[1][1] # s[2][1] }
=============================================================================
