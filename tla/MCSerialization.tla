-------------------------- MODULE MCSerialization --------------------------
(* Files of tables on Mod<3, 2> with up to 15 buckets in arrays of 4.  A   *)
(* foreign file holds up to four values in an order of its own.            *)
EXTENDS Serialization

CONSTANTS k1, k2, k3, k4, other

GP == INSTANCE GrowthPolicy WITH
        WordBits <- 5, Factor <- 2, Num <- 3, Den <- 2, PrimesTable <- <<1>>

MCUsizeMax == GP!WordMax
MCPolicyNew(n) == GP!ModNew(n)
MCPolicyNext(n) == GP!ModNext(n)

(* All keys collide, except one whose slot lies off their probe paths.     *)
MCHashOf == [k \in Key |-> IF k = other THEN 2 ELSE 0]

Orders == { s \in UNION { [1 .. n -> Pair] : n \in 0 .. 4 } :
              \A i, j \in DOMAIN s : s[i][1] = s[j][1] => i = j }
MCForeignFiles ==
  { [version |-> 1, bucket_count |-> 16, nb_sparse |-> 1, nb_elements |-> Len(s),
     nb_deleted |-> 0, load |-> load,
     arrays |-> << [size |-> Len(s), array |-> FromParts({}, {}, s)] >>] :
       s \in Orders, load \in Loads }
=============================================================================
