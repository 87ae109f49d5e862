--------------------------- MODULE MCGrowthChain ---------------------------
(* The policies with their default factors and a 7-bit usize: the largest  *)
(* table of PowerOfTwo has 32 buckets, of Mod 63.  Prime steps through the *)
(* first entries of PRIMES_TABLE.  A float has fewer significant bits than *)
(* a bucket count, as f32 has fewer than usize.                            *)
EXTENDS GrowthChain

MCPrimesTable == <<1, 5, 17, 29, 37, 53>>
=============================================================================
