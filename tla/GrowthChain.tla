----------------------------- MODULE GrowthChain -----------------------------
(***************************************************************************)
(* The bucket count of one table under its growth policy: built, rebuilt   *)
(* on request, and grown, as SparseHash::new and rehash_impl do, with the  *)
(* errors of src/growth_policy.rs and the bound of the bucket vector; and  *)
(* its maximum load factor, from which f32 arithmetic derives the two      *)
(* thresholds and the bucket count of a reservation.  The elements are     *)
(* left out: they can only raise what rehash asks for.                     *)
(***************************************************************************)
EXTENDS LoadFactor

CONSTANTS Kinds   (* the policies to look at                               *)

ASSUME KindAssumption == Kinds \subseteq {"PowerOfTwo", "Mod", "Prime"}

VARIABLES
  kind,           (* the policy of the table                                *)
  bucket_count,   (* what it settled on                                     *)
  max_load_factor,
  refused         (* whether the last request was refused                   *)

vars == <<kind, bucket_count, max_load_factor, refused>>

PolicyNew(k, min) ==
  CASE k = "PowerOfTwo" -> PowerOfTwoNew(min)
    [] k = "Mod"        -> ModNew(min)
    [] k = "Prime"      -> PrimeNew(min)

PolicyNext(k, n) ==
  CASE k = "PowerOfTwo" -> PowerOfTwoNext(n)
    [] k = "Mod"        -> ModNext(n)
    [] k = "Prime"      -> PrimeNext(n)

PolicyMax(k) ==
  CASE k = "PowerOfTwo" -> PowerOfTwoMax
    [] k = "Mod"        -> ModMax
    [] k = "Prime"      -> PrimeMax

(* Mutant: the bucket vector is not asked.                                 *)
SettleUnbounded(k, min) == PolicyNew(k, min)

(* SparseHash::new: the policy first, then the bucket vector.              *)
Settle(k, min) ==
  IF PolicyNew(k, min) = LengthError THEN LengthError
  ELSE IF PolicyNew(k, min) > VectorMax THEN LengthError
  ELSE PolicyNew(k, min)

MaxBucketCount(k) == IF PolicyMax(k) <= VectorMax THEN PolicyMax(k) ELSE VectorMax

(* Mutant: the probe stops one slot early.                                 *)
ProbedShort(n, i, count) == { (i + (j * (j + 1)) \div 2) % n : j \in 0 .. count - 2 }

(* The slots the first count probes from slot i visit in a table of n:     *)
(* next_bucket of sparse_hash.rs adds 1, 2, 3, ... to the slot number.     *)
Probed(n, i, count) == { (i + (j * (j + 1)) \div 2) % n : j \in 0 .. count - 1 }

Requested == 0 .. WordMax

Init ==
  /\ kind \in Kinds
  /\ \E min \in Requested :
       Settle(kind, min) # LengthError /\ bucket_count = Settle(kind, min)
  /\ \E ml \in Floats : max_load_factor = Clamp(ml)
  /\ refused = FALSE

Request(min) ==
  /\ refused' = (Settle(kind, min) = LengthError)
  /\ bucket_count' = IF refused' THEN bucket_count ELSE Settle(kind, min)
  /\ UNCHANGED <<kind, max_load_factor>>

(* rehash(count), and reserve(count), which is a rehash too.               *)
Rebuild == \E count \in Requested : Request(count)
ReserveRoom(count) == Request(BucketsFor(count, max_load_factor))
Reserve == \E count \in Requested : ReserveRoom(count)

SetMaxLoadFactor ==
  /\ \E ml \in Floats : max_load_factor' = Clamp(ml)
  /\ UNCHANGED <<kind, bucket_count, refused>>

(* next_bucket_count(), and the rebuild with what it says.                 *)
Grow ==
  IF PolicyNext(kind, bucket_count) = LengthError
  THEN refused' = TRUE /\ UNCHANGED <<kind, bucket_count, max_load_factor>>
  ELSE Request(PolicyNext(kind, bucket_count))

Next == Rebuild \/ Reserve \/ SetMaxLoadFactor \/ Grow
Spec == Init /\ [][Next]_vars

(* Elements keep coming, so the table is asked to grow again and again.    *)
FairSpec == Spec /\ WF_vars(Grow)

-----------------------------------------------------------------------------
(* Properties *)

TypeOK ==
  /\ kind \in Kinds /\ bucket_count \in 0 .. VectorMax /\ refused \in BOOLEAN
  /\ max_load_factor \in Floats /\ max_load_factor \in MinLoad .. MaxLoad

(* The trait contract SparseHash assumes of a policy: a table never gets   *)
(* fewer buckets than asked for, growth asks for more than there are, and  *)
(* a hash goes to a bucket that exists.                                    *)
MeetsContract ==
  /\ \A min \in Requested :
       PolicyNew(kind, min) \in (min .. WordMax) \cup {LengthError}
  /\ PolicyNext(kind, bucket_count) \in (bucket_count + 1 .. WordMax) \cup {LengthError}
  /\ \A hash \in Requested :
       BucketForHash(bucket_count, hash) < Larger(bucket_count, 1)

(* A settled count settles on itself: the cleanup of tombstones, which     *)
(* rebuilds with the same count, does not resize, and a table read back    *)
(* with its own policy is not taken for one of another policy.             *)
Rebuildable == Settle(kind, bucket_count) = bucket_count

(* A growth adds at least a tenth, so the cost of rehashing is amortised;  *)
(* only the last one, to the ceiling, may add less.                        *)
GrowsGeometrically ==
  [][Grow /\ ~refused' =>
       /\ bucket_count' > bucket_count
       /\ \/ 10 * bucket_count' >= 11 * bucket_count
          \/ bucket_count' = MaxBucketCount(kind)]_vars

(* The probe sequence covers every bucket only for a power-of-two size     *)
(* (sparse_hash.rs, insert_with_hash), and there it does.  Whatever the    *)
(* size, once bucket_count slots have been probed there is no other to     *)
(* come, so an insertion may stop there and a key not met is absent.       *)
ProbesCover ==
  bucket_count > 0 =>
    LET reached == Probed(bucket_count, 0, bucket_count) IN
    /\ reached = 0 .. bucket_count - 1 <=> bucket_count \in PowersOfTwo
    /\ reached = Probed(bucket_count, 0, 3 * bucket_count)

(* A table that in the end only grows is refused in the end, and for good. *)
GrowthEnds == <>[][Grow]_vars => <>[]refused

(* The table can reach max_bucket_count(), "the largest bucket count the   *)
(* table can reach" (sparse_hash.rs).                                      *)
MaxReachable == Settle(kind, MaxBucketCount(kind)) = MaxBucketCount(kind)

(* Whatever the rounding, the grow threshold does not exceed the threshold *)
(* of the tombstone cleanup, and that one stays below the bucket count:    *)
(* an insertion grows or cleans up before the last empty slot is taken.    *)
(* A power-of-two table filled up to its threshold is not above its        *)
(* maximum load factor, so a reader of its file does not refuse it; in     *)
(* tables of other sizes the rounding may make the threshold too high.     *)
ThresholdsLeaveRoom ==
  LET grow  == LoadThresholdRehash(bucket_count, max_load_factor)
      clear == LoadThresholdClearDeleted(bucket_count, max_load_factor)
  IN /\ grow <= clear /\ (bucket_count > 0 => clear < bucket_count)
     /\ kind = "PowerOfTwo" => LoadFactorOf(grow, bucket_count) <= max_load_factor

(* "Reserve room for `count` elements without exceeding the load factor"   *)
(* (sparse_hash.rs): a table that has reserved room for count elements     *)
(* takes them without growing.                                             *)
ReserveKeepsRoom ==
  [][\A count \in Requested : ReserveRoom(count) /\ ~refused' =>
       LoadThresholdRehash(bucket_count', max_load_factor') >= count]_vars
=============================================================================
