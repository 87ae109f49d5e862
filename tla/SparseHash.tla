----------------------------- MODULE SparseHash -----------------------------
(***************************************************************************)
(* The hash table engine of src/sparse_hash.rs, driven by the map API of   *)
(* src/map.rs, one step per probed slot.                                   *)
(*                                                                         *)
(* The bucket vector is the flat function sparse_buckets from slot numbers *)
(* to Empty, Deleted (a tombstone) or a stored <<key, value>> pair: slot i *)
(* is logical index i % 64 of sparse array i \div 64.  A vector without    *)
(* arrays (a zero-bucket table, or one whose arrays rehash_impl has taken  *)
(* out) is NoArrays.                                                       *)
(*                                                                         *)
(* A call is made in state "idle" and runs alone, as the &mut self of the  *)
(* code demands.  It ends in state "return", with its answer in res.  The  *)
(* growth policy is known through the contract of its trait; GrowthPolicy  *)
(* has the three policies of the crate.                                    *)
(***************************************************************************)
EXTENDS Integers, Sequences, FiniteSets

CONSTANTS
  Key, Val,
  HashOf,           (* the user's HashKey: Key -> usize                     *)
  PolicyNew(_),     (* P::new(n): the settled bucket count or LengthError   *)
  PolicyNext(_),    (* next_bucket_count of the policy built for n buckets  *)
  UsizeMax,         (* usize::MAX                                           *)
  InitCounts,       (* bucket counts requested of the constructor           *)
  Counts,           (* arguments of rehash and reserve                      *)
  Spans,            (* arguments skip and count of erase_range              *)
  Loads,            (* arguments of set_max_load_factor, in tenths          *)
  Ops,              (* the operations clients call in a run                 *)
  HasherMayPanic,   (* whether the user's hasher may panic                  *)
  Empty, Deleted, LengthError, Panicked, None

(* MAX_BUCKET_COUNT: isize::MAX, the most entries a Vec can have.          *)
MaxBucketCount == UsizeMax \div 2

(* The bucket counts a table can settle on.                                *)
SettledCounts ==
  { PolicyNew(n) : n \in 0 .. UsizeMax } \cap (0 .. MaxBucketCount)

(* The trait contract the engine relies on.                                *)
ASSUME PolicyAssumption ==
  /\ UsizeMax \in Nat \ {0}
  /\ LengthError \notin Nat
  /\ \A n \in 0 .. UsizeMax : PolicyNew(n) \in (n .. UsizeMax) \cup {LengthError}
  /\ \A n \in SettledCounts : PolicyNext(n) \in (n + 1 .. UsizeMax) \cup {LengthError}

ASSUME ArgumentAssumption ==
  /\ HashOf \in [Key -> Nat]
  /\ InitCounts \subseteq 0 .. UsizeMax
  /\ Counts \subseteq 0 .. UsizeMax
  /\ Spans \subseteq Nat
  /\ Loads \subseteq Nat
  /\ HasherMayPanic \in BOOLEAN

Pair == Key \X Val

ASSUME MarkerAssumption ==
  /\ Empty # Deleted
  /\ Empty \notin Pair /\ Deleted \notin Pair /\ None \notin Nat

VARIABLES
  sparse_buckets, bucket_count, nb_elements, nb_deleted_buckets,
  load_threshold_rehash, load_threshold_clear_deleted, max_load_factor,
  (* the running call *)
  pc, req, res, ibucket, probe, found_deleted,
  (* rehash_impl: the old tables its nested calls still drain, innermost   *)
  (* first, and the innermost new_table                                    *)
  draining, new_buckets, new_count, new_elements

table == <<sparse_buckets, bucket_count, nb_elements, nb_deleted_buckets>>
limits == <<load_threshold_rehash, load_threshold_clear_deleted, max_load_factor>>
cursor == <<ibucket, probe, found_deleted>>
build == <<draining, new_buckets, new_count, new_elements>>
vars == <<table, limits, pc, req, res, cursor, build>>

-----------------------------------------------------------------------------
(* Data *)

Max2(a, b) == IF a >= b THEN a ELSE b
Min2(a, b) == IF a <= b THEN a ELSE b

FreshBuckets(n) == [i \in 0 .. n - 1 |-> Empty]
NoArrays == FreshBuckets(0)

(* The slots of a table that hold a value.                                 *)
Occupied(t) == { i \in DOMAIN t : t[i] \notin {Empty, Deleted} }
Tombstones(t) == { i \in DOMAIN t : t[i] = Deleted }
First(t) == CHOOSE i \in Occupied(t) : \A j \in Occupied(t) : i <= j

(* The position of slot i in iteration order.                              *)
Rank(t, i) == Cardinality({ j \in Occupied(t) : j < i })

(* into_values: the values in slot order.  The old tables of nested calls  *)
(* get one common domain; only the order of their values matters.          *)
Values(t) ==
  [i \in 0 .. MaxBucketCount - 1 |-> IF i \in Occupied(t) THEN t[i] ELSE Empty]

BucketForHash(n, k) == HashOf[k] % Max2(n, 1)

(* Mutant: the probe steps from slot to slot.                              *)
NextBucketLinear(n, i, p) == (i + 1) % n

NextBucket(n, i, p) == (i + p) % n

Settle(count) ==
  IF PolicyNew(count) = LengthError THEN LengthError
  ELSE IF PolicyNew(count) > MaxBucketCount THEN LengthError
  ELSE PolicyNew(count)

(* max_load_factor counts tenths; both products truncate.                  *)
ThresholdRehash(n, load) == (n * load) \div 10

(* Mutant: tombstones are never cleaned up.                                *)
ThresholdClearNever(n, load) == n + 1

ThresholdClear(n, load) == (n * (10 + load)) \div 20

Clamp(load) == Max2(1, Min2(load, 8))

(* Mutant: the quotient is truncated.                                      *)
BucketsForFloor(count) == Min2(UsizeMax, (10 * count) \div max_load_factor)

(* (count as f32 / max_load_factor).ceil() as usize, a saturating cast.    *)
BucketsFor(count) ==
  Min2(UsizeMax, (10 * count + max_load_factor - 1) \div max_load_factor)

ResizeOps == {"rehash", "reserve"}

(* What can be asked, and what clients ask in a run: the operations of Ops *)
(* with the given arguments.                                               *)
KeyRequests == [op : {"get", "remove"}, key : Key]
PairRequests ==
  [op : {"insert", "try_emplace", "insert_or_assign", "get_mut"}, key : Key, val : Val]
WholeRequests ==
  [op : {"clear", "erase_all", "pop_front"}]
    \cup [op : {"rehash"}, count : 0 .. UsizeMax]
    \cup [op : {"reserve"}, count : Nat]
    \cup [op : {"retain"}, keep : SUBSET Key]
    \cup [op : {"erase_range"}, skip : Nat, count : Nat]
    \cup [op : {"set_max_load_factor"}, load : Nat]

Requests == KeyRequests \cup PairRequests \cup WholeRequests

Asked(requests) == { r \in requests : r.op \in Ops }
KeyCalls == Asked(KeyRequests \cup PairRequests)
WholeCalls ==
  Asked([op : {"clear", "erase_all", "pop_front"}]
          \cup [op : ResizeOps, count : Counts]
          \cup [op : {"retain"}, keep : SUBSET Key]
          \cup [op : {"erase_range"}, skip : Spans, count : Spans]
          \cup [op : {"set_max_load_factor"}, load : Loads])

(* An answer: whether the key was there, and the entry concerned.          *)
Answer(hit, entry) == [hit |-> hit, entry |-> entry]
Done == Answer(FALSE, None)

-----------------------------------------------------------------------------
Init ==
  /\ \E n \in InitCounts :
       /\ Settle(n) # LengthError
       /\ bucket_count = Settle(n)
  /\ sparse_buckets = FreshBuckets(bucket_count)
  /\ nb_elements = 0
  /\ nb_deleted_buckets = 0
  /\ max_load_factor \in { Clamp(load) : load \in Loads }
  /\ load_threshold_rehash = ThresholdRehash(bucket_count, max_load_factor)
  /\ load_threshold_clear_deleted = ThresholdClear(bucket_count, max_load_factor)
  /\ pc = "idle" /\ req = None /\ res = None
  /\ ibucket = 0 /\ probe = 0 /\ found_deleted = None
  /\ draining = <<>> /\ new_buckets = NoArrays
  /\ new_count = 0 /\ new_elements = 0

(* The end of a call, and the start of a probe loop over n buckets.        *)
Return(answer) ==
  /\ pc' = "return" /\ res' = answer
  /\ ibucket' = 0 /\ probe' = 0 /\ found_deleted' = None
  /\ UNCHANGED req

ProbeFrom(loop, n, k) ==
  /\ pc' = loop /\ ibucket' = BucketForHash(n, k)
  /\ probe' = 0 /\ found_deleted' = None
  /\ UNCHANGED <<req, res>>

(* Mutant: the slot is computed before the probe count goes up.            *)
AdvanceByOldProbe(n) ==
  /\ probe' = probe + 1 /\ ibucket' = NextBucket(n, ibucket, probe)
  /\ UNCHANGED <<pc, req, res>>

Advance(n) ==
  /\ probe' = probe + 1 /\ ibucket' = NextBucket(n, ibucket, probe + 1)
  /\ UNCHANGED <<pc, req, res>>

(* A lookup or an insert starts to probe at once; insert is the one call   *)
(* on a key that does not look it up first.                                *)
StartOnKey(r) ==
  /\ pc = "idle"
  /\ req' = r
  /\ pc' = IF r.op = "insert" THEN "insert" ELSE "find"
  /\ ibucket' = BucketForHash(bucket_count, r.key)
  /\ UNCHANGED <<table, limits, res, probe, found_deleted, build>>

StartOnWhole(r) ==
  /\ pc = "idle"
  /\ req' = r
  /\ pc' = "whole"
  /\ UNCHANGED <<table, limits, res, cursor, build>>

CallOnKey == \E r \in KeyCalls : StartOnKey(r)
CallOnWhole == \E r \in WholeCalls : StartOnWhole(r)

Finish ==
  /\ pc = "return"
  /\ pc' = "idle" /\ req' = None /\ res' = None
  /\ UNCHANGED <<table, limits, cursor, build>>

-----------------------------------------------------------------------------
(* find_position, and the loop of erase, which probes the same way.        *)

Cell == sparse_buckets[ibucket]
Holds(cell, k) == cell \notin {Empty, Deleted} /\ cell[1] = k

(* The lookup answers, or hands over to insert_with_hash.                  *)
Absent ==
  /\ IF req.op \in {"try_emplace", "insert_or_assign"}
     THEN ProbeFrom("insert", bucket_count, req.key)
     ELSE Return(Done)
  /\ UNCHANGED <<table, limits, build>>

FindNoBuckets == pc = "find" /\ bucket_count = 0 /\ Absent

(* sparse_buckets[sib] is out of bounds: a rehash has lost the arrays.     *)
FindNoArrays ==
  /\ pc = "find" /\ bucket_count > 0 /\ sparse_buckets = NoArrays
  /\ Return(Panicked)
  /\ UNCHANGED <<table, limits, build>>

FindHit ==
  /\ pc = "find" /\ sparse_buckets # NoArrays /\ Holds(Cell, req.key)
  /\ Return(Answer(TRUE, Cell))
  /\ CASE req.op = "remove" ->
            /\ sparse_buckets' = [sparse_buckets EXCEPT ![ibucket] = Deleted]
            /\ nb_elements' = nb_elements - 1
            /\ nb_deleted_buckets' = nb_deleted_buckets + 1
       [] req.op \in {"get_mut", "insert_or_assign"} ->
            /\ sparse_buckets' =
                 [sparse_buckets EXCEPT ![ibucket] = <<req.key, req.val>>]
            /\ UNCHANGED <<nb_elements, nb_deleted_buckets>>
       [] OTHER -> UNCHANGED <<sparse_buckets, nb_elements, nb_deleted_buckets>>
  /\ UNCHANGED <<bucket_count, limits, build>>

(* Mutant: a lookup stops at a tombstone.                                  *)
FindEndsAtTombstone == Cell \in {Empty, Deleted}

(* Only a slot without a value is tested against the probe count.          *)
FindEnds == Cell = Empty \/ (Cell = Deleted /\ probe >= bucket_count)

FindMiss == pc = "find" /\ sparse_buckets # NoArrays /\ FindEnds /\ Absent

(* The probe bound of the model.  A lookup may probe for ever; the code     *)
(* tells probes apart only by probe >= bucket_count and, adding them to a  *)
(* slot number, modulo bucket_count, so probes from bucket_count on recur. *)
WrapProbe(p) == IF p >= 2 * bucket_count THEN p - bucket_count ELSE p

FindAdvance ==
  /\ pc = "find" /\ sparse_buckets # NoArrays
  /\ ~Holds(Cell, req.key) /\ ~FindEnds
  /\ probe' = WrapProbe(probe + 1)
  /\ ibucket' = NextBucket(bucket_count, ibucket, probe + 1)
  /\ UNCHANGED <<table, limits, pc, req, res, found_deleted, build>>

-----------------------------------------------------------------------------
(* rehash_impl *)

(* self.sparse_buckets is taken only after the new table could be built.   *)
Rehash(count) ==
  /\ IF Settle(count) = LengthError
     THEN /\ Return(Panicked)
          /\ UNCHANGED <<sparse_buckets, build>>
     ELSE /\ pc' = "drain"
          /\ draining' = <<Values(sparse_buckets)>>
          /\ sparse_buckets' = NoArrays
          /\ new_count' = Settle(count)
          /\ new_buckets' = FreshBuckets(Settle(count))
          /\ new_elements' = 0
          /\ ibucket' = 0 /\ probe' = 0 /\ found_deleted' = None
          /\ UNCHANGED <<req, res>>
  /\ UNCHANGED <<bucket_count, nb_elements, nb_deleted_buckets, limits>>

(* Mutant: the table is rebuilt with the buckets it has.                   *)
GrowInPlace == Rehash(bucket_count)

Grow ==
  IF PolicyNext(bucket_count) = LengthError
  THEN Return(Panicked) /\ UNCHANGED <<table, limits, build>>
  ELSE Rehash(PolicyNext(bucket_count))

(* A panic that unwinds through rehash_impl drops every moved-out value.   *)
LoseArrays ==
  /\ Return(Panicked)
  /\ draining' = <<>> /\ new_buckets' = NoArrays
  /\ new_count' = 0 /\ new_elements' = 0
  /\ UNCHANGED <<table, limits>>

InFlight == Head(draining)[First(Head(draining))]

DrainNext ==
  /\ pc = "drain" /\ Occupied(Head(draining)) # {}
  /\ ProbeFrom("place", new_count, InFlight[1])
  /\ UNCHANGED <<table, limits, build>>

HasherPanics ==
  /\ HasherMayPanic
  /\ pc = "drain" /\ Occupied(Head(draining)) # {}
  /\ LoseArrays

(* The outermost rehash_impl swaps the new table in and its caller goes on.*)
SwapIn ==
  /\ pc = "drain" /\ Occupied(Head(draining)) = {} /\ Len(draining) = 1
  /\ sparse_buckets' = new_buckets /\ bucket_count' = new_count
  /\ nb_elements' = new_elements /\ nb_deleted_buckets' = 0
  /\ load_threshold_rehash' = ThresholdRehash(new_count, max_load_factor)
  /\ load_threshold_clear_deleted' = ThresholdClear(new_count, max_load_factor)
  /\ draining' = <<>> /\ new_buckets' = NoArrays
  /\ new_count' = 0 /\ new_elements' = 0
  /\ IF req.op \in ResizeOps
     THEN Return(Done)
     ELSE ProbeFrom("insert", new_count, req.key)
  /\ UNCHANGED max_load_factor

(* A nested one swaps, and insert_on_rehash retries its value.             *)
SwapNested ==
  /\ pc = "drain" /\ Occupied(Head(draining)) = {} /\ Len(draining) > 1
  /\ draining' = Tail(draining)
  /\ UNCHANGED <<table, limits, pc, req, res, cursor, new_buckets, new_count,
                 new_elements>>

-----------------------------------------------------------------------------
(* insert_on_rehash *)

Placing == pc = "place" /\ probe < new_count

PlaceHere ==
  /\ Placing /\ ibucket \notin Occupied(new_buckets)
  /\ new_buckets' = [new_buckets EXCEPT ![ibucket] = InFlight]
  /\ new_elements' = new_elements + 1
  /\ draining' = [draining EXCEPT ![1][First(Head(draining))] = Empty]
  /\ pc' = "drain" /\ ibucket' = 0 /\ probe' = 0
  /\ UNCHANGED <<table, limits, req, res, found_deleted, new_count>>

PlaceAdvance ==
  /\ Placing /\ ibucket \in Occupied(new_buckets)
  /\ Advance(new_count)
  /\ UNCHANGED <<table, limits, found_deleted, build>>

(* Mutant: the values already placed are dropped.                          *)
NestedDrainLosing == draining

(* The nested rehash_impl drains the new table before the old one goes on. *)
NestedDrain == <<Values(new_buckets)>> \o draining

(* No free slot on the probe path: rehash_impl nests.                      *)
PlaceExhausted ==
  /\ pc = "place" /\ probe >= new_count
  /\ LET next == IF PolicyNext(new_count) = LengthError THEN LengthError
                 ELSE Settle(PolicyNext(new_count))
     IN IF next = LengthError
        THEN LoseArrays
        ELSE /\ draining' = NestedDrain
             /\ new_count' = next
             /\ new_buckets' = FreshBuckets(next)
             /\ new_elements' = 0
             /\ pc' = "drain" /\ ibucket' = 0 /\ probe' = 0
             /\ UNCHANGED <<table, limits, req, res, found_deleted>>

-----------------------------------------------------------------------------
(* insert_with_hash *)

Inserting ==
  pc = "insert" /\ sparse_buckets # NoArrays /\ probe < bucket_count

PutAt(i, reused) ==
  /\ sparse_buckets' = [sparse_buckets EXCEPT ![i] = <<req.key, req.val>>]
  /\ nb_elements' = nb_elements + 1
  /\ nb_deleted_buckets' = nb_deleted_buckets - reused
  /\ Return(Answer(FALSE, <<req.key, req.val>>))
  /\ UNCHANGED <<bucket_count, limits, build>>

(* Mutants: the tombstone counter is left alone when a tombstone is        *)
(* reused, and counts down also when none is.                              *)
PutForgettingReuse ==
  IF found_deleted # None THEN PutAt(found_deleted, 0) ELSE PutAt(ibucket, 0)
PutAlwaysReusing ==
  IF found_deleted # None THEN PutAt(found_deleted, 1) ELSE PutAt(ibucket, 1)

Put == IF found_deleted # None THEN PutAt(found_deleted, 1) ELSE PutAt(ibucket, 0)

InsertNoArrays == pc = "insert" /\ sparse_buckets = NoArrays /\ Grow

InsertExhausted ==
  /\ pc = "insert" /\ sparse_buckets # NoArrays /\ probe >= bucket_count
  /\ IF found_deleted # None THEN PutAt(found_deleted, 1) ELSE Grow

InsertHit ==
  /\ Inserting /\ Holds(Cell, req.key)
  /\ Return(Answer(TRUE, Cell))
  /\ UNCHANGED <<table, limits, build>>

(* Mutant: the first tombstone is taken before the key is known absent.    *)
InsertAtTombstone ==
  /\ Inserting /\ Cell # Empty /\ ~Holds(Cell, req.key)
  /\ IF Cell = Deleted
     THEN PutAt(ibucket, 1)
     ELSE /\ Advance(bucket_count)
          /\ UNCHANGED <<found_deleted, table, limits, build>>

InsertAdvance ==
  /\ Inserting /\ Cell # Empty /\ ~Holds(Cell, req.key)
  /\ found_deleted' =
       IF Cell = Deleted /\ found_deleted = None THEN ibucket ELSE found_deleted
  /\ Advance(bucket_count)
  /\ UNCHANGED <<table, limits, build>>

(* Mutant: the cleanup rebuilds the table with just the buckets it needs.  *)
InsertEmptyShrinking ==
  /\ Inserting /\ Cell = Empty
  /\ CASE nb_elements >= load_threshold_rehash -> Grow
       [] /\ nb_elements < load_threshold_rehash
          /\ nb_elements + nb_deleted_buckets >= load_threshold_clear_deleted ->
            Rehash(BucketsFor(nb_elements))
       [] OTHER -> Put

(* An empty slot: the key is absent, and the thresholds are checked first. *)
InsertEmpty ==
  /\ Inserting /\ Cell = Empty
  /\ CASE nb_elements >= load_threshold_rehash -> Grow
       [] /\ nb_elements < load_threshold_rehash
          /\ nb_elements + nb_deleted_buckets >= load_threshold_clear_deleted ->
            Rehash(bucket_count)
       [] OTHER -> Put

-----------------------------------------------------------------------------
(* The operations that take the whole table in one pass.                   *)

Whole(op) == pc = "whole" /\ req.op = op

(* Mutant: the elements already there are not counted.                     *)
ResizeBlindly ==
  /\ pc = "whole" /\ req.op \in ResizeOps
  /\ Rehash(IF req.op = "reserve" THEN BucketsFor(req.count) ELSE req.count)

Resize ==
  /\ pc = "whole" /\ req.op \in ResizeOps
  /\ LET asked == IF req.op = "reserve" THEN BucketsFor(req.count) ELSE req.count
     IN Rehash(Max2(asked, BucketsFor(nb_elements)))

Clear ==
  /\ Whole("clear")
  /\ sparse_buckets' = [i \in DOMAIN sparse_buckets |-> Empty]
  /\ nb_elements' = 0 /\ nb_deleted_buckets' = 0
  /\ Return(Done)
  /\ UNCHANGED <<bucket_count, limits, build>>

(* remove_value on each of the given slots.                                *)
Bury(gone) ==
  /\ sparse_buckets' =
       [i \in DOMAIN sparse_buckets |->
          IF i \in gone THEN Deleted ELSE sparse_buckets[i]]
  /\ nb_elements' = nb_elements - Cardinality(gone)
  /\ nb_deleted_buckets' = nb_deleted_buckets + Cardinality(gone)
  /\ UNCHANGED <<bucket_count, limits, build>>

(* erase_all sets the element counter to zero instead of counting down.    *)
EraseAll ==
  /\ Whole("erase_all")
  /\ sparse_buckets' =
       [i \in DOMAIN sparse_buckets |->
          IF i \in Occupied(sparse_buckets) THEN Deleted ELSE sparse_buckets[i]]
  /\ nb_elements' = 0
  /\ nb_deleted_buckets' = nb_deleted_buckets + Cardinality(Occupied(sparse_buckets))
  /\ Return(Done)
  /\ UNCHANGED <<bucket_count, limits, build>>

Retain ==
  /\ Whole("retain")
  /\ Bury({ i \in Occupied(sparse_buckets) : sparse_buckets[i][1] \notin req.keep })
  /\ Return(Done)

(* remove_nth(0) *)
PopFront ==
  /\ Whole("pop_front")
  /\ IF Occupied(sparse_buckets) = {}
     THEN Return(Done) /\ UNCHANGED <<table, limits, build>>
     ELSE /\ Bury({First(sparse_buckets)})
          /\ Return(Answer(TRUE, sparse_buckets[First(sparse_buckets)]))

EraseRange ==
  /\ Whole("erase_range")
  /\ Bury({ i \in Occupied(sparse_buckets) :
              Rank(sparse_buckets, i) \in req.skip .. req.skip + req.count - 1 })
  /\ Return(Done)

(* Mutant: the thresholds wait for the next rehash.                        *)
SetMaxLoadFactorLazily ==
  /\ Whole("set_max_load_factor")
  /\ max_load_factor' = Clamp(req.load)
  /\ Return(Done)
  /\ UNCHANGED <<table, load_threshold_rehash, load_threshold_clear_deleted, build>>

SetMaxLoadFactor ==
  /\ Whole("set_max_load_factor")
  /\ max_load_factor' = Clamp(req.load)
  /\ load_threshold_rehash' = ThresholdRehash(bucket_count, Clamp(req.load))
  /\ load_threshold_clear_deleted' = ThresholdClear(bucket_count, Clamp(req.load))
  /\ Return(Done)
  /\ UNCHANGED <<table, build>>

-----------------------------------------------------------------------------
Find == FindNoBuckets \/ FindNoArrays \/ FindHit \/ FindMiss \/ FindAdvance
Drain == DrainNext \/ SwapIn \/ SwapNested
Place == PlaceHere \/ PlaceAdvance \/ PlaceExhausted
Insert ==
  InsertNoArrays \/ InsertExhausted \/ InsertHit \/ InsertAdvance \/ InsertEmpty
WholeTable ==
  \/ Resize \/ Clear \/ EraseAll \/ Retain \/ PopFront \/ EraseRange
  \/ SetMaxLoadFactor

(* What the thread inside a call does next.                                *)
Step == Find \/ Drain \/ Place \/ Insert \/ WholeTable \/ Finish

Next == CallOnKey \/ CallOnWhole \/ Step \/ HasherPanics

Spec == Init /\ [][Next]_vars

(* A thread that is in a call keeps executing; nobody has to make a call,  *)
(* and no hasher has to panic.                                             *)
FairSpec == Spec /\ WF_vars(Step)

-----------------------------------------------------------------------------
(* Properties *)

Slot == {Empty, Deleted} \cup Pair
Table(n) == [0 .. n - 1 -> Slot]
ValueTable == [0 .. MaxBucketCount - 1 -> {Empty} \cup Pair]

(* The arrays are out of self while rehash_impl runs; they stay out when a *)
(* panic has unwound through it.                                           *)
Rehashing == pc \in {"drain", "place"}
Torn == ~Rehashing /\ bucket_count > 0 /\ sparse_buckets = NoArrays

TypesOK ==
  /\ bucket_count \in SettledCounts
  /\ sparse_buckets \in Table(bucket_count) \/ sparse_buckets = NoArrays
  /\ nb_elements \in Nat /\ nb_deleted_buckets \in Nat
  /\ max_load_factor \in 1 .. 8
  /\ load_threshold_rehash \in Nat /\ load_threshold_clear_deleted \in Nat
  /\ pc \in {"idle", "find", "insert", "whole", "drain", "place", "return"}
  /\ req \in Requests \cup {None}
  /\ res \in {None, Panicked} \cup [hit : BOOLEAN, entry : Pair \cup {None}]
  /\ ibucket \in Nat /\ probe \in Nat
  /\ found_deleted \in Nat \cup {None}
  /\ draining \in Seq(ValueTable)
  /\ new_count \in SettledCounts \cup {0} /\ new_buckets \in Table(new_count)
  /\ new_elements \in Nat

(* Where the call is decides what it is about and which tables exist; a    *)
(* slot number is in range whenever there are arrays to read.              *)
CallOK ==
  /\ pc = "find" => req \in KeyRequests \cup PairRequests
  /\ pc = "insert" => req \in PairRequests
  /\ pc = "whole" => req \in WholeRequests
  /\ pc \in {"find", "insert"} /\ sparse_buckets # NoArrays =>
       ibucket < bucket_count
  /\ found_deleted # None =>
       /\ found_deleted \in DOMAIN sparse_buckets
       /\ sparse_buckets[found_deleted] = Deleted

RehashOK ==
  /\ Rehashing =>
       /\ req \in PairRequests \/ (req \in WholeRequests /\ req.op \in ResizeOps)
       /\ sparse_buckets = NoArrays /\ draining # <<>> /\ found_deleted = None
       /\ new_count \in SettledCounts /\ Tombstones(new_buckets) = {}
       /\ req.op \notin ResizeOps => new_count >= bucket_count
  /\ ~Rehashing => draining = <<>> /\ new_count = 0 /\ new_elements = 0
  /\ pc = "place" =>
       /\ Occupied(Head(draining)) # {}
       /\ new_count > 0 => ibucket < new_count

(* Every variable of the engine has the shape of its Rust type, no index   *)
(* is out of bounds, and no counter of the code goes below zero.           *)
TypeOK == TypesOK /\ CallOK /\ RehashOK

(* The i-th slot, from 0, that a probe for k visits in a table of n slots. *)
Path(n, k, j) == (BucketForHash(n, k) + (j * (j + 1)) \div 2) % n

(* A probe for the key of every stored value meets it within n slots and   *)
(* before any empty slot, in self and in the table a rehash builds.        *)
Findable(t, n) ==
  \A i \in Occupied(t) :
    \E j \in 0 .. n - 1 :
      /\ Path(n, t[i][1], j) = i
      /\ \A m \in 0 .. j - 1 : t[Path(n, t[i][1], m)] # Empty

(* What find_position relies on when it reports a key absent.              *)
EveryValueFindable ==
  /\ Findable(sparse_buckets, bucket_count)
  /\ Findable(new_buckets, new_count)

(* What a probe loop knows of the slots behind it, and so may conclude     *)
(* when it stops: none is empty and none holds the key; on a rehash all    *)
(* hold values.                                                            *)
ProbeTrail ==
  /\ pc \in {"find", "insert"} /\ sparse_buckets # NoArrays =>
       /\ probe < bucket_count => ibucket = Path(bucket_count, req.key, probe)
       /\ \A j \in 0 .. Min2(probe, bucket_count) - 1 :
            LET cell == sparse_buckets[Path(bucket_count, req.key, j)]
            IN cell # Empty /\ ~Holds(cell, req.key)
       /\ found_deleted # None =>
            \E j \in 0 .. Min2(probe, bucket_count) - 1 :
              found_deleted = Path(bucket_count, req.key, j)
  /\ pc = "place" /\ new_count > 0 =>
       /\ ibucket = Path(new_count, InFlight[1], probe)
       /\ \A j \in 0 .. probe - 1 :
            Path(new_count, InFlight[1], j) \in Occupied(new_buckets)

(* The tables that hold values: self, and while a rehash runs the new one  *)
(* and the old ones it drains.                                             *)
Areas == {-1, 0} \cup DOMAIN draining
Area(d) == IF d = -1 THEN new_buckets ELSE IF d = 0 THEN sparse_buckets ELSE draining[d]

(* No key is stored twice: insert reuses a tombstone or grows only after   *)
(* it has established that the key is absent.                              *)
UniqueKeys ==
  \A d, e \in Areas : \A i \in Occupied(Area(d)), j \in Occupied(Area(e)) :
    Area(d)[i][1] = Area(e)[j][1] => d = e /\ i = j

(* len() and the tombstone counter, which the growth and cleanup decisions *)
(* compare with the thresholds, count what the slots hold.                 *)
CountersAgree ==
  /\ bucket_count = 0 => nb_elements = 0 /\ nb_deleted_buckets = 0
  /\ new_elements = Cardinality(Occupied(new_buckets))
  /\ ~Rehashing /\ ~Torn =>
       /\ nb_elements = Cardinality(Occupied(sparse_buckets))
       /\ nb_deleted_buckets = Cardinality(Tombstones(sparse_buckets))

(* An empty slot is left in every table, which is what ends an             *)
(* unsuccessful lookup before it has probed bucket_count slots.            *)
RoomLeft ==
  /\ sparse_buckets # NoArrays =>
       \E i \in DOMAIN sparse_buckets : sparse_buckets[i] = Empty
  /\ new_buckets # NoArrays =>
       \E i \in DOMAIN new_buckets : new_buckets[i] = Empty

(* The cached thresholds belong to the current bucket count and load       *)
(* factor, whichever of the two changed last.                              *)
ThresholdsFresh ==
  /\ load_threshold_rehash = ThresholdRehash(bucket_count, max_load_factor)
  /\ load_threshold_clear_deleted = ThresholdClear(bucket_count, max_load_factor)

(* After reserve(n) the table takes n elements, and after either request   *)
(* its own, without reaching the grow threshold.                           *)
ResizeKeepsPromise ==
  pc = "return" /\ req.op \in ResizeOps /\ res # Panicked =>
    /\ nb_elements <= load_threshold_rehash /\ nb_deleted_buckets = 0
    /\ req.op = "reserve" => req.count <= load_threshold_rehash
    /\ req.op = "rehash" => req.count <= bucket_count

(* A new element is stored only while the table is below its grow          *)
(* threshold ("maximum load factor before a grow", map.rs).                *)
InsertRespectsLoad ==
  [][pc = "insert" /\ nb_elements' > nb_elements =>
       nb_elements < load_threshold_rehash]_vars

(* Only rehash and reserve may leave a table with fewer buckets.           *)
OnlyResizeShrinks == [][bucket_count' < bucket_count => req.op \in ResizeOps]_vars

(* Tables of a power of two of buckets: no other odd number than 1 divides *)
(* the count.                                                              *)
OnlyPowersOfTwo ==
  \A n \in SettledCounts : \A d \in 1 .. n : n % d = 0 => d = 1 \/ d % 2 = 0

(* A rehash finds a slot on the probe path of each value in the first      *)
(* table it builds.  It never has to grow again half-way, so only the      *)
(* user's hasher can make it lose the values: power-of-two tables.         *)
NeverNests == Len(draining) <= 1 /\ (pc = "place" => probe < new_count)

(* Every call returns: no probe loop and no grow-and-retry loop is endless.*)
CallReturns == pc # "idle" ~> pc = "idle"

(* An insertion that has started to probe returns, with every policy,      *)
(* however often it grows the table, cleans it up and starts again.        *)
InsertReturns == pc = "insert" ~> pc = "return"

(* The engine implements the map.                                          *)
Entries == UNION { { Area(d)[i] : i \in Occupied(Area(d)) } : d \in Areas }
Phase == CASE pc = "idle" -> "idle" [] pc = "return" -> "done" [] OTHER -> "working"
Map == INSTANCE AbstractMap WITH entries <- Entries, phase <- Phase
IsMap == Map!MapSpec
=============================================================================
