-------------------------- MODULE SparseHash_proofs --------------------------
(* The engine, for every growth policy that meets the contract, every hash *)
(* function and every word size.  Types, counters and thresholds; then     *)
(* that lookups find what is stored, from the probe path of a key, what a  *)
(* probe loop has seen of it, and what each write does to the paths of     *)
(* others.  Then that the engine implements the map: what the tables hold  *)
(* together, through lookups, writes and the moves of a rehash, is a set   *)
(* of pairs with one pair for each key, and every step is a step of        *)
(* AbstractMap or none.  Then room: the thresholds, the growth policy and  *)
(* the sizes the requests compute always leave an empty slot, on whatever  *)
(* path a table came to be, and a request for room is kept.  Last, that    *)
(* the steps of a call descend and none can go on for ever.                *)
EXTENDS SparseHash, Foundations

Inv == TypeOK /\ CountersAgree

(* The engine under every client: it is asked whatever the types of the    *)
(* code let a request be, not only what the clients of a run ask.  The     *)
(* operations of map.rs that make several calls are such clients.          *)
AskKey == \E r \in KeyRequests \cup PairRequests : StartOnKey(r)
AskWhole == \E r \in WholeRequests : StartOnWhole(r)
OpenNext == AskKey \/ AskWhole \/ Step \/ HasherPanics
OpenSpec == Init /\ [][OpenNext]_vars

-----------------------------------------------------------------------------
(* A bucket vector is a function from slots to contents: which slots it    *)
(* holds values in, and how many, before and after each of the writes the  *)
(* engine makes.                                                           *)
(* into_values starts at a value whenever there is one.                    *)
LEMMA FirstOccupied ==
  ASSUME NEW t, DOMAIN t \subseteq Nat, Occupied(t) # {}
  PROVE  First(t) \in Occupied(t)
<1>1. \E i \in Occupied(t) : \A j \in Occupied(t) : i <= j
  BY LeastNatural DEF Occupied
<1> QED
  BY <1>1 DEF First

(* A value is a pair, and no marker is one.                                *)
LEMMA OccupiedPair ==
  ASSUME NEW n \in Nat, NEW t \in Table(n)
  PROVE  /\ \A i \in Occupied(t) : t[i] \in Pair /\ i \in 0 .. n - 1
         /\ \A i \in 0 .. n - 1 : t[i] \in Pair => i \in Occupied(t)
BY MarkerAssumption DEF Table, Slot, Occupied

(* Only a table without slots is without arrays.                           *)
LEMMA ArraysIffSlots ==
  ASSUME NEW n \in Nat, NEW t \in Table(n)
  PROVE  t # NoArrays <=> n > 0
BY DEF Table, NoArrays, FreshBuckets

LEMMA FreshTable ==
  ASSUME NEW n \in Nat
  PROVE  /\ FreshBuckets(n) \in Table(n)
         /\ Occupied(FreshBuckets(n)) = {} /\ Tombstones(FreshBuckets(n)) = {}
BY MarkerAssumption DEF FreshBuckets, Table, Slot, Occupied, Tombstones

LEMMA NoArraysEmpty ==
  /\ NoArrays \in Table(0)
  /\ Occupied(NoArrays) = {} /\ Tombstones(NoArrays) = {}
  /\ DOMAIN NoArrays = {}
<1>1. FreshBuckets(0) \in Table(0) /\ Occupied(FreshBuckets(0)) = {}
        /\ Tombstones(FreshBuckets(0)) = {}
  BY FreshTable
<1>2. DOMAIN NoArrays = {}
  BY DEF NoArrays, FreshBuckets
<1> QED
  BY <1>1, <1>2 DEF NoArrays

(* The counters count finite sets.                                         *)
LEMMA CountsFinite ==
  ASSUME NEW n \in Nat, NEW t \in Table(n)
  PROVE  /\ IsFiniteSet(Occupied(t)) /\ Cardinality(Occupied(t)) \in Nat
         /\ IsFiniteSet(Tombstones(t)) /\ Cardinality(Tombstones(t)) \in Nat
<1>1. Occupied(t) \in SUBSET (0 .. n - 1) /\ Tombstones(t) \in SUBSET (0 .. n - 1)
  BY DEF Table, Occupied, Tombstones
<1>2. IsFiniteSet(0 .. n - 1)
  BY FS_Interval
<1> QED
  BY <1>1, <1>2, FS_Subset, FS_CardinalityType

(* u is t with a pair stored in slot i.                                    *)
Stores(u, t, n, i) ==
  u \in Table(n) /\ u[i] \in Pair /\ \A j \in (0 .. n - 1) \ {i} : u[j] = t[j]

(* Storing a pair in a slot without a value.                               *)
LEMMA PutCounts ==
  ASSUME NEW n \in Nat, NEW t \in Table(n), NEW i \in 0 .. n - 1,
         i \notin Occupied(t), NEW u, Stores(u, t, n, i)
  PROVE  /\ u \in Table(n)
         /\ Occupied(u) = Occupied(t) \cup {i}
         /\ Tombstones(u) = Tombstones(t) \ {i}
         /\ Cardinality(Occupied(u)) = Cardinality(Occupied(t)) + 1
         /\ Cardinality(Tombstones(u)) =
              Cardinality(Tombstones(t)) - (IF t[i] = Deleted THEN 1 ELSE 0)
<1>1. u \in Table(n)
  BY DEF Stores
<1>2. Occupied(u) = Occupied(t) \cup {i}
  BY MarkerAssumption DEF Stores, Table, Slot, Occupied
<1>3. Tombstones(u) = Tombstones(t) \ {i}
  BY MarkerAssumption DEF Stores, Table, Slot, Tombstones
<1>4. i \in Tombstones(t) <=> t[i] = Deleted
  BY DEF Tombstones, Table
<1>5. Cardinality(Occupied(u)) = Cardinality(Occupied(t)) + 1
  BY <1>2, CountsFinite, FS_AddElement
<1>6. Cardinality(Tombstones(u)) =
        Cardinality(Tombstones(t)) - (IF t[i] = Deleted THEN 1 ELSE 0)
  <2>1. /\ IsFiniteSet(Tombstones(t)) /\ Cardinality(Tombstones(t)) \in Nat
        /\ Cardinality(Tombstones(t) \ {i}) =
             IF i \in Tombstones(t) THEN Cardinality(Tombstones(t)) - 1
             ELSE Cardinality(Tombstones(t))
    BY CountsFinite, FS_RemoveElement
  <2>2. Cardinality(Tombstones(u)) = Cardinality(Tombstones(t) \ {i})
    BY <1>3, Zenon
  <2> HIDE DEF Tombstones
  <2>3. CASE t[i] = Deleted
    <3>1. Cardinality(Tombstones(u)) = Cardinality(Tombstones(t)) - 1
      BY <1>4, <2>1, <2>2, <2>3, Zenon
    <3> QED
      BY <2>3, <3>1, Zenon
  <2>4. CASE t[i] # Deleted
    <3>1. Cardinality(Tombstones(u)) = Cardinality(Tombstones(t)) - 0
      BY <1>4, <2>1, <2>2, <2>4, SMT
    <3> QED
      BY <2>4, <3>1, Zenon
  <2> QED
    BY <2>3, <2>4, Zenon
<1> QED
  BY <1>1, <1>2, <1>3, <1>5, <1>6

(* Writing a pair over a pair.                                             *)
LEMMA OverwriteCounts ==
  ASSUME NEW n \in Nat, NEW t \in Table(n), NEW i \in Occupied(t),
         NEW u, Stores(u, t, n, i)
  PROVE  /\ u \in Table(n)
         /\ Occupied(u) = Occupied(t) /\ Tombstones(u) = Tombstones(t)
         /\ Cardinality(Occupied(u)) = Cardinality(Occupied(t))
         /\ Cardinality(Tombstones(u)) = Cardinality(Tombstones(t))
<1>1. u \in Table(n)
  BY DEF Stores
<1>2. Occupied(u) = Occupied(t) /\ Tombstones(u) = Tombstones(t)
  BY MarkerAssumption DEF Stores, Table, Slot, Occupied, Tombstones
<1> QED
  BY <1>1, <1>2, Zenon

(* u is t with tombstones in the slots of gone.                            *)
Buries(u, t, n, gone) ==
  /\ u \in Table(n)
  /\ \A i \in 0 .. n - 1 : u[i] = IF i \in gone THEN Deleted ELSE t[i]

(* Turning values into tombstones.                                         *)
LEMMA BuryCounts ==
  ASSUME NEW n \in Nat, NEW t \in Table(n), NEW gone \in SUBSET Occupied(t),
         NEW u, Buries(u, t, n, gone)
  PROVE  /\ u \in Table(n)
         /\ Occupied(u) = Occupied(t) \ gone
         /\ Tombstones(u) = Tombstones(t) \cup gone
         /\ Cardinality(gone) \in 0 .. Cardinality(Occupied(t))
         /\ Cardinality(Occupied(u)) = Cardinality(Occupied(t)) - Cardinality(gone)
         /\ Cardinality(Tombstones(u)) = Cardinality(Tombstones(t)) + Cardinality(gone)
<1>1. u \in Table(n)
  BY DEF Buries
<1>2. Occupied(u) = Occupied(t) \ gone
  BY DEF Buries, Table, Occupied
<1>3. Tombstones(u) = Tombstones(t) \cup gone
  BY MarkerAssumption DEF Buries, Table, Occupied, Tombstones
<1> DEFINE o == Occupied(t)
           k == Occupied(t) \ gone
           d == Tombstones(t)
<1>4. d \cap gone = {} /\ k \cap gone = {} /\ k \cup gone = o /\ k \in SUBSET o
  BY DEF Occupied, Tombstones
<1>5. IsFiniteSet(o) /\ IsFiniteSet(d) /\ Cardinality(o) \in Nat /\ Cardinality(d) \in Nat
  BY CountsFinite
<1> HIDE DEF o, k, d
<1>6. /\ IsFiniteSet(gone) /\ Cardinality(gone) \in Nat
      /\ Cardinality(gone) <= Cardinality(o)
      /\ IsFiniteSet(k) /\ Cardinality(k) \in Nat
  BY <1>4, <1>5, FS_Subset, FS_CardinalityType DEF o
<1>7. Cardinality({}) = 0
  BY FS_EmptySet
<1>8. Cardinality(o) = Cardinality(k) + Cardinality(gone)
  <2>1. Cardinality(k \cup gone)
          = Cardinality(k) + Cardinality(gone) - Cardinality(k \cap gone)
    BY <1>6, FS_Union
  <2>2. Cardinality(o) = Cardinality(k) + Cardinality(gone) - 0
    BY <2>1, <1>4, <1>7, Zenon
  <2> QED
    BY <2>2, <1>6
<1>9. Cardinality(d \cup gone) = Cardinality(d) + Cardinality(gone)
  <2>1. Cardinality(d \cup gone)
          = Cardinality(d) + Cardinality(gone) - Cardinality(d \cap gone)
    BY <1>5, <1>6, FS_Union
  <2>2. Cardinality(d \cup gone) = Cardinality(d) + Cardinality(gone) - 0
    BY <2>1, <1>4, <1>7, Zenon
  <2> QED
    BY <2>2, <1>5, <1>6
<1>10. /\ Cardinality(gone) \in 0 .. Cardinality(o)
       /\ Cardinality(k) = Cardinality(o) - Cardinality(gone)
  BY <1>5, <1>6, <1>8
<1>11. Occupied(u) = k /\ Tombstones(u) = d \cup gone
  BY <1>2, <1>3, Zenon DEF o, k, d
<1>12. /\ Cardinality(gone) \in 0 .. Cardinality(Occupied(t))
       /\ Cardinality(Occupied(u)) = Cardinality(Occupied(t)) - Cardinality(gone)
       /\ Cardinality(Tombstones(u)) = Cardinality(Tombstones(t)) + Cardinality(gone)
  <2>1. o = Occupied(t) /\ d = Tombstones(t)
    BY Zenon DEF o, d
  <2> QED
    BY <1>9, <1>10, <1>11, <2>1, Zenon
<1> QED
  BY <1>1, <1>2, <1>3, <1>12, Zenon

(* Removing one value, as remove and erase do.                             *)
LEMMA BuryOne ==
  ASSUME NEW n \in Nat, NEW t \in Table(n), NEW i \in Occupied(t),
         NEW u, u = [t EXCEPT ![i] = Deleted]
  PROVE  /\ u \in Table(n)
         /\ Occupied(u) = Occupied(t) \ {i}
         /\ Tombstones(u) = Tombstones(t) \cup {i}
         /\ Cardinality(Occupied(u)) = Cardinality(Occupied(t)) - 1
         /\ Cardinality(Tombstones(u)) = Cardinality(Tombstones(t)) + 1
         /\ Cardinality(Occupied(t)) >= 1
<1>1. u \in Table(n)
  BY DEF Table, Slot
<1>2. Occupied(u) = Occupied(t) \ {i}
  BY DEF Table, Occupied
<1>3. Tombstones(u) = Tombstones(t) \cup {i} /\ i \notin Tombstones(t)
  BY MarkerAssumption DEF Table, Occupied, Tombstones
<1>4. Cardinality(Occupied(u)) = Cardinality(Occupied(t)) - 1
  BY <1>2, CountsFinite, FS_RemoveElement, Zenon
<1>5. Cardinality(Tombstones(u)) = Cardinality(Tombstones(t)) + 1
  BY <1>3, CountsFinite, FS_AddElement, Zenon
<1>6. Cardinality(Occupied(t)) >= 1
  <2>1. Cardinality(Occupied(u)) \in Nat /\ Cardinality(Occupied(t)) \in Nat
    BY <1>1, CountsFinite
  <2> QED
    BY <2>1, <1>4
<1> QED
  BY <1>1, <1>2, <1>3, <1>4, <1>5, <1>6, Zenon

(* The values a rehash moves out are the values of the table.              *)
LEMMA ValuesOf ==
  ASSUME NEW n \in 0 .. MaxBucketCount, NEW t \in Table(n), MaxBucketCount \in Nat
  PROVE  /\ Values(t) \in ValueTable
         /\ Occupied(Values(t)) = Occupied(t)
         /\ \A i \in Occupied(t) : Values(t)[i] = t[i]
<1>1. Occupied(t) \subseteq 0 .. n - 1 /\ \A i \in Occupied(t) : t[i] \in Pair
  BY OccupiedPair
<1>2. Occupied(t) \subseteq 0 .. MaxBucketCount - 1
  BY <1>1
<1>3. Values(t) \in ValueTable
  BY <1>1 DEF Values, ValueTable
<1>4. \A i \in Occupied(t) : Values(t)[i] = t[i]
  BY <1>2 DEF Values
<1>5. Occupied(Values(t)) = Occupied(t)
  <2>1. \A i \in 0 .. MaxBucketCount - 1 :
          Values(t)[i] = IF i \in Occupied(t) THEN t[i] ELSE Empty
    BY DEF Values
  <2>2. DOMAIN Values(t) = 0 .. MaxBucketCount - 1
    BY DEF Values
  <2>3. \A i \in Occupied(t) : t[i] \notin {Empty, Deleted}
    BY DEF Occupied
  <2> QED
    BY <1>2, <2>1, <2>2, <2>3 DEF Occupied
<1> QED
  BY <1>3, <1>4, <1>5

-----------------------------------------------------------------------------
(* What the operators of the model return. *)

LEMMA SizesAreNat ==
  /\ UsizeMax \in Nat /\ UsizeMax > 0 /\ MaxBucketCount \in Nat /\ LengthError \notin Nat
  /\ SettledCounts \subseteq 0 .. MaxBucketCount
BY PolicyAssumption DEF MaxBucketCount, SettledCounts

(* A table that could be built has at least the buckets asked for.         *)
LEMMA SettleOK ==
  ASSUME NEW c \in 0 .. UsizeMax, Settle(c) # LengthError
  PROVE  Settle(c) \in SettledCounts /\ Settle(c) >= c
<1>1. /\ Settle(c) = PolicyNew(c) /\ PolicyNew(c) # LengthError
      /\ ~ (PolicyNew(c) > MaxBucketCount)
  BY DEF Settle
<1>2. PolicyNew(c) \in c .. UsizeMax
  BY <1>1, PolicyAssumption
<1>3. PolicyNew(c) \in 0 .. MaxBucketCount
  BY <1>1, <1>2, SizesAreNat
<1> QED
  BY <1>1, <1>2, <1>3 DEF SettledCounts

(* Growth asks for more buckets than there are.                            *)
LEMMA NextOK ==
  ASSUME NEW n \in SettledCounts, PolicyNext(n) # LengthError
  PROVE  PolicyNext(n) \in 0 .. UsizeMax /\ PolicyNext(n) > n
BY PolicyAssumption, SizesAreNat

LEMMA BucketOK ==
  ASSUME NEW n \in Nat, NEW k \in Key
  PROVE  BucketForHash(n, k) \in Nat /\ (n > 0 => BucketForHash(n, k) < n)
<1>1. Max2(n, 1) \in Nat \ {0} /\ (n > 0 => Max2(n, 1) = n)
  BY DEF Max2
<1>2. HashOf[k] \in Nat
  BY ArgumentAssumption
<1> DEFINE m == Max2(n, 1)
<1> HIDE DEF m
<1>3. HashOf[k] % m \in 0 .. m - 1
  BY <1>1, <1>2, DivMod DEF m
<1> QED
  BY <1>1, <1>3 DEF BucketForHash, m

LEMMA NextBucketOK ==
  ASSUME NEW n \in Nat \ {0}, NEW i \in Nat, NEW p \in Nat
  PROVE  NextBucket(n, i, p) \in 0 .. n - 1
<1>1. i + p \in Nat
  OBVIOUS
<1> QED
  BY <1>1, DivMod DEF NextBucket

LEMMA ThresholdsOK ==
  ASSUME NEW n \in Nat, NEW load \in 1 .. 8
  PROVE  ThresholdRehash(n, load) \in Nat /\ ThresholdClear(n, load) \in Nat
<1>1. n * load \in Nat /\ n * (10 + load) \in Nat
  BY NatProduct
<1> DEFINE a == n * load
           b == n * (10 + load)
<1> HIDE DEF a, b
<1>2. a \div 10 \in Nat /\ b \div 20 \in Nat
  BY <1>1 DEF a, b
<1> QED
  BY <1>2 DEF ThresholdRehash, ThresholdClear, a, b

LEMMA BucketsForOK ==
  ASSUME NEW c \in Nat, max_load_factor \in 1 .. 8
  PROVE  BucketsFor(c) \in 0 .. UsizeMax
<1> DEFINE x == 10 * c + max_load_factor - 1
<1>1. x \in Nat /\ max_load_factor \in Nat \ {0}
  OBVIOUS
<1> HIDE DEF x
<1>2. x \div max_load_factor \in Nat
  BY <1>1, DivMod
<1> QED
  BY <1>2, SizesAreNat DEF BucketsFor, Min2, x

(* The operations that a running call can be.                              *)
LEMMA OnAKey ==
  ASSUME NEW r \in KeyRequests \cup PairRequests
  PROVE  /\ r \in Requests /\ r.key \in Key
         /\ r.op \notin {"get", "remove"} => r \in PairRequests
BY DEF KeyRequests, PairRequests, Requests

LEMMA OnAPair ==
  ASSUME NEW r \in PairRequests
  PROVE  /\ r \in Requests /\ r.key \in Key /\ r.val \in Val
         /\ <<r.key, r.val>> \in Pair /\ r.op \notin ResizeOps
BY DEF PairRequests, Requests, ResizeOps, Pair

LEMMA OnTheWhole ==
  ASSUME NEW r \in WholeRequests
  PROVE  /\ r \in Requests
         /\ r.op \in ResizeOps => r.count \in Nat
         /\ r.op = "rehash" => r.count \in 0 .. UsizeMax
         /\ r.op = "set_max_load_factor" => r.load \in Nat
BY SizesAreNat DEF WholeRequests, Requests, ResizeOps

(* The value in flight, and the index it is taken from.                    *)
LEMMA InFlightOK ==
  ASSUME draining \in Seq(ValueTable), draining # <<>>,
         Occupied(Head(draining)) # {}
  PROVE  /\ Head(draining) \in ValueTable
         /\ First(Head(draining)) \in Occupied(Head(draining))
         /\ First(Head(draining)) \in 0 .. MaxBucketCount - 1
         /\ InFlight \in Pair /\ InFlight[1] \in Key
<1>1. Head(draining) \in ValueTable
  OBVIOUS
<1>2. First(Head(draining)) \in Occupied(Head(draining))
  BY <1>1, SizesAreNat, FirstOccupied DEF ValueTable
<1>3. /\ First(Head(draining)) \in 0 .. MaxBucketCount - 1
      /\ Head(draining)[First(Head(draining))] \in Pair
  BY <1>1, <1>2, MarkerAssumption DEF ValueTable, Occupied
<1> QED
  BY <1>1, <1>2, <1>3 DEF InFlight, Pair

(* The slot a probe loop looks at.                                         *)
LEMMA CellOK ==
  ASSUME TypeOK, pc \in {"find", "insert"}, sparse_buckets # NoArrays
  PROVE  /\ bucket_count \in Nat \ {0} /\ sparse_buckets \in Table(bucket_count)
         /\ ibucket \in 0 .. bucket_count - 1
         /\ Cell \in Slot
         /\ Cell \notin {Empty, Deleted} <=> ibucket \in Occupied(sparse_buckets)
         /\ Cell \notin {Empty, Deleted} => Cell \in Pair
         /\ req.key \in Key
<1>1. /\ bucket_count \in Nat /\ sparse_buckets \in Table(bucket_count)
      /\ ibucket < bucket_count /\ ibucket \in Nat
  BY SizesAreNat DEF TypeOK, TypesOK, CallOK
<1>2. req.key \in Key
  BY OnAKey, OnAPair DEF TypeOK, CallOK
<1> QED
  BY <1>1, <1>2 DEF Table, Slot, Cell, Occupied

-----------------------------------------------------------------------------
(* Steps that leave the table and the rehash in progress alone. *)

Quiet == UNCHANGED <<table, limits, build>>

(* They keep every invariant about the table.                              *)
LEMMA QuietCounters ==
  ASSUME Inv, Quiet, ~Rehashing, ~Rehashing'
  PROVE  CountersAgree'
<1>1. /\ sparse_buckets' = sparse_buckets /\ bucket_count' = bucket_count
      /\ nb_elements' = nb_elements /\ nb_deleted_buckets' = nb_deleted_buckets
      /\ new_buckets' = new_buckets /\ new_elements' = new_elements
  BY DEF Quiet, table, build
<1> QED
  BY <1>1 DEF Inv, CountersAgree, Torn, Rehashing, Occupied, Tombstones

LEMMA QuietReturn ==
  ASSUME Inv, Quiet, ~Rehashing, NEW a, Return(a),
         a \in {None, Panicked} \cup [hit : BOOLEAN, entry : Pair \cup {None}]
  PROVE  Inv'
<1>1. TypesOK'
  BY DEF Inv, TypeOK, TypesOK, Quiet, table, limits, build, Return
<1>2. CallOK' /\ RehashOK' /\ ~Rehashing'
  BY DEF Inv, TypeOK, CallOK, RehashOK, Rehashing, Quiet, table, build, Return
<1>3. CountersAgree'
  BY <1>2, QuietCounters
<1> QED
  BY <1>1, <1>2, <1>3 DEF Inv, TypeOK

LEMMA QuietProbe ==
  ASSUME Inv, Quiet, ~Rehashing, req \in PairRequests,
         ProbeFrom("insert", bucket_count, req.key)
  PROVE  Inv'
<1>1. /\ bucket_count \in Nat /\ req.key \in Key
      /\ sparse_buckets # NoArrays => bucket_count > 0
  <2>1. req.key \in Key
    BY OnAPair
  <2>2. /\ bucket_count \in Nat
        /\ sparse_buckets # NoArrays => bucket_count > 0
    BY SizesAreNat, ArraysIffSlots DEF Inv, TypeOK, TypesOK
  <2> QED
    BY <2>1, <2>2
<1>2. /\ BucketForHash(bucket_count, req.key) \in Nat
      /\ bucket_count > 0 => BucketForHash(bucket_count, req.key) < bucket_count
  BY <1>1, BucketOK
<1>3. TypesOK'
  BY <1>2 DEF Inv, TypeOK, TypesOK, Quiet, table, limits, build, ProbeFrom
<1>4. CallOK' /\ RehashOK' /\ ~Rehashing'
  BY <1>1, <1>2
  DEF Inv, TypeOK, CallOK, RehashOK, Rehashing, Quiet, table, build, ProbeFrom
<1>5. CountersAgree'
  BY <1>4, QuietCounters
<1> QED
  BY <1>3, <1>4, <1>5 DEF Inv, TypeOK

LEMMA DoneOK == Done \in [hit : BOOLEAN, entry : Pair \cup {None}]
BY DEF Done, Answer

(* A call starts.                                                          *)
LEMMA CallStep ==
  ASSUME Inv, AskKey \/ AskWhole
  PROVE  Inv'
<1>1. /\ bucket_count \in Nat
      /\ sparse_buckets # NoArrays => bucket_count > 0
  BY SizesAreNat, ArraysIffSlots DEF Inv, TypeOK, TypesOK
<1>2. ~Rehashing /\ ~Rehashing' /\ Quiet
  BY DEF AskKey, AskWhole, StartOnKey, StartOnWhole, Rehashing, Quiet
<1>3. CASE AskKey
  <2>1. PICK r \in KeyRequests \cup PairRequests :
          /\ req' = r /\ pc' = IF r.op = "insert" THEN "insert" ELSE "find"
          /\ ibucket' = BucketForHash(bucket_count, r.key)
    BY <1>3 DEF AskKey, StartOnKey
  <2>2. /\ r \in Requests /\ r.key \in Key
        /\ pc' = "insert" => r \in PairRequests
    BY <2>1, OnAKey
  <2>3. /\ ibucket' \in Nat
        /\ bucket_count > 0 => ibucket' < bucket_count
    BY <1>1, <2>1, <2>2, BucketOK
  <2>4. TypesOK'
    BY <1>3, <2>1, <2>2, <2>3
    DEF Inv, TypeOK, TypesOK, AskKey, StartOnKey, table, limits, build
  <2>5. CallOK' /\ RehashOK'
    BY <1>1, <1>3, <2>1, <2>2, <2>3
    DEF Inv, TypeOK, CallOK, RehashOK, Rehashing, AskKey, StartOnKey, table, build
  <2> QED
    BY <1>2, <2>4, <2>5, QuietCounters DEF Inv, TypeOK
<1>4. CASE AskWhole
  <2>1. req' \in WholeRequests /\ req' \in Requests
    BY <1>4, OnTheWhole DEF AskWhole, StartOnWhole
  <2>2. TypesOK'
    BY <1>4, <2>1
    DEF Inv, TypeOK, TypesOK, AskWhole, StartOnWhole, table, limits, build, cursor
  <2>3. CallOK' /\ RehashOK'
    BY <1>4, <2>1
    DEF Inv, TypeOK, CallOK, RehashOK, Rehashing, AskWhole, StartOnWhole, table, build, cursor
  <2> QED
    BY <1>2, <2>2, <2>3, QuietCounters DEF Inv, TypeOK
<1> QED
  BY <1>3, <1>4

LEMMA FinishStep ==
  ASSUME Inv, Finish
  PROVE  Inv'
<1>1. ~Rehashing /\ ~Rehashing' /\ Quiet
  BY DEF Finish, Rehashing, Quiet
<1>2. TypesOK'
  BY DEF Inv, TypeOK, TypesOK, Finish, table, limits, build, cursor
<1>3. CallOK' /\ RehashOK'
  BY DEF Inv, TypeOK, CallOK, RehashOK, Rehashing, Finish, table, build, cursor
<1> QED
  BY <1>1, <1>2, <1>3, QuietCounters DEF Inv, TypeOK

-----------------------------------------------------------------------------
(* Lookups. *)

LEMMA AbsentStep ==
  ASSUME Inv, pc = "find", Absent
  PROVE  Inv'
<1>1. Quiet /\ ~Rehashing /\ req \in KeyRequests \cup PairRequests
  BY DEF Absent, Quiet, Rehashing, Inv, TypeOK, CallOK
<1>2. CASE req.op \in {"try_emplace", "insert_or_assign"}
  <2>1. req \in PairRequests
    BY <1>1, <1>2, OnAKey
  <2> QED
    BY <1>1, <1>2, <2>1, QuietProbe DEF Absent
<1>3. CASE req.op \notin {"try_emplace", "insert_or_assign"}
  BY <1>1, <1>3, DoneOK, QuietReturn DEF Absent
<1> QED
  BY <1>2, <1>3

LEMMA FindStep ==
  ASSUME Inv, Find
  PROVE  Inv'
<1>1. CASE FindNoBuckets \/ FindMiss
  BY <1>1, AbsentStep DEF FindNoBuckets, FindMiss
<1>2. CASE FindNoArrays
  <2>1. Quiet /\ ~Rehashing /\ Return(Panicked)
    BY <1>2 DEF FindNoArrays, Quiet, Rehashing
  <2> QED
    BY <2>1, QuietReturn
<1>3. CASE FindAdvance
  <2>1. /\ bucket_count \in Nat \ {0} /\ ibucket \in Nat /\ probe + 1 \in Nat
        /\ Quiet /\ ~Rehashing /\ ~Rehashing'
    BY <1>3, CellOK DEF FindAdvance, Inv, TypeOK, TypesOK, Quiet, Rehashing
  <2>2. /\ ibucket' \in 0 .. bucket_count - 1
        /\ probe' \in Nat
    <3> DEFINE p == probe + 1
    <3>1. ibucket' = NextBucket(bucket_count, ibucket, p)
      BY <1>3 DEF FindAdvance
    <3>2. probe' \in Nat
      BY <1>3, <2>1 DEF FindAdvance, WrapProbe
    <3> HIDE DEF p
    <3> QED
      BY <2>1, <3>1, <3>2, NextBucketOK DEF p
  <2>3. TypesOK'
    BY <1>3, <2>1, <2>2
    DEF Inv, TypeOK, TypesOK, FindAdvance, table, limits, build
  <2>4. CallOK' /\ RehashOK'
    BY <1>3, <2>1, <2>2
    DEF Inv, TypeOK, CallOK, RehashOK, Rehashing, FindAdvance, table, build
  <2> QED
    BY <2>1, <2>3, <2>4, QuietCounters DEF Inv, TypeOK
<1>4. CASE FindHit
  <2> DEFINE n == bucket_count
             t == sparse_buckets
             u == sparse_buckets'
  <2>1. /\ n \in Nat \ {0} /\ t \in Table(n) /\ ibucket \in Occupied(t)
        /\ Cell \in Pair /\ ~Rehashing /\ ~Torn
        /\ bucket_count' = n
        /\ req \in KeyRequests \cup PairRequests
    BY <1>4, CellOK
    DEF FindHit, Inv, TypeOK, CallOK, Holds, Rehashing, Torn
  <2>2. /\ nb_elements = Cardinality(Occupied(t))
        /\ nb_deleted_buckets = Cardinality(Tombstones(t))
        /\ new_elements = Cardinality(Occupied(new_buckets))
    BY <2>1 DEF Inv, CountersAgree
  <2>3. /\ u \in Table(n)
        /\ nb_elements' = Cardinality(Occupied(u)) /\ nb_elements' \in Nat
        /\ nb_deleted_buckets' = Cardinality(Tombstones(u)) /\ nb_deleted_buckets' \in Nat
    <3>1. CASE req.op = "remove"
      <4>1. /\ u = [t EXCEPT ![ibucket] = Deleted]
            /\ nb_elements' = nb_elements - 1
            /\ nb_deleted_buckets' = nb_deleted_buckets + 1
        BY <1>4, <3>1 DEF FindHit
      <4> HIDE DEF t, u, n
      <4>2. /\ u \in Table(n)
            /\ Cardinality(Occupied(u)) = Cardinality(Occupied(t)) - 1
            /\ Cardinality(Tombstones(u)) = Cardinality(Tombstones(t)) + 1
        BY <2>1, <4>1, BuryOne
      <4>3. Cardinality(Occupied(u)) \in Nat /\ Cardinality(Tombstones(u)) \in Nat
        BY <2>1, <4>2, CountsFinite
      <4> QED
        BY <2>2, <4>1, <4>2, <4>3
    <3>2. CASE req.op \in {"get_mut", "insert_or_assign"}
      <4> DEFINE e == <<req.key, req.val>>
      <4>1. /\ u = [t EXCEPT ![ibucket] = e]
            /\ UNCHANGED <<nb_elements, nb_deleted_buckets>>
        BY <1>4, <3>2 DEF FindHit
      <4>2. e \in Pair
        BY <2>1, <3>2, OnAKey, OnAPair
      <4>5. Stores(u, t, n, ibucket)
        BY <2>1, <4>1, <4>2, OccupiedPair DEF Stores, Table, Slot
      <4> HIDE DEF t, u, n, e
      <4>3. /\ u \in Table(n)
            /\ Cardinality(Occupied(u)) = Cardinality(Occupied(t))
            /\ Cardinality(Tombstones(u)) = Cardinality(Tombstones(t))
        BY <2>1, <4>5, OverwriteCounts
      <4>4. nb_elements \in Nat /\ nb_deleted_buckets \in Nat
        BY DEF Inv, TypeOK, TypesOK
      <4> QED
        BY <2>2, <4>1, <4>3, <4>4, Zenon
    <3>3. CASE req.op \notin {"remove", "get_mut", "insert_or_assign"}
      <4>1. u = t /\ UNCHANGED <<nb_elements, nb_deleted_buckets>>
        BY <1>4, <3>3 DEF FindHit
      <4>2. nb_elements \in Nat /\ nb_deleted_buckets \in Nat
        BY DEF Inv, TypeOK, TypesOK
      <4> QED
        BY <2>1, <2>2, <4>1, <4>2, Zenon
    <3> QED
      BY <3>1, <3>2, <3>3
  <2>4. /\ Return(Answer(TRUE, Cell)) /\ UNCHANGED <<limits, build>>
        /\ Answer(TRUE, Cell) \in [hit : BOOLEAN, entry : Pair \cup {None}]
    BY <1>4, <2>1 DEF FindHit, Answer
  <2>5. TypesOK'
    BY <2>1, <2>3, <2>4 DEF Inv, TypeOK, TypesOK, limits, build, Return
  <2>6. CallOK' /\ RehashOK' /\ ~Rehashing'
    BY <2>1, <2>4 DEF Inv, TypeOK, CallOK, RehashOK, Rehashing, build, Return
  <2>7. CountersAgree'
    <3>1. new_elements' = Cardinality(Occupied(new_buckets'))
      BY <2>2, <2>4 DEF build
    <3> QED
      BY <2>1, <2>3, <3>1 DEF CountersAgree
  <2> QED
    BY <2>5, <2>6, <2>7 DEF Inv, TypeOK
<1> QED
  BY <1>1, <1>2, <1>3, <1>4 DEF Find

-----------------------------------------------------------------------------
(* Growing and cleaning up. *)

LEMMA FreshCount ==
  ASSUME NEW n \in Nat
  PROVE  Cardinality(Occupied(FreshBuckets(n))) = 0
<1>1. Occupied(FreshBuckets(n)) = {}
  BY FreshTable
<1>2. Cardinality({}) = 0
  BY FS_EmptySet
<1> QED
  BY <1>1, <1>2, Zenon

(* What the calls that rehash are about.                                   *)
MayRehash == req \in PairRequests \/ (req \in WholeRequests /\ req.op \in ResizeOps)

LEMMA RehashStep ==
  ASSUME Inv, ~Rehashing, MayRehash, NEW count \in 0 .. UsizeMax, Rehash(count),
         req.op \in ResizeOps \/ count >= bucket_count
  PROVE  Inv'
<1>1. CASE Settle(count) = LengthError
  <2>1. Quiet /\ Return(Panicked)
    BY <1>1 DEF Rehash, Quiet, table
  <2> QED
    BY <2>1, QuietReturn
<1>2. CASE Settle(count) # LengthError
  <2> DEFINE n == Settle(count)
             v == Values(sparse_buckets)
  <2>1. n \in SettledCounts /\ n \in Nat /\ (req.op \notin ResizeOps => n >= bucket_count)
    <3>1. n \in SettledCounts /\ n >= count
      BY <1>2, SettleOK
    <3>2. bucket_count \in Nat
      BY SizesAreNat DEF Inv, TypeOK, TypesOK
    <3> HIDE DEF n
    <3> QED
      BY <3>1, <3>2, SizesAreNat
  <2>2. v \in ValueTable
    <3>1. CASE sparse_buckets \in Table(bucket_count)
      BY <3>1, SizesAreNat, ValuesOf DEF Inv, TypeOK, TypesOK
    <3>2. CASE sparse_buckets = NoArrays
      BY <3>2, SizesAreNat, NoArraysEmpty, ValuesOf
    <3> QED
      BY <3>1, <3>2 DEF Inv, TypeOK, TypesOK
  <2>3. /\ pc' = "drain" /\ draining' = <<v>>
        /\ sparse_buckets' = NoArrays /\ new_count' = n
        /\ new_buckets' = FreshBuckets(n) /\ new_elements' = 0
        /\ ibucket' = 0 /\ probe' = 0 /\ found_deleted' = None
        /\ UNCHANGED <<req, res, bucket_count, nb_elements, nb_deleted_buckets, limits>>
    BY <1>2 DEF Rehash
  <2> HIDE DEF n, v
  <2>4. /\ FreshBuckets(n) \in Table(n) /\ Cardinality(Occupied(FreshBuckets(n))) = 0
        /\ Tombstones(FreshBuckets(n)) = {}
    BY <2>1, FreshTable, FreshCount
  <2>5. TypesOK'
    BY <2>1, <2>2, <2>3, <2>4 DEF Inv, TypeOK, TypesOK, limits
  <2>6. CallOK' /\ RehashOK'
    <3>1. Tombstones(new_buckets') = {}
      BY <2>3, <2>4, Zenon
    <3> QED
      BY <2>1, <2>3, <3>1 DEF Inv, TypeOK, CallOK, RehashOK, Rehashing, MayRehash
  <2>7. CountersAgree'
    <3>1. Rehashing' /\ new_elements' = 0
      BY <2>3 DEF Rehashing
    <3>2. Cardinality(Occupied(new_buckets')) = 0
      BY <2>3, <2>4, Zenon
    <3>3. bucket_count' = 0 => nb_elements' = 0 /\ nb_deleted_buckets' = 0
      BY <2>3 DEF Inv, CountersAgree
    <3> QED
      BY <3>1, <3>2, <3>3 DEF CountersAgree
  <2> QED
    BY <2>5, <2>6, <2>7 DEF Inv, TypeOK
<1> QED
  BY <1>1, <1>2

LEMMA GrowStep ==
  ASSUME Inv, ~Rehashing, MayRehash, Grow
  PROVE  Inv'
<1>1. CASE PolicyNext(bucket_count) = LengthError
  <2>1. Quiet /\ Return(Panicked)
    BY <1>1 DEF Grow, Quiet
  <2> QED
    BY <2>1, QuietReturn
<1>2. CASE PolicyNext(bucket_count) # LengthError
  <2>1. /\ PolicyNext(bucket_count) \in 0 .. UsizeMax
        /\ PolicyNext(bucket_count) >= bucket_count
    <3>1. bucket_count \in SettledCounts /\ bucket_count \in Nat
      BY SizesAreNat DEF Inv, TypeOK, TypesOK
    <3>2. PolicyNext(bucket_count) \in 0 .. UsizeMax /\ PolicyNext(bucket_count) > bucket_count
      BY <1>2, <3>1, NextOK
    <3> QED
      BY <3>1, <3>2, SizesAreNat
  <2> QED
    BY <1>2, <2>1, RehashStep DEF Grow
<1> QED
  BY <1>1, <1>2

(* A panic in the middle leaves a table without arrays.                    *)
LEMMA LoseArraysStep ==
  ASSUME Inv, Rehashing, LoseArrays
  PROVE  Inv'
<1>1. /\ Return(Panicked) /\ UNCHANGED <<table, limits>>
      /\ draining' = <<>> /\ new_buckets' = NoArrays
      /\ new_count' = 0 /\ new_elements' = 0
  BY DEF LoseArrays
<1>2. sparse_buckets' = NoArrays /\ ~Rehashing'
  BY <1>1 DEF Inv, TypeOK, RehashOK, table, Return, Rehashing
<1>3. TypesOK'
  BY <1>1, NoArraysEmpty DEF Inv, TypeOK, TypesOK, table, limits, Return
<1>4. CallOK' /\ RehashOK'
  BY <1>1, <1>2 DEF Inv, TypeOK, CallOK, RehashOK, Rehashing, table, Return
<1>5. CountersAgree'
  <2>1. Cardinality(Occupied(new_buckets')) = 0
    BY <1>1, FreshCount, Zenon DEF NoArrays
  <2>2. bucket_count' = 0 => nb_elements' = 0 /\ nb_deleted_buckets' = 0
    BY <1>1 DEF Inv, CountersAgree, table
  <2>3. CASE bucket_count' > 0
    BY <1>1, <1>2, <2>1, <2>2, <2>3 DEF Torn, CountersAgree
  <2>4. CASE bucket_count' = 0
    <3>1. /\ Cardinality(Occupied(sparse_buckets')) = 0
          /\ Cardinality(Tombstones(sparse_buckets')) = 0
      BY <1>2, NoArraysEmpty, FS_EmptySet, Zenon
    <3> QED
      BY <1>1, <2>1, <2>2, <2>4, <3>1 DEF CountersAgree
  <2> QED
    BY <1>1, <2>3, <2>4, SizesAreNat DEF Inv, TypeOK, TypesOK, table
<1> QED
  BY <1>3, <1>4, <1>5 DEF Inv, TypeOK

LEMMA RehashingFacts ==
  ASSUME Inv, Rehashing
  PROVE  /\ draining \in Seq(ValueTable) /\ draining # <<>> /\ MayRehash
         /\ sparse_buckets = NoArrays /\ found_deleted = None
         /\ new_count \in SettledCounts /\ new_count \in 0 .. MaxBucketCount
         /\ new_count \in Nat /\ new_buckets \in Table(new_count)
         /\ Tombstones(new_buckets) = {}
         /\ req.op \notin ResizeOps => new_count >= bucket_count
         /\ new_elements = Cardinality(Occupied(new_buckets))
BY SizesAreNat
DEF Inv, TypeOK, TypesOK, RehashOK, CountersAgree, Rehashing, MayRehash

(* The counters during a step inside rehash_impl.                          *)
LEMMA RehashCounters ==
  ASSUME Inv, Rehashing, Rehashing', UNCHANGED table,
         new_elements' = Cardinality(Occupied(new_buckets'))
  PROVE  CountersAgree'
BY DEF Inv, CountersAgree, table

LEMMA DrainStep ==
  ASSUME Inv, Drain
  PROVE  Inv'
<1>1. Rehashing
  BY DEF Drain, DrainNext, SwapIn, SwapNested, Rehashing
<1>3. CASE DrainNext
  <2> DEFINE k == InFlight[1]
  <2>1. k \in Key
    BY <1>1, <1>3, RehashingFacts, InFlightOK DEF DrainNext
  <2>2. /\ pc' = "place" /\ ibucket' = BucketForHash(new_count, k)
        /\ probe' = 0 /\ found_deleted' = None
        /\ Occupied(Head(draining)) # {}
        /\ UNCHANGED <<req, res, table, limits, build>>
    BY <1>3 DEF DrainNext, ProbeFrom
  <2> HIDE DEF k
  <2>3. ibucket' \in Nat /\ (new_count > 0 => ibucket' < new_count)
    BY <1>1, <2>1, <2>2, RehashingFacts, BucketOK
  <2>4. TypesOK'
    BY <2>2, <2>3 DEF Inv, TypeOK, TypesOK, table, limits, build
  <2>5. CallOK' /\ RehashOK'
    BY <1>1, <2>2, <2>3
    DEF Inv, TypeOK, CallOK, RehashOK, Rehashing, table, build, Occupied, Tombstones
  <2>6. CountersAgree'
    <3>1. Rehashing' /\ new_elements' = new_elements /\ new_buckets' = new_buckets
      BY <2>2 DEF Rehashing, build
    <3>2. new_elements' = Cardinality(Occupied(new_buckets'))
      BY <1>1, <3>1, RehashingFacts, Zenon
    <3> QED
      BY <1>1, <2>2, <3>1, <3>2, RehashCounters
  <2> QED
    BY <2>4, <2>5, <2>6 DEF Inv, TypeOK
<1>4. CASE SwapNested
  <2>1. /\ pc = "drain" /\ draining' = Tail(draining) /\ Len(draining) > 1
        /\ UNCHANGED <<table, limits, pc, req, res, cursor, new_buckets, new_count,
                       new_elements>>
    BY <1>4 DEF SwapNested
  <2>2. draining' \in Seq(ValueTable) /\ draining' # <<>>
    <3>1. draining \in Seq(ValueTable)
      BY <1>1, RehashingFacts
    <3>2. draining' \in Seq(ValueTable) /\ Len(draining') = Len(draining) - 1
      BY <2>1, <3>1
    <3>3. Len(draining') # 0
      BY <2>1, <3>1, <3>2
    <3> QED
      BY <3>2, <3>3
  <2>3. TypesOK'
    BY <2>1, <2>2 DEF Inv, TypeOK, TypesOK, table, limits, cursor
  <2>4. CallOK' /\ RehashOK'
    BY <2>1, <2>2
    DEF Inv, TypeOK, CallOK, RehashOK, Rehashing, table, cursor, Tombstones
  <2>5. CountersAgree'
    <3>1. Rehashing' /\ new_elements' = new_elements /\ new_buckets' = new_buckets
      BY <2>1 DEF Rehashing
    <3>2. new_elements' = Cardinality(Occupied(new_buckets'))
      BY <1>1, <3>1, RehashingFacts, Zenon
    <3> QED
      BY <1>1, <2>1, <3>1, <3>2, RehashCounters
  <2> QED
    BY <2>3, <2>4, <2>5 DEF Inv, TypeOK
<1>5. CASE SwapIn
  <2>1. /\ sparse_buckets' = new_buckets /\ bucket_count' = new_count
        /\ nb_elements' = new_elements /\ nb_deleted_buckets' = 0
        /\ load_threshold_rehash' = ThresholdRehash(new_count, max_load_factor)
        /\ load_threshold_clear_deleted' = ThresholdClear(new_count, max_load_factor)
        /\ draining' = <<>> /\ new_buckets' = NoArrays
        /\ new_count' = 0 /\ new_elements' = 0
        /\ max_load_factor' = max_load_factor
    BY <1>5 DEF SwapIn
  <2>2. /\ new_count \in Nat /\ new_buckets \in Table(new_count)
        /\ max_load_factor \in 1 .. 8
        /\ new_count \in SettledCounts
    BY <1>1, RehashingFacts DEF Inv, TypeOK, TypesOK
  <2>3. load_threshold_rehash' \in Nat /\ load_threshold_clear_deleted' \in Nat
    BY <2>1, <2>2, ThresholdsOK
  <2>4. /\ pc' \in {"insert", "return"} /\ req' = req /\ found_deleted' = None
        /\ probe' = 0 /\ ibucket' \in Nat
        /\ res' = res \/ res' = Done
        /\ pc' = "insert" => req \in PairRequests
        /\ pc' = "insert" /\ new_count > 0 => ibucket' < new_count
    <3>1. CASE req.op \in ResizeOps
      BY <1>5, <3>1 DEF SwapIn, Return
    <3>2. CASE req.op \notin ResizeOps
      <4>1. req \in PairRequests /\ req.key \in Key
        BY <1>1, <3>2, RehashingFacts, OnAPair DEF MayRehash
      <4>2. ProbeFrom("insert", new_count, req.key)
        BY <1>5, <3>2 DEF SwapIn
      <4> QED
        BY <2>2, <4>1, <4>2, BucketOK DEF ProbeFrom
    <3> QED
      BY <3>1, <3>2
  <2>5. TypesOK'
    BY <2>1, <2>2, <2>3, <2>4, NoArraysEmpty, DoneOK DEF Inv, TypeOK, TypesOK
  <2>6. CallOK' /\ RehashOK'
    BY <2>1, <2>2, <2>4, ArraysIffSlots DEF CallOK, RehashOK, Rehashing
  <2>7. CountersAgree'
    <3>1. /\ new_elements = Cardinality(Occupied(new_buckets))
          /\ Tombstones(new_buckets) = {} /\ Cardinality({}) = 0
          /\ Cardinality(Occupied(NoArrays)) = 0
      BY <1>1, RehashingFacts, FS_EmptySet, FreshCount DEF NoArrays
    <3>2. /\ nb_elements' = Cardinality(Occupied(sparse_buckets'))
          /\ nb_deleted_buckets' = Cardinality(Tombstones(sparse_buckets'))
          /\ new_elements' = Cardinality(Occupied(new_buckets'))
      BY <2>1, <3>1, Zenon
    <3>3. bucket_count' = 0 => nb_elements' = 0 /\ nb_deleted_buckets' = 0
      <4>1. new_count = 0 => new_buckets = NoArrays
        BY <2>2, ArraysIffSlots
      <4> QED
        BY <2>1, <3>1, <4>1, Zenon
    <3> QED
      BY <3>2, <3>3 DEF CountersAgree
  <2> QED
    BY <2>5, <2>6, <2>7 DEF Inv, TypeOK
<1> QED
  BY <1>3, <1>4, <1>5 DEF Drain

LEMMA PlaceStep ==
  ASSUME Inv, Place
  PROVE  Inv'
<1>1. Rehashing
  BY DEF Place, PlaceHere, PlaceAdvance, PlaceExhausted, Placing, Rehashing
<1>2. CASE PlaceHere
  <2> DEFINE n == new_count
             t == new_buckets
             u == new_buckets'
             e == InFlight
             d == Head(draining)
             f == First(d)
  <2>1. /\ n \in Nat /\ t \in Table(n) /\ ibucket \in 0 .. n - 1
        /\ ibucket \notin Occupied(t) /\ Tombstones(t) = {}
        /\ new_elements = Cardinality(Occupied(t))
    <3>1. /\ n \in Nat /\ t \in Table(n) /\ Tombstones(t) = {}
          /\ new_elements = Cardinality(Occupied(t))
      BY <1>1, RehashingFacts
    <3>2. ibucket \in 0 .. n - 1 /\ ibucket \notin Occupied(t)
      BY <1>2, <3>1 DEF PlaceHere, Placing, Inv, TypeOK, TypesOK, RehashOK
    <3> QED
      BY <3>1, <3>2
  <2>2. e \in Pair /\ d \in ValueTable /\ f \in 0 .. MaxBucketCount - 1
    BY <1>1, <1>2, RehashingFacts, InFlightOK
    DEF PlaceHere, Placing, Inv, TypeOK, RehashOK
  <2>3. /\ u = [t EXCEPT ![ibucket] = e]
        /\ new_elements' = new_elements + 1
        /\ draining' = [draining EXCEPT ![1][f] = Empty]
        /\ pc' = "drain" /\ ibucket' = 0 /\ probe' = 0
        /\ UNCHANGED <<table, limits, req, res, found_deleted, new_count>>
    BY <1>2 DEF PlaceHere
  <2>4. Stores(u, t, n, ibucket)
    BY <2>1, <2>2, <2>3, OccupiedPair DEF Stores, Table, Slot
  <2>5. draining' \in Seq(ValueTable) /\ draining' # <<>>
    <3>1. draining \in Seq(ValueTable) /\ draining # <<>>
      BY <1>1, RehashingFacts
    <3> DEFINE g == [d EXCEPT ![f] = Empty]
    <3>2. g \in ValueTable
      BY <2>2 DEF ValueTable
    <3>3. draining' = [draining EXCEPT ![1] = g]
      BY <2>3, <3>1
    <3> HIDE DEF g
    <3> QED
      BY <3>1, <3>2, <3>3
  <2> HIDE DEF n, t, u, e, d, f
  <2>6. /\ u \in Table(n)
        /\ Cardinality(Occupied(u)) = Cardinality(Occupied(t)) + 1
        /\ Tombstones(u) = {}
    <3>1. /\ u \in Table(n)
          /\ Cardinality(Occupied(u)) = Cardinality(Occupied(t)) + 1
          /\ Tombstones(u) = Tombstones(t) \ {ibucket}
      BY <2>1, <2>4, PutCounts
    <3> QED
      BY <2>1, <3>1
  <2>7. new_elements' = Cardinality(Occupied(new_buckets')) /\ new_elements' \in Nat
    <3>1. Cardinality(Occupied(t)) \in Nat
      BY <2>1, CountsFinite
    <3>2. new_elements' = Cardinality(Occupied(u)) /\ new_elements' \in Nat
      BY <2>1, <2>3, <2>6, <3>1
    <3> QED
      BY <3>2, Zenon DEF u
  <2>8. TypesOK'
    BY <2>3, <2>5, <2>6, <2>7 DEF Inv, TypeOK, TypesOK, table, limits, n, u
  <2>9. CallOK' /\ RehashOK'
    BY <1>1, <2>3, <2>5, <2>6
    DEF Inv, TypeOK, CallOK, RehashOK, Rehashing, table, u
  <2>10. CountersAgree'
    BY <1>1, <2>3, <2>7, RehashCounters DEF Rehashing
  <2> QED
    BY <2>8, <2>9, <2>10 DEF Inv, TypeOK
<1>3. CASE PlaceAdvance
  <2>1. /\ new_count \in Nat \ {0} /\ ibucket \in Nat /\ probe + 1 \in Nat
        /\ probe' = probe + 1
    BY <1>1, <1>3, RehashingFacts
    DEF PlaceAdvance, Placing, Advance, Inv, TypeOK, TypesOK
  <2>2. ibucket' \in 0 .. new_count - 1
    <3> DEFINE p == probe + 1
    <3>1. ibucket' = NextBucket(new_count, ibucket, p)
      BY <1>3 DEF PlaceAdvance, Advance
    <3> HIDE DEF p
    <3> QED
      BY <2>1, <3>1, NextBucketOK DEF p
  <2>3. /\ UNCHANGED <<pc, req, res, table, limits, found_deleted, build>>
        /\ pc = "place"
    BY <1>3 DEF PlaceAdvance, Placing, Advance
  <2>4. TypesOK'
    BY <2>1, <2>2, <2>3 DEF Inv, TypeOK, TypesOK, table, limits, build
  <2>5. CallOK' /\ RehashOK'
    BY <2>1, <2>2, <2>3
    DEF Inv, TypeOK, CallOK, RehashOK, Rehashing, table, build, Occupied, Tombstones
  <2>6. CountersAgree'
    <3>1. Rehashing' /\ new_elements' = new_elements /\ new_buckets' = new_buckets
      BY <2>3 DEF Rehashing, build
    <3>2. new_elements' = Cardinality(Occupied(new_buckets'))
      BY <1>1, <3>1, RehashingFacts, Zenon
    <3> QED
      BY <1>1, <2>3, <3>1, <3>2, RehashCounters
  <2> QED
    BY <2>4, <2>5, <2>6 DEF Inv, TypeOK
<1>4. CASE PlaceExhausted
  <2> DEFINE next == IF PolicyNext(new_count) = LengthError THEN LengthError
                     ELSE Settle(PolicyNext(new_count))
             v == Values(new_buckets)
  <2>1. CASE next = LengthError
    BY <1>1, <1>4, <2>1, LoseArraysStep DEF PlaceExhausted
  <2>2. CASE next # LengthError
    <3>1. /\ pc' = "drain" /\ draining' = <<v>> \o draining
          /\ new_count' = next /\ new_buckets' = FreshBuckets(next)
          /\ new_elements' = 0 /\ ibucket' = 0 /\ probe' = 0
          /\ UNCHANGED <<table, limits, req, res, found_deleted>>
      BY <1>4, <2>2 DEF PlaceExhausted, NestedDrain
    <3>2. next \in SettledCounts /\ next \in Nat /\ next >= new_count
      <4>1. new_count \in SettledCounts /\ new_count \in Nat
        BY <1>1, RehashingFacts
      <4>2. /\ PolicyNext(new_count) \in 0 .. UsizeMax
            /\ PolicyNext(new_count) > new_count /\ next = Settle(PolicyNext(new_count))
        BY <2>2, <4>1, NextOK
      <4>3. next \in SettledCounts /\ next >= PolicyNext(new_count)
        BY <2>2, <4>2, SettleOK
      <4> HIDE DEF next
      <4> QED
        BY <4>1, <4>2, <4>3, SizesAreNat
    <3>3. v \in ValueTable
      BY <1>1, RehashingFacts, SizesAreNat, ValuesOf
    <3> HIDE DEF next, v
    <3>4. draining' \in Seq(ValueTable) /\ draining' # <<>>
      <4>1. draining \in Seq(ValueTable)
        BY <1>1, RehashingFacts
      <4>2. draining' \in Seq(ValueTable) /\ Len(draining') = 1 + Len(draining)
        BY <3>1, <3>3, <4>1
      <4>3. Len(draining') # 0
        BY <4>1, <4>2
      <4> QED
        BY <4>2, <4>3
    <3>5. /\ FreshBuckets(next) \in Table(next) /\ Tombstones(FreshBuckets(next)) = {}
          /\ Cardinality(Occupied(FreshBuckets(next))) = 0
      BY <3>2, FreshTable, FreshCount
    <3>6. TypesOK'
      BY <3>1, <3>2, <3>4, <3>5 DEF Inv, TypeOK, TypesOK, table, limits
    <3>7. CallOK' /\ RehashOK'
      <4>1. Tombstones(new_buckets') = {}
        BY <3>1, <3>5, Zenon
      <4>2. req.op \notin ResizeOps => next >= bucket_count
        <5>1. bucket_count \in Nat /\ new_count \in Nat
          BY <1>1, RehashingFacts, SizesAreNat DEF Inv, TypeOK, TypesOK
        <5> QED
          BY <1>1, <3>2, <5>1, RehashingFacts
      <4> QED
        BY <1>1, <3>1, <3>2, <3>4, <4>1, <4>2
        DEF Inv, TypeOK, CallOK, RehashOK, Rehashing, table
    <3>8. CountersAgree'
      <4>1. new_elements' = Cardinality(Occupied(new_buckets')) /\ Rehashing'
        BY <3>1, <3>5, Zenon DEF Rehashing
      <4> QED
        BY <1>1, <3>1, <4>1, RehashCounters
    <3> QED
      BY <3>6, <3>7, <3>8 DEF Inv, TypeOK
  <2> QED
    BY <2>1, <2>2
<1> QED
  BY <1>2, <1>3, <1>4 DEF Place

-----------------------------------------------------------------------------
(* Inserting. *)

(* A new element in a slot without a value.                                *)
LEMMA PutAtStep ==
  ASSUME Inv, pc = "insert", sparse_buckets # NoArrays,
         NEW i \in DOMAIN sparse_buckets, i \notin Occupied(sparse_buckets),
         NEW reused, reused = IF sparse_buckets[i] = Deleted THEN 1 ELSE 0,
         PutAt(i, reused)
  PROVE  Inv'
<1> DEFINE n == bucket_count
           t == sparse_buckets
           u == sparse_buckets'
           e == <<req.key, req.val>>
<1>1. /\ n \in Nat /\ t \in Table(n) /\ i \in 0 .. n - 1 /\ e \in Pair
      /\ ~Rehashing /\ ~Torn
      /\ new_elements = Cardinality(Occupied(new_buckets))
  <2>1. /\ n \in Nat /\ t \in Table(n) /\ ~Rehashing /\ ~Torn
        /\ new_elements = Cardinality(Occupied(new_buckets))
    BY CellOK DEF Inv, Rehashing, Torn, CountersAgree
  <2>2. i \in 0 .. n - 1
    BY <2>1 DEF Table
  <2>3. e \in Pair
    BY OnAPair DEF Inv, TypeOK, CallOK
  <2> QED
    BY <2>1, <2>2, <2>3
<1>2. /\ u = [t EXCEPT ![i] = e] /\ bucket_count' = n
      /\ nb_elements' = nb_elements + 1
      /\ nb_deleted_buckets' = nb_deleted_buckets - reused
      /\ Return(Answer(FALSE, e)) /\ UNCHANGED <<limits, build>>
  BY DEF PutAt
<1>3. Stores(u, t, n, i)
  BY <1>1, <1>2, OccupiedPair DEF Stores, Table, Slot
<1>4. /\ nb_elements = Cardinality(Occupied(t))
      /\ nb_deleted_buckets = Cardinality(Tombstones(t))
  BY <1>1 DEF Inv, CountersAgree
<1>5. i \notin Occupied(t) /\ reused = IF t[i] = Deleted THEN 1 ELSE 0
  OBVIOUS
<1> HIDE DEF n, t, u, e
<1>6. /\ u \in Table(n)
      /\ Cardinality(Occupied(u)) = Cardinality(Occupied(t)) + 1
      /\ Cardinality(Tombstones(u)) =
           Cardinality(Tombstones(t)) - (IF t[i] = Deleted THEN 1 ELSE 0)
  BY <1>1, <1>3, <1>5, PutCounts
<1>7. Cardinality(Occupied(u)) \in Nat /\ Cardinality(Tombstones(u)) \in Nat
  BY <1>1, <1>6, CountsFinite
<1>8. /\ nb_elements' = Cardinality(Occupied(u))
      /\ nb_deleted_buckets' = Cardinality(Tombstones(u))
  BY <1>2, <1>4, <1>5, <1>6, Zenon
<1>9. Answer(FALSE, e) \in [hit : BOOLEAN, entry : Pair \cup {None}]
  BY <1>1 DEF Answer
<1>10. TypesOK'
  BY <1>2, <1>6, <1>7, <1>8, <1>9
  DEF Inv, TypeOK, TypesOK, limits, build, Return, n, u
<1>11. CallOK' /\ RehashOK'
  BY <1>1, <1>2 DEF Inv, TypeOK, CallOK, RehashOK, Rehashing, build, Return
<1>12. CountersAgree'
  <2>1. /\ new_elements' = Cardinality(Occupied(new_buckets'))
        /\ nb_elements' = Cardinality(Occupied(sparse_buckets'))
        /\ nb_deleted_buckets' = Cardinality(Tombstones(sparse_buckets'))
    <3>1. new_elements' = new_elements /\ new_buckets' = new_buckets
      BY <1>2 DEF build
    <3> QED
      BY <1>1, <1>8, <3>1, Zenon DEF u
  <2>2. bucket_count' # 0
    BY <1>1, <1>2
  <2> QED
    BY <2>1, <2>2 DEF CountersAgree
<1> QED
  BY <1>10, <1>11, <1>12 DEF Inv, TypeOK

LEMMA PutStep ==
  ASSUME Inv, pc = "insert", sparse_buckets # NoArrays,
         \/ found_deleted # None /\ PutAt(found_deleted, 1)
         \/ Cell = Empty /\ PutAt(ibucket, 0)
  PROVE  Inv'
<1>1. CASE found_deleted # None /\ PutAt(found_deleted, 1)
  <2>1. /\ found_deleted \in DOMAIN sparse_buckets
        /\ sparse_buckets[found_deleted] = Deleted
    BY <1>1 DEF Inv, TypeOK, CallOK
  <2>2. found_deleted \notin Occupied(sparse_buckets)
    BY <2>1 DEF Occupied
  <2> QED
    BY <1>1, <2>1, <2>2, PutAtStep
<1>2. CASE Cell = Empty /\ PutAt(ibucket, 0)
  <2>1. ibucket \in 0 .. bucket_count - 1 /\ sparse_buckets \in Table(bucket_count)
    BY CellOK DEF Inv
  <2>2. /\ ibucket \in DOMAIN sparse_buckets /\ sparse_buckets[ibucket] = Empty
        /\ ibucket \notin Occupied(sparse_buckets)
    BY <1>2, <2>1 DEF Table, Cell, Occupied
  <2>3. sparse_buckets[ibucket] # Deleted
    BY <2>2, MarkerAssumption
  <2> QED
    BY <1>2, <2>2, <2>3, PutAtStep
<1> QED
  BY <1>1, <1>2

LEMMA InsertStep ==
  ASSUME Inv, Insert
  PROVE  Inv'
<1>1. pc = "insert" /\ ~Rehashing /\ MayRehash
  BY DEF Insert, InsertNoArrays, InsertExhausted, InsertHit, InsertAdvance,
         InsertEmpty, Inserting, Rehashing, MayRehash, Inv, TypeOK, CallOK
<1>2. CASE InsertNoArrays
  BY <1>1, <1>2, GrowStep DEF InsertNoArrays
<1>3. CASE InsertExhausted
  <2>1. CASE found_deleted # None
    BY <1>1, <1>3, <2>1, PutStep DEF InsertExhausted
  <2>2. CASE found_deleted = None
    BY <1>1, <1>3, <2>2, GrowStep DEF InsertExhausted
  <2> QED
    BY <2>1, <2>2
<1>4. CASE InsertHit
  <2>1. Quiet /\ Return(Answer(TRUE, Cell)) /\ Cell \in Pair
    BY <1>1, <1>4, CellOK DEF InsertHit, Inserting, Holds, Quiet, Inv
  <2>2. Answer(TRUE, Cell) \in [hit : BOOLEAN, entry : Pair \cup {None}]
    BY <2>1 DEF Answer
  <2> QED
    BY <1>1, <2>1, <2>2, QuietReturn
<1>5. CASE InsertAdvance
  <2>1. /\ bucket_count \in Nat \ {0} /\ ibucket \in 0 .. bucket_count - 1
        /\ sparse_buckets \in Table(bucket_count)
    BY <1>1, <1>5, CellOK DEF InsertAdvance, Inserting, Inv
  <2>2. probe + 1 \in Nat /\ probe' = probe + 1
    BY <1>5 DEF InsertAdvance, Advance, Inv, TypeOK, TypesOK
  <2>3. ibucket' \in 0 .. bucket_count - 1
    <3> DEFINE p == probe + 1
    <3>1. ibucket' = NextBucket(bucket_count, ibucket, p) /\ ibucket \in Nat
      BY <1>5, <2>1 DEF InsertAdvance, Advance
    <3> HIDE DEF p
    <3> QED
      BY <2>1, <2>2, <3>1, NextBucketOK DEF p
  <2>4. /\ UNCHANGED <<pc, req, res>> /\ Quiet
        /\ \/ found_deleted' = found_deleted
           \/ found_deleted' = ibucket /\ sparse_buckets[ibucket] = Deleted
    BY <1>5 DEF InsertAdvance, Advance, Quiet, Cell
  <2>5. TypesOK'
    BY <2>1, <2>2, <2>3, <2>4
    DEF Inv, TypeOK, TypesOK, Quiet, table, limits, build
  <2>6. CallOK'
    <3>1. found_deleted' # None =>
            /\ found_deleted' \in DOMAIN sparse_buckets
            /\ sparse_buckets[found_deleted'] = Deleted
      BY <2>1, <2>4 DEF Inv, TypeOK, CallOK, Table
    <3> QED
      BY <1>1, <2>1, <2>3, <2>4, <3>1 DEF Inv, TypeOK, CallOK, Quiet, table
  <2>7. RehashOK' /\ ~Rehashing'
    BY <1>1, <2>4 DEF Inv, TypeOK, RehashOK, Rehashing, Quiet, table, build
  <2> QED
    BY <1>1, <2>4, <2>5, <2>6, <2>7, QuietCounters DEF Inv, TypeOK
<1>6. CASE InsertEmpty
  <2>1. \/ Grow \/ Rehash(bucket_count)
        \/ found_deleted # None /\ PutAt(found_deleted, 1)
        \/ Cell = Empty /\ PutAt(ibucket, 0)
    BY <1>6 DEF InsertEmpty, Put
  <2>2. CASE Grow
    BY <1>1, <2>2, GrowStep
  <2>3. CASE Rehash(bucket_count)
    <3>1. bucket_count \in 0 .. UsizeMax /\ bucket_count >= bucket_count
      BY SizesAreNat DEF Inv, TypeOK, TypesOK, MaxBucketCount
    <3> QED
      BY <1>1, <2>3, <3>1, RehashStep
  <2> QED
    BY <1>1, <1>6, <2>1, <2>2, <2>3, PutStep DEF InsertEmpty, Inserting
<1> QED
  BY <1>2, <1>3, <1>4, <1>5, <1>6 DEF Insert

-----------------------------------------------------------------------------
(* The operations on the whole table. *)

(* Turning values into tombstones, in a table or in one without arrays.    *)
LEMMA BuryStep ==
  ASSUME Inv, pc = "whole", NEW gone \in SUBSET Occupied(sparse_buckets),
         NEW left,
         \/ left = nb_elements - Cardinality(gone)
         \/ left = 0 /\ gone = Occupied(sparse_buckets),
         sparse_buckets' = [i \in DOMAIN sparse_buckets |->
                              IF i \in gone THEN Deleted ELSE sparse_buckets[i]],
         nb_elements' = left,
         nb_deleted_buckets' = nb_deleted_buckets + Cardinality(gone),
         UNCHANGED <<bucket_count, limits, build>>,
         NEW a, Return(a),
         a \in [hit : BOOLEAN, entry : Pair \cup {None}]
  PROVE  Inv'
<1>1. /\ ~Rehashing /\ bucket_count \in Nat
      /\ nb_elements \in Nat /\ nb_deleted_buckets \in Nat
      /\ new_elements = Cardinality(Occupied(new_buckets))
  BY SizesAreNat DEF Rehashing, Inv, TypeOK, TypesOK, CountersAgree
<1>2. CASE sparse_buckets # NoArrays
  <2> DEFINE n == bucket_count
             t == sparse_buckets
             u == sparse_buckets'
  <2>1. n \in Nat /\ t \in Table(n) /\ ~Torn
    BY <1>1, <1>2 DEF Inv, TypeOK, TypesOK, Torn
  <2>2. Buries(u, t, n, gone)
    BY <2>1 DEF Buries, Table, Slot
  <2>3. gone \in SUBSET Occupied(t)
    OBVIOUS
  <2>4. /\ nb_elements = Cardinality(Occupied(t))
        /\ nb_deleted_buckets = Cardinality(Tombstones(t))
    BY <1>1, <2>1 DEF Inv, CountersAgree
  <2>5. /\ \/ left = nb_elements - Cardinality(gone)
           \/ left = 0 /\ gone = Occupied(t)
        /\ nb_elements' = left /\ bucket_count' = n
        /\ nb_deleted_buckets' = nb_deleted_buckets + Cardinality(gone)
    OBVIOUS
  <2> HIDE DEF n, t, u
  <2>6. /\ u \in Table(n)
        /\ Cardinality(gone) \in 0 .. Cardinality(Occupied(t))
        /\ Cardinality(Occupied(u)) = Cardinality(Occupied(t)) - Cardinality(gone)
        /\ Cardinality(Tombstones(u)) = Cardinality(Tombstones(t)) + Cardinality(gone)
    BY <2>1, <2>2, <2>3, BuryCounts
  <2>7. Cardinality(Occupied(u)) \in Nat /\ Cardinality(Tombstones(u)) \in Nat
    BY <2>1, <2>6, CountsFinite
  <2>8. nb_elements' = Cardinality(Occupied(u))
    <3>1. CASE left = nb_elements - Cardinality(gone)
      BY <2>4, <2>5, <2>6, <3>1, Zenon
    <3>2. CASE left = 0 /\ gone = Occupied(t)
      <4>1. Cardinality(gone) = Cardinality(Occupied(t))
        BY <3>2, Zenon
      <4>2. Cardinality(Occupied(u)) = 0
        BY <2>6, <4>1
      <4> QED
        BY <2>5, <3>2, <4>2
    <3> QED
      BY <2>5, <3>1, <3>2
  <2>9. nb_deleted_buckets' = Cardinality(Tombstones(u))
    BY <2>4, <2>5, <2>6, Zenon
  <2>10. TypesOK'
    BY <2>6, <2>7, <2>8, <2>9
    DEF Inv, TypeOK, TypesOK, limits, build, Return, n, u
  <2>11. CallOK' /\ RehashOK'
    BY <1>1 DEF Inv, TypeOK, CallOK, RehashOK, Rehashing, build, Return
  <2>12. CountersAgree'
    <3>1. new_elements' = new_elements /\ new_buckets' = new_buckets
      BY DEF build
    <3>2. /\ new_elements' = Cardinality(Occupied(new_buckets'))
          /\ nb_elements' = Cardinality(Occupied(sparse_buckets'))
          /\ nb_deleted_buckets' = Cardinality(Tombstones(sparse_buckets'))
      BY <1>1, <2>8, <2>9, <3>1, Zenon DEF u
    <3>3. n # 0
      BY <1>2, <2>1, ArraysIffSlots DEF n, t
    <3> QED
      BY <2>5, <3>2, <3>3 DEF CountersAgree, n
  <2> QED
    BY <2>10, <2>11, <2>12 DEF Inv, TypeOK
<1>3. CASE sparse_buckets = NoArrays
  <2>1. /\ gone = {} /\ Cardinality(gone) = 0 /\ DOMAIN sparse_buckets = {}
        /\ Cardinality(Occupied(sparse_buckets)) = 0
        /\ Cardinality(Tombstones(sparse_buckets)) = 0
    BY <1>3, NoArraysEmpty, FS_EmptySet, Zenon
  <2>2. sparse_buckets' = NoArrays
    BY <1>3, <2>1 DEF NoArrays, FreshBuckets
  <2>3. /\ left = nb_elements \/ left = 0
        /\ nb_elements' = left /\ nb_deleted_buckets' = nb_deleted_buckets
        /\ bucket_count' = bucket_count
    <3>1. Cardinality(gone) = 0
      BY <2>1
    <3> DEFINE m == Cardinality(gone)
    <3>2. /\ left = nb_elements - m \/ left = 0
          /\ nb_deleted_buckets' = nb_deleted_buckets + m /\ m = 0
      BY <3>1
    <3> HIDE DEF m
    <3> QED
      BY <1>1, <3>2
  <2>4. TypesOK'
    BY <1>1, <2>2, <2>3 DEF Inv, TypeOK, TypesOK, limits, build, Return
  <2>5. CallOK' /\ RehashOK' /\ ~Rehashing'
    BY <1>1 DEF Inv, TypeOK, CallOK, RehashOK, Rehashing, build, Return
  <2>6. CountersAgree'
    <3>1. new_elements' = new_elements /\ new_buckets' = new_buckets
      BY DEF build
    <3>2. new_elements' = Cardinality(Occupied(new_buckets'))
      BY <1>1, <3>1, Zenon
    <3>3. /\ Cardinality(Occupied(sparse_buckets')) = 0
          /\ Cardinality(Tombstones(sparse_buckets')) = 0
      BY <1>3, <2>1, <2>2, Zenon
    <3>4. bucket_count = 0 => nb_elements' = 0 /\ nb_deleted_buckets' = 0
      BY <2>3 DEF Inv, CountersAgree
    <3> QED
      BY <1>1, <2>2, <2>3, <2>5, <3>2, <3>3, <3>4 DEF CountersAgree, Torn
  <2> QED
    BY <2>4, <2>5, <2>6 DEF Inv, TypeOK
<1> QED
  BY <1>2, <1>3

LEMMA WholeStep ==
  ASSUME Inv, WholeTable
  PROVE  Inv'
<1>1. pc = "whole" /\ ~Rehashing /\ req \in WholeRequests
  BY DEF WholeTable, Resize, Clear, EraseAll, Retain, PopFront, EraseRange,
         SetMaxLoadFactor, Whole, Rehashing, Inv, TypeOK, CallOK
<1>2. CASE Resize
  <2> DEFINE asked == IF req.op = "reserve" THEN BucketsFor(req.count) ELSE req.count
             own == BucketsFor(nb_elements)
             c == Max2(asked, own)
  <2>1. /\ req.op \in ResizeOps /\ req.count \in Nat /\ MayRehash
        /\ req.op # "reserve" => req.count \in 0 .. UsizeMax
    BY <1>1, <1>2, OnTheWhole DEF Resize, MayRehash, ResizeOps
  <2>2. asked \in 0 .. UsizeMax /\ own \in 0 .. UsizeMax
    BY <2>1, BucketsForOK, SizesAreNat DEF Inv, TypeOK, TypesOK
  <2>3. Rehash(c)
    BY <1>2 DEF Resize
  <2>4. c \in 0 .. UsizeMax
    <3> HIDE DEF asked, own
    <3> QED
      BY <2>2 DEF Max2
  <2> HIDE DEF c
  <2> QED
    BY <1>1, <2>1, <2>3, <2>4, RehashStep
<1>3. CASE Clear
  <2> DEFINE u == sparse_buckets'
  <2>1. /\ u = [i \in DOMAIN sparse_buckets |-> Empty]
        /\ nb_elements' = 0 /\ nb_deleted_buckets' = 0
        /\ Return(Done) /\ UNCHANGED <<bucket_count, limits, build>>
    BY <1>3 DEF Clear
  <2>2. u \in Table(bucket_count) \/ u = NoArrays
    BY <2>1 DEF Inv, TypeOK, TypesOK, Table, Slot, NoArrays, FreshBuckets
  <2>3. Occupied(u) = {} /\ Tombstones(u) = {} /\ Cardinality({}) = 0
    BY <2>1, FS_EmptySet, MarkerAssumption DEF Occupied, Tombstones
  <2> HIDE DEF u
  <2>4. Cardinality(Occupied(u)) = 0 /\ Cardinality(Tombstones(u)) = 0
    BY <2>3, Zenon
  <2>5. TypesOK'
    BY <2>1, <2>2, DoneOK DEF Inv, TypeOK, TypesOK, limits, build, Return, u
  <2>6. CallOK' /\ RehashOK'
    BY <1>1, <2>1 DEF Inv, TypeOK, CallOK, RehashOK, Rehashing, build, Return
  <2>7. CountersAgree'
    <3>1. new_elements' = new_elements /\ new_buckets' = new_buckets
      BY <2>1 DEF build
    <3>2. new_elements' = Cardinality(Occupied(new_buckets'))
      BY <3>1, Zenon DEF Inv, CountersAgree
    <3> QED
      BY <2>1, <2>4, <3>2 DEF CountersAgree, u
  <2> QED
    BY <2>5, <2>6, <2>7 DEF Inv, TypeOK
<1>4. CASE EraseAll
  <2>1. Done \in [hit : BOOLEAN, entry : Pair \cup {None}]
    BY DoneOK
  <2> QED
    BY <1>1, <1>4, <2>1, BuryStep DEF EraseAll
<1>5. CASE Retain
  <2> DEFINE gone == { i \in Occupied(sparse_buckets) :
                         sparse_buckets[i][1] \notin req.keep }
  <2>1. gone \in SUBSET Occupied(sparse_buckets) /\ Bury(gone) /\ Return(Done)
    BY <1>5 DEF Retain
  <2> HIDE DEF gone
  <2> QED
    BY <1>1, <2>1, DoneOK, BuryStep DEF Bury
<1>6. CASE PopFront
  <2>1. CASE Occupied(sparse_buckets) = {}
    <3>1. Quiet /\ Return(Done)
      BY <1>6, <2>1 DEF PopFront, Quiet
    <3> QED
      BY <1>1, <3>1, DoneOK, QuietReturn
  <2>2. CASE Occupied(sparse_buckets) # {}
    <3> DEFINE f == First(sparse_buckets)
               a == Answer(TRUE, sparse_buckets[f])
               gone == {f}
    <3>1. /\ f \in Occupied(sparse_buckets) /\ sparse_buckets[f] \in Pair
      <4>1. sparse_buckets \in Table(bucket_count) /\ bucket_count \in Nat
        BY <2>2, NoArraysEmpty, SizesAreNat DEF Inv, TypeOK, TypesOK
      <4>2. DOMAIN sparse_buckets \subseteq Nat
        BY <4>1 DEF Table
      <4>3. f \in Occupied(sparse_buckets)
        BY <2>2, <4>2, FirstOccupied
      <4> HIDE DEF f
      <4> QED
        BY <4>1, <4>3, OccupiedPair
    <3>2. Bury(gone) /\ Return(a)
      BY <1>6, <2>2 DEF PopFront
    <3> HIDE DEF f
    <3>3. a \in [hit : BOOLEAN, entry : Pair \cup {None}] /\ gone \in SUBSET Occupied(sparse_buckets)
      BY <3>1 DEF Answer
    <3> HIDE DEF a, gone
    <3> QED
      BY <1>1, <3>2, <3>3, BuryStep DEF Bury
  <2> QED
    BY <2>1, <2>2
<1>7. CASE EraseRange
  <2> DEFINE gone == { i \in Occupied(sparse_buckets) :
              Rank(sparse_buckets, i) \in req.skip .. req.skip + req.count - 1 }
  <2>1. gone \in SUBSET Occupied(sparse_buckets) /\ Bury(gone) /\ Return(Done)
    BY <1>7 DEF EraseRange
  <2> HIDE DEF gone
  <2> QED
    BY <1>1, <2>1, DoneOK, BuryStep DEF Bury
<1>8. CASE SetMaxLoadFactor
  <2> DEFINE load == Clamp(req.load)
  <2>1. /\ max_load_factor' = load
        /\ load_threshold_rehash' = ThresholdRehash(bucket_count, load)
        /\ load_threshold_clear_deleted' = ThresholdClear(bucket_count, load)
        /\ Return(Done) /\ UNCHANGED <<table, build>>
    BY <1>8 DEF SetMaxLoadFactor
  <2>2. load \in 1 .. 8
    <3>1. req.load \in Nat
      BY <1>1, <1>8, OnTheWhole DEF SetMaxLoadFactor, Whole
    <3> QED
      BY <3>1 DEF Clamp, Max2, Min2
  <2> HIDE DEF load
  <2>3. load_threshold_rehash' \in Nat /\ load_threshold_clear_deleted' \in Nat
    <3>1. bucket_count \in Nat
      BY SizesAreNat DEF Inv, TypeOK, TypesOK
    <3>2. /\ ThresholdRehash(bucket_count, load) \in Nat
          /\ ThresholdClear(bucket_count, load) \in Nat
      BY <2>2, <3>1, ThresholdsOK
    <3> QED
      BY <2>1, <3>2
  <2>4. TypesOK'
    BY <2>1, <2>2, <2>3, DoneOK DEF Inv, TypeOK, TypesOK, table, build, Return
  <2>5. CallOK' /\ RehashOK' /\ ~Rehashing'
    BY <1>1, <2>1 DEF Inv, TypeOK, CallOK, RehashOK, Rehashing, table, build, Return
  <2>6. CountersAgree'
    <3>1. /\ sparse_buckets' = sparse_buckets /\ bucket_count' = bucket_count
          /\ nb_elements' = nb_elements /\ nb_deleted_buckets' = nb_deleted_buckets
          /\ new_buckets' = new_buckets /\ new_elements' = new_elements
      BY <2>1 DEF table, build
    <3> QED
      BY <1>1, <2>5, <3>1 DEF Inv, CountersAgree, Torn, Occupied, Tombstones
  <2> QED
    BY <2>4, <2>5, <2>6 DEF Inv, TypeOK
<1> QED
  BY <1>2, <1>3, <1>4, <1>5, <1>6, <1>7, <1>8 DEF WholeTable

-----------------------------------------------------------------------------
(* The theorems. *)

LEMMA InitOK ==
  ASSUME Init
  PROVE  Inv
<1>1. PICK n \in InitCounts : Settle(n) # LengthError /\ bucket_count = Settle(n)
  BY DEF Init
<1>2. bucket_count \in SettledCounts /\ bucket_count \in Nat
  <2>1. n \in 0 .. UsizeMax
    BY ArgumentAssumption
  <2>2. Settle(n) \in SettledCounts
    BY <1>1, <2>1, SettleOK
  <2>3. bucket_count \in SettledCounts
    BY <1>1, <2>2
  <2> QED
    BY <2>3, SizesAreNat
<1>3. /\ sparse_buckets = FreshBuckets(bucket_count)
      /\ nb_elements = 0 /\ nb_deleted_buckets = 0
      /\ load_threshold_rehash = ThresholdRehash(bucket_count, max_load_factor)
      /\ load_threshold_clear_deleted = ThresholdClear(bucket_count, max_load_factor)
      /\ pc = "idle" /\ req = None /\ res = None
      /\ ibucket = 0 /\ probe = 0 /\ found_deleted = None
      /\ draining = <<>> /\ new_buckets = NoArrays
      /\ new_count = 0 /\ new_elements = 0
  BY DEF Init
<1>4. max_load_factor \in 1 .. 8
  <2>1. PICK load \in Loads : max_load_factor = Clamp(load)
    BY DEF Init
  <2>2. load \in Nat
    BY ArgumentAssumption
  <2> QED
    BY <2>1, <2>2 DEF Clamp, Max2, Min2
<1>5. /\ ThresholdRehash(bucket_count, max_load_factor) \in Nat
      /\ ThresholdClear(bucket_count, max_load_factor) \in Nat
  BY <1>2, <1>4, ThresholdsOK
<1>6. /\ FreshBuckets(bucket_count) \in Table(bucket_count)
      /\ Occupied(FreshBuckets(bucket_count)) = {}
      /\ Tombstones(FreshBuckets(bucket_count)) = {}
      /\ Cardinality({}) = 0
  BY <1>2, FreshTable, FS_EmptySet
<1>7. TypesOK
  BY <1>2, <1>3, <1>4, <1>5, <1>6, NoArraysEmpty DEF TypesOK
<1>8. CallOK /\ RehashOK
  BY <1>3 DEF CallOK, RehashOK, Rehashing
<1>9. CountersAgree
  <2>1. /\ Cardinality(Occupied(sparse_buckets)) = 0
        /\ Cardinality(Tombstones(sparse_buckets)) = 0
        /\ Cardinality(Occupied(new_buckets)) = 0
    BY <1>3, <1>6, NoArraysEmpty, Zenon
  <2> QED
    BY <1>3, <2>1 DEF CountersAgree
<1> QED
  BY <1>7, <1>8, <1>9 DEF Inv, TypeOK

LEMMA StutterStep ==
  ASSUME Inv, UNCHANGED vars
  PROVE  Inv'
<1>1. TypeOK'
  BY DEF Inv, TypeOK, TypesOK, CallOK, RehashOK, Rehashing, vars, table, limits,
         cursor, build, Occupied, Tombstones
<1>2. CountersAgree'
  BY DEF Inv, CountersAgree, Torn, Rehashing, vars, table, build, Occupied,
         Tombstones
<1> QED
  BY <1>1, <1>2 DEF Inv

(* Every action keeps the invariant.                                       *)
LEMMA NextStep ==
  ASSUME Inv, [OpenNext]_vars
  PROVE  Inv'
<1>1. CASE AskKey \/ AskWhole
  BY <1>1, CallStep
<1>2. CASE Step
  BY <1>2, FindStep, DrainStep, PlaceStep, InsertStep, WholeStep, FinishStep DEF Step
<1>3. CASE HasherPanics
  BY <1>3, LoseArraysStep DEF HasherPanics, Rehashing
<1>4. CASE UNCHANGED vars
  BY <1>4, StutterStep
<1> QED
  BY <1>1, <1>2, <1>3, <1>4 DEF OpenNext

(* The clients of a run ask for nothing else.                              *)
LEMMA CallsOK ==
  /\ KeyCalls \subseteq KeyRequests \cup PairRequests
  /\ WholeCalls \subseteq WholeRequests
<1>1. Counts \subseteq Nat
  BY ArgumentAssumption, SizesAreNat
<1>2. [op : ResizeOps, count : Counts]
        \subseteq [op : {"rehash"}, count : 0 .. UsizeMax] \cup [op : {"reserve"}, count : Nat]
  BY <1>1, ArgumentAssumption DEF ResizeOps
<1>3. [op : {"erase_range"}, skip : Spans, count : Spans]
        \subseteq [op : {"erase_range"}, skip : Nat, count : Nat]
  BY ArgumentAssumption
<1>4. [op : {"set_max_load_factor"}, load : Loads]
        \subseteq [op : {"set_max_load_factor"}, load : Nat]
  BY ArgumentAssumption
<1> QED
  BY <1>2, <1>3, <1>4 DEF KeyCalls, WholeCalls, Asked, WholeRequests

LEMMA RunIsOpen == Spec => OpenSpec
<1>1. [Next]_vars => [OpenNext]_vars
  BY CallsOK DEF Next, OpenNext, CallOnKey, CallOnWhole, AskKey, AskWhole
<1> QED
  BY <1>1, PTL DEF Spec, OpenSpec

LEMMA InvHolds == OpenSpec => []Inv
<1>1. Init => Inv
  BY InitOK
<1>2. Inv /\ [OpenNext]_vars => Inv'
  BY NextStep
<1> QED
  BY <1>1, <1>2, PTL DEF OpenSpec

(* Every variable keeps the range of its Rust type, no slot number is out  *)
(* of bounds, no counter of the code goes below zero, and the step of a    *)
(* call finds the tables it works on.                                      *)
THEOREM TypeCorrect == Spec => []TypeOK
<1>1. Inv => TypeOK
  BY DEF Inv
<1> QED
  BY <1>1, RunIsOpen, InvHolds, PTL

(* len() and the tombstone counter count what the slots hold, whatever     *)
(* sequence of calls, rehashes and panics came before.                     *)
THEOREM CountersCorrect == Spec => []CountersAgree
<1>1. Inv => CountersAgree
  BY DEF Inv
<1> QED
  BY <1>1, RunIsOpen, InvHolds, PTL

(* Only rehash and reserve may leave a table with fewer buckets: what an   *)
(* insertion builds is never smaller than what it replaces.                *)
THEOREM ShrinksOnlyOnRequest == Spec => OnlyResizeShrinks
<1>1. Inv /\ [OpenNext]_vars =>
        [bucket_count' < bucket_count => req.op \in ResizeOps]_vars
  <2> SUFFICES ASSUME Inv, OpenNext, bucket_count' < bucket_count
               PROVE  req.op \in ResizeOps
    BY DEF vars
  <2>1. CASE SwapIn
    <3>1. Rehashing /\ bucket_count' = new_count
      BY <2>1 DEF SwapIn, Rehashing
    <3>2. /\ req.op \notin ResizeOps => new_count >= bucket_count
          /\ new_count \in Nat /\ bucket_count \in Nat
      BY <3>1, RehashingFacts, SizesAreNat DEF Inv, TypeOK, TypesOK
    <3> QED
      BY <3>1, <3>2
  <2>2. CASE ~SwapIn
    <3>1. bucket_count' = bucket_count
      BY <2>2
      DEF OpenNext, AskKey, AskWhole, StartOnKey, StartOnWhole, Step, Find,
          FindNoBuckets, FindNoArrays,
          FindHit, FindMiss, FindAdvance, Absent, Drain, DrainNext, HasherPanics,
          SwapNested, LoseArrays, Place, PlaceHere, PlaceAdvance, PlaceExhausted,
          Insert, InsertNoArrays, InsertExhausted, InsertHit, InsertAdvance,
          InsertEmpty, Put, PutAt, Grow, Rehash, WholeTable, Resize, Clear,
          EraseAll, Retain, PopFront, EraseRange, Bury, SetMaxLoadFactor, Finish,
          table
    <3>2. bucket_count \in Nat
      BY SizesAreNat DEF Inv, TypeOK, TypesOK
    <3> QED
      BY <3>1, <3>2
  <2> QED
    BY <2>1, <2>2
<1> QED
  BY <1>1, RunIsOpen, InvHolds, PTL DEF OpenSpec, OnlyResizeShrinks

(* Only these two actions change the size of the table or the limits.      *)
LEMMA LimitsStep ==
  ASSUME [OpenNext]_vars, ~SwapIn, ~SetMaxLoadFactor
  PROVE  bucket_count' = bucket_count /\ UNCHANGED limits
BY DEF OpenNext, AskKey, AskWhole, StartOnKey, StartOnWhole, Step, Find, FindNoBuckets,
       FindNoArrays, FindHit, FindMiss, FindAdvance, Absent, Drain, DrainNext,
       HasherPanics, SwapNested, LoseArrays, Place, PlaceHere, PlaceAdvance,
       PlaceExhausted, Insert, InsertNoArrays, InsertExhausted, InsertHit,
       InsertAdvance, InsertEmpty, Put, PutAt, Grow, Rehash, WholeTable, Resize, Clear,
       EraseAll, Retain, PopFront, EraseRange, Bury, Finish, table, vars

LEMMA FreshStep ==
  ASSUME ThresholdsFresh, [OpenNext]_vars
  PROVE  ThresholdsFresh'
<1>1. CASE SwapIn
  BY <1>1 DEF SwapIn, ThresholdsFresh, ThresholdRehash, ThresholdClear
<1>2. CASE SetMaxLoadFactor
  BY <1>2
  DEF SetMaxLoadFactor, ThresholdsFresh, ThresholdRehash, ThresholdClear, table
<1>3. CASE ~SwapIn /\ ~SetMaxLoadFactor
  <2>1. bucket_count' = bucket_count /\ UNCHANGED limits
    BY <1>3, LimitsStep
  <2> QED
    BY <2>1 DEF ThresholdsFresh, ThresholdRehash, ThresholdClear, limits
<1> QED
  BY <1>1, <1>2, <1>3

LEMMA FreshHolds == OpenSpec => []ThresholdsFresh
<1>1. Init => ThresholdsFresh
  BY DEF Init, ThresholdsFresh
<1>2. ThresholdsFresh /\ [OpenNext]_vars => ThresholdsFresh'
  BY FreshStep
<1> QED
  BY <1>1, <1>2, PTL DEF OpenSpec

(* The cached thresholds always belong to the bucket count and the load    *)
(* factor the table has, so the decisions of insert never use old ones.    *)
THEOREM ThresholdsCorrect == Spec => []ThresholdsFresh
BY RunIsOpen, FreshHolds, PTL

-----------------------------------------------------------------------------
(* Probe paths. *)

LEMMA PathOK ==
  ASSUME NEW n \in Nat \ {0}, NEW k \in Key, NEW j \in Nat
  PROVE  Path(n, k, j) \in 0 .. n - 1
<1> DEFINE s == (j * (j + 1)) \div 2
           b == BucketForHash(n, k)
<1>1. s \in Nat /\ b \in Nat
  BY TriangularStep, BucketOK
<1> HIDE DEF s, b
<1>2. b + s \in Nat
  BY <1>1
<1>3. (b + s) % n \in 0 .. n - 1
  BY <1>2, DivMod
<1> QED
  BY <1>3 DEF Path, s, b

(* The first probe looks at bucket_for_hash ...                            *)
LEMMA PathStart ==
  ASSUME NEW n \in Nat \ {0}, NEW k \in Key
  PROVE  Path(n, k, 0) = BucketForHash(n, k)
<1> DEFINE b == BucketForHash(n, k)
<1>1. b \in Nat /\ b < n
  BY BucketOK
<1> HIDE DEF b
<1>2. (0 * (0 + 1)) \div 2 = 0 /\ b + 0 = b
  BY <1>1
<1>3. b = n * 0 + b /\ b \in 0 .. n - 1
  BY <1>1
<1>4. b % n = b
  BY <1>1, <1>3, ModUnique
<1> QED
  BY <1>2, <1>4 DEF Path, b

(* ... and next_bucket goes on along the path.                             *)
LEMMA PathStep ==
  ASSUME NEW n \in Nat \ {0}, NEW k \in Key, NEW j \in Nat
  PROVE  NextBucket(n, Path(n, k, j), j + 1) = Path(n, k, j + 1)
<1> DEFINE s == (j * (j + 1)) \div 2
           z == ((j + 1) * ((j + 1) + 1)) \div 2
           b == BucketForHash(n, k)
           y == j + 1
<1>1. s \in Nat /\ b \in Nat /\ z = s + y /\ y \in Nat
  BY TriangularStep, BucketOK
<1>2. Path(n, k, j) = (b + s) % n /\ Path(n, k, j + 1) = (b + z) % n
  BY DEF Path
<1> HIDE DEF s, z, b, y
<1>3. (((b + s) % n) + y) % n = ((b + s) + y) % n
  <2>1. b + s \in Nat
    BY <1>1
  <2> QED
    BY <1>1, <2>1, ModAdd
<1>4. (b + s) + y = b + z
  BY <1>1
<1> QED
  BY <1>2, <1>3, <1>4 DEF NextBucket, y

-----------------------------------------------------------------------------
(* What writes do to the paths of the values. *)

LEMMA EmptyFindable ==
  ASSUME NEW n, NEW t, Occupied(t) = {}
  PROVE  Findable(t, n)
BY DEF Findable

(* A write that leaves no slot empty that was not, and moves no value.     *)
LEMMA FindableKept ==
  ASSUME NEW n \in Nat, NEW t \in Table(n), NEW u \in Table(n), Findable(t, n),
         \A x \in 0 .. n - 1 : u[x] = Empty => t[x] = Empty,
         \A i \in Occupied(u) : i \in Occupied(t) /\ u[i][1] = t[i][1]
  PROVE  Findable(u, n)
<1> SUFFICES ASSUME NEW i \in Occupied(u)
             PROVE  \E j \in 0 .. n - 1 :
                      /\ Path(n, u[i][1], j) = i
                      /\ \A m \in 0 .. j - 1 : u[Path(n, u[i][1], m)] # Empty
  BY DEF Findable
<1> DEFINE k == u[i][1]
<1>1. i \in Occupied(t) /\ k = t[i][1] /\ k \in Key /\ n \in Nat \ {0}
  BY OccupiedPair DEF Pair
<1> HIDE DEF k
<1>2. PICK j \in 0 .. n - 1 :
        Path(n, k, j) = i /\ \A m \in 0 .. j - 1 : t[Path(n, k, m)] # Empty
  BY <1>1 DEF Findable
<1>3. \A m \in 0 .. j - 1 : u[Path(n, k, m)] # Empty
  BY <1>1, <1>2, PathOK
<1> QED
  BY <1>2, <1>3 DEF k

(* A value stored on its path, with no empty slot before it.               *)
LEMMA FindablePut ==
  ASSUME NEW n \in Nat, NEW t \in Table(n), NEW i \in 0 .. n - 1, NEW u,
         Stores(u, t, n, i), i \notin Occupied(t), Findable(t, n),
         NEW k, k = u[i][1], NEW j \in 0 .. n - 1, i = Path(n, k, j),
         \A m \in 0 .. j - 1 : t[Path(n, k, m)] # Empty
  PROVE  Findable(u, n)
<1>1. /\ u \in Table(n) /\ u[i] \in Pair /\ k \in Key /\ n \in Nat \ {0}
      /\ \A x \in (0 .. n - 1) \ {i} : u[x] = t[x]
  BY DEF Stores, Pair
<1>2. Occupied(u) = Occupied(t) \cup {i}
  BY PutCounts
<1>3. \A x \in 0 .. n - 1 : u[x] = Empty => t[x] = Empty
  BY <1>1, MarkerAssumption
<1> SUFFICES ASSUME NEW x \in Occupied(u)
             PROVE  \E p \in 0 .. n - 1 :
                      /\ Path(n, u[x][1], p) = x
                      /\ \A m \in 0 .. p - 1 : u[Path(n, u[x][1], m)] # Empty
  BY DEF Findable
<1>4. CASE x = i
  <2>1. \A m \in 0 .. j - 1 : u[Path(n, k, m)] # Empty
    BY <1>1, <1>3, PathOK
  <2> QED
    BY <1>4, <2>1
<1>5. CASE x # i
  <2> DEFINE y == u[x][1]
  <2>1. x \in Occupied(t) /\ y = t[x][1] /\ y \in Key
    BY <1>1, <1>2, <1>5, OccupiedPair DEF Pair
  <2> HIDE DEF y
  <2>2. PICK p \in 0 .. n - 1 :
          Path(n, y, p) = x /\ \A m \in 0 .. p - 1 : t[Path(n, y, m)] # Empty
    BY <2>1 DEF Findable
  <2>3. ASSUME NEW m \in 0 .. p - 1
        PROVE  u[Path(n, y, m)] # Empty
    <3>1. Path(n, y, m) \in 0 .. n - 1 /\ t[Path(n, y, m)] # Empty
      BY <1>1, <2>1, <2>2, PathOK
    <3> QED
      BY <1>3, <3>1
  <2> QED
    BY <2>2, <2>3 DEF y
<1> QED
  BY <1>4, <1>5

(* What find_position and insert conclude when they stop: p slots of the   *)
(* path do not hold the key, and the next one is empty or the path ends.   *)
LEMMA KeyAbsent ==
  ASSUME NEW n \in Nat, NEW t \in Table(n), Findable(t, n), NEW k, NEW p \in Nat,
         \A m \in 0 .. Min2(p, n) - 1 : ~Holds(t[Path(n, k, m)], k),
         p >= n \/ t[Path(n, k, p)] = Empty
  PROVE  \A i \in Occupied(t) : t[i][1] # k
<1> SUFFICES ASSUME NEW i \in Occupied(t), t[i][1] = k
             PROVE  FALSE
  OBVIOUS
<1>1. PICK j \in 0 .. n - 1 :
        Path(n, k, j) = i /\ \A m \in 0 .. j - 1 : t[Path(n, k, m)] # Empty
  BY DEF Findable
<1>2. t[i] \notin {Empty, Deleted} /\ Holds(t[Path(n, k, j)], k)
  BY <1>1 DEF Occupied, Holds
<1>3. ~ (j < Min2(p, n))
  <2>1. Min2(p, n) \in Nat
    BY DEF Min2
  <2> QED
    BY <1>2, <2>1
<1>4. j >= p /\ p < n
  BY <1>3 DEF Min2
<1>5. t[Path(n, k, p)] = Empty /\ p < j
  BY <1>1, <1>2, <1>4
<1> QED
  BY <1>1, <1>5
-----------------------------------------------------------------------------
(* What a step does to the tables. *)

TablesKept == UNCHANGED <<sparse_buckets, bucket_count, build>>

OnlySlots == UNCHANGED <<bucket_count, build>> /\ ~Rehashing /\ ~Rehashing'

(* The value of the key looked up is overwritten.                          *)
Replaced ==
  /\ ibucket \in Occupied(sparse_buckets) /\ Cell[1] = req.key
  /\ <<req.key, req.val>> \in Pair
  /\ sparse_buckets' = [sparse_buckets EXCEPT ![ibucket] = <<req.key, req.val>>]
  /\ OnlySlots

Buried(gone) ==
  /\ sparse_buckets' = [i \in DOMAIN sparse_buckets |->
                          IF i \in gone THEN Deleted ELSE sparse_buckets[i]]
  /\ OnlySlots

Cleared ==
  /\ sparse_buckets' = [i \in DOMAIN sparse_buckets |-> Empty]
  /\ OnlySlots

(* A new element goes to the tombstone remembered or to the empty slot met.*)
Added(i) ==
  /\ pc = "insert" /\ sparse_buckets # NoArrays /\ req \in PairRequests
  /\ i = found_deleted \/ (i = ibucket /\ probe < bucket_count)
  /\ probe >= bucket_count \/ Cell = Empty
  /\ i \in 0 .. bucket_count - 1 /\ i \notin Occupied(sparse_buckets)
  /\ sparse_buckets' = [sparse_buckets EXCEPT ![i] = <<req.key, req.val>>]
  /\ <<req.key, req.val>> \in Pair /\ pc' = "return"
  /\ OnlySlots

(* rehash_impl takes the arrays out and starts to fill a table of n slots, *)
Begun(n) ==
  /\ ~Rehashing /\ pc' = "drain" /\ MayRehash
  /\ sparse_buckets' = NoArrays /\ draining' = <<Values(sparse_buckets)>>
  /\ new_count' = n /\ new_buckets' = FreshBuckets(n)
  /\ UNCHANGED <<bucket_count, req>>

(* nests,                                                                  *)
Nested(n) ==
  /\ Rehashing /\ pc' = "drain"
  /\ draining' = <<Values(new_buckets)>> \o draining
  /\ new_count' = n /\ n >= new_count /\ new_buckets' = FreshBuckets(n)
  /\ UNCHANGED <<table, req>>

(* or unwinds.                                                             *)
Lost ==
  /\ Rehashing /\ LoseArrays

LEMMA FindEffects ==
  ASSUME Inv, Find
  PROVE  \/ TablesKept \/ Replaced
         \/ \E gone \in SUBSET Occupied(sparse_buckets) : Buried(gone)
<1>1. CASE ~FindHit
  BY <1>1 DEF Find, FindNoBuckets, FindNoArrays, FindMiss, FindAdvance, Absent,
              TablesKept, table
<1>2. CASE FindHit
  <2>1. /\ ibucket \in Occupied(sparse_buckets) /\ Cell[1] = req.key
        /\ sparse_buckets \in Table(bucket_count) /\ OnlySlots
        /\ req \in KeyRequests \cup PairRequests
    BY <1>2, CellOK
    DEF FindHit, Holds, OnlySlots, Rehashing, Return, Inv, TypeOK, CallOK
  <2>2. CASE req.op = "remove"
    <3> DEFINE gone == {ibucket}
    <3>1. sparse_buckets' = [sparse_buckets EXCEPT ![ibucket] = Deleted]
      BY <1>2, <2>2 DEF FindHit
    <3>2. gone \in SUBSET Occupied(sparse_buckets) /\ Buried(gone)
      BY <2>1, <3>1 DEF Buried
    <3> HIDE DEF gone
    <3> QED
      BY <3>2
  <2>3. CASE req.op \in {"get_mut", "insert_or_assign"}
    <3>1. sparse_buckets' = [sparse_buckets EXCEPT ![ibucket] = <<req.key, req.val>>]
      BY <1>2, <2>3 DEF FindHit
    <3>2. <<req.key, req.val>> \in Pair
      BY <2>1, <2>3, OnAKey, OnAPair
    <3> QED
      BY <2>1, <3>1, <3>2 DEF Replaced
  <2>4. CASE req.op \notin {"remove", "get_mut", "insert_or_assign"}
    BY <1>2, <2>4 DEF FindHit, TablesKept
  <2> QED
    BY <2>2, <2>3, <2>4
<1> QED
  BY <1>1, <1>2

LEMMA RehashEffect ==
  ASSUME Inv, ~Rehashing, MayRehash, NEW count \in 0 .. UsizeMax, Rehash(count)
  PROVE  TablesKept \/ \E n \in SettledCounts : n >= count /\ Begun(n)
<1>1. CASE Settle(count) = LengthError
  BY <1>1 DEF Rehash, TablesKept
<1>2. CASE Settle(count) # LengthError
  BY <1>2, SettleOK DEF Rehash, Begun
<1> QED
  BY <1>1, <1>2

LEMMA PutEffect ==
  ASSUME Inv, pc = "insert", sparse_buckets # NoArrays,
         probe >= bucket_count \/ Cell = Empty,
         \/ found_deleted # None /\ PutAt(found_deleted, 1)
         \/ Cell = Empty /\ probe < bucket_count /\ PutAt(ibucket, 0)
  PROVE  \E i : Added(i)
<1>1. /\ sparse_buckets \in Table(bucket_count) /\ ibucket \in 0 .. bucket_count - 1
      /\ req \in PairRequests /\ <<req.key, req.val>> \in Pair /\ ~Rehashing
  BY CellOK, OnAPair DEF Inv, TypeOK, CallOK, Rehashing
<1>2. CASE found_deleted # None /\ PutAt(found_deleted, 1)
  <2>1. /\ found_deleted \in 0 .. bucket_count - 1
        /\ found_deleted \notin Occupied(sparse_buckets)
    BY <1>1, <1>2 DEF Inv, TypeOK, CallOK, Table, Occupied
  <2>2. Added(found_deleted)
    BY <1>1, <1>2, <2>1 DEF Added, PutAt, OnlySlots, Return, Rehashing
  <2> QED
    BY <2>2
<1>3. CASE Cell = Empty /\ probe < bucket_count /\ PutAt(ibucket, 0)
  <2>1. ibucket \notin Occupied(sparse_buckets)
    BY <1>3 DEF Cell, Occupied
  <2>2. Added(ibucket)
    BY <1>1, <1>3, <2>1 DEF Added, PutAt, OnlySlots, Return, Rehashing
  <2> QED
    BY <2>2
<1> QED
  BY <1>2, <1>3

LEMMA InsertEffects ==
  ASSUME Inv, Insert
  PROVE  \/ TablesKept \/ \E i : Added(i)
         \/ \E n \in SettledCounts : n >= bucket_count /\ Begun(n)
<1>1. /\ pc = "insert" /\ ~Rehashing /\ MayRehash /\ req \in PairRequests
      /\ bucket_count \in SettledCounts /\ bucket_count \in 0 .. UsizeMax
  <2>1. /\ pc = "insert" /\ ~Rehashing /\ MayRehash /\ req \in PairRequests
        /\ bucket_count \in SettledCounts
    BY DEF Insert, InsertNoArrays, InsertExhausted, InsertHit, InsertAdvance,
           InsertEmpty, Inserting, Rehashing, MayRehash, Inv, TypeOK, TypesOK, CallOK
  <2>2. bucket_count \in 0 .. UsizeMax
    BY <2>1, SizesAreNat DEF MaxBucketCount
  <2> QED
    BY <2>1, <2>2
<1>2. ASSUME Grow
      PROVE  TablesKept \/ \E n \in SettledCounts : n >= bucket_count /\ Begun(n)
  <2>1. CASE PolicyNext(bucket_count) = LengthError
    BY <1>2, <2>1 DEF Grow, TablesKept, table
  <2>2. CASE PolicyNext(bucket_count) # LengthError
    <3>1. /\ PolicyNext(bucket_count) \in 0 .. UsizeMax
          /\ PolicyNext(bucket_count) > bucket_count
      BY <1>1, <2>2, NextOK
    <3>2. TablesKept \/ \E n \in SettledCounts :
                           n >= PolicyNext(bucket_count) /\ Begun(n)
      BY <1>1, <1>2, <2>2, <3>1, RehashEffect DEF Grow
    <3> QED
      BY <1>1, <3>1, <3>2, SizesAreNat
  <2> QED
    BY <2>1, <2>2
<1>3. ASSUME Rehash(bucket_count)
      PROVE  TablesKept \/ \E n \in SettledCounts : n >= bucket_count /\ Begun(n)
  BY <1>1, <1>3, RehashEffect
<1>4. ASSUME sparse_buckets # NoArrays, probe >= bucket_count \/ Cell = Empty,
             \/ found_deleted # None /\ PutAt(found_deleted, 1)
             \/ Cell = Empty /\ probe < bucket_count /\ PutAt(ibucket, 0)
      PROVE  \E i : Added(i)
  BY <1>1, <1>4, PutEffect
<1>5. CASE InsertNoArrays
  BY <1>2, <1>5 DEF InsertNoArrays
<1>6. CASE InsertExhausted
  BY <1>2, <1>4, <1>6 DEF InsertExhausted
<1>7. CASE InsertHit \/ InsertAdvance
  BY <1>7 DEF InsertHit, InsertAdvance, TablesKept, table
<1>8. CASE InsertEmpty
  BY <1>2, <1>3, <1>4, <1>8 DEF InsertEmpty, Inserting, Put
<1> QED
  BY <1>5, <1>6, <1>7, <1>8 DEF Insert

LEMMA RehashingEffects ==
  ASSUME Inv, Drain \/ Place
  PROVE  \/ TablesKept \/ SwapNested \/ SwapIn \/ PlaceHere \/ Lost
         \/ \E n \in SettledCounts : Nested(n)
<1>1. Rehashing
  BY DEF Drain, DrainNext, SwapIn, SwapNested, Rehashing, Place, PlaceHere,
         PlaceAdvance, PlaceExhausted, Placing
<1>2. CASE PlaceExhausted
  <2> DEFINE next == IF PolicyNext(new_count) = LengthError THEN LengthError
                     ELSE Settle(PolicyNext(new_count))
  <2>1. CASE next = LengthError
    BY <1>1, <1>2, <2>1 DEF PlaceExhausted, Lost
  <2>2. CASE next # LengthError
    <3>1. next \in SettledCounts /\ next >= new_count
      <4>1. new_count \in SettledCounts /\ new_count \in Nat
        BY <1>1, RehashingFacts
      <4>2. /\ PolicyNext(new_count) \in 0 .. UsizeMax
            /\ PolicyNext(new_count) > new_count /\ next = Settle(PolicyNext(new_count))
        BY <2>2, <4>1, NextOK
      <4>3. next \in SettledCounts /\ next >= PolicyNext(new_count)
        BY <2>2, <4>2, SettleOK
      <4> HIDE DEF next
      <4> QED
        BY <4>1, <4>2, <4>3, SizesAreNat
    <3>2. Nested(next)
      BY <1>1, <1>2, <2>2, <3>1 DEF PlaceExhausted, NestedDrain, Nested
    <3> HIDE DEF next
    <3> QED
      BY <3>1, <3>2
  <2> QED
    BY <2>1, <2>2
<1>3. CASE DrainNext \/ PlaceAdvance
  BY <1>3 DEF DrainNext, PlaceAdvance, TablesKept, table
<1> QED
  BY <1>2, <1>3 DEF Drain, Place

LEMMA WholeEffects ==
  ASSUME Inv, WholeTable
  PROVE  \/ TablesKept \/ Cleared
         \/ \E gone \in SUBSET Occupied(sparse_buckets) : Buried(gone)
         \/ \E n \in SettledCounts : Begun(n)
<1>1. pc = "whole" /\ ~Rehashing /\ req \in WholeRequests
  BY DEF WholeTable, Resize, Clear, EraseAll, Retain, PopFront, EraseRange,
         SetMaxLoadFactor, Whole, Rehashing, Inv, TypeOK, CallOK
<1>2. CASE Resize
  <2> DEFINE asked == IF req.op = "reserve" THEN BucketsFor(req.count) ELSE req.count
             own == BucketsFor(nb_elements)
             c == Max2(asked, own)
  <2>1. /\ req.op \in ResizeOps /\ req.count \in Nat /\ MayRehash
        /\ req.op # "reserve" => req.count \in 0 .. UsizeMax
    BY <1>1, <1>2, OnTheWhole DEF Resize, MayRehash, ResizeOps
  <2>2. asked \in 0 .. UsizeMax /\ own \in 0 .. UsizeMax
    BY <2>1, BucketsForOK, SizesAreNat DEF Inv, TypeOK, TypesOK
  <2>3. Rehash(c)
    BY <1>2 DEF Resize
  <2>4. c \in 0 .. UsizeMax
    <3> HIDE DEF asked, own
    <3> QED
      BY <2>2 DEF Max2
  <2> HIDE DEF c
  <2> QED
    BY <1>1, <2>1, <2>3, <2>4, RehashEffect
<1>3. CASE Clear
  BY <1>1, <1>3 DEF Clear, Cleared, OnlySlots, Return, Rehashing
<1>4. CASE EraseAll \/ Retain \/ EraseRange
  <2>1. PICK gone \in SUBSET Occupied(sparse_buckets) :
          /\ sparse_buckets' = [i \in DOMAIN sparse_buckets |->
                                  IF i \in gone THEN Deleted ELSE sparse_buckets[i]]
          /\ UNCHANGED <<bucket_count, build>> /\ Return(Done)
    BY <1>4 DEF EraseAll, Retain, EraseRange, Bury
  <2>2. Buried(gone)
    BY <1>1, <2>1 DEF Buried, OnlySlots, Return, Rehashing
  <2> QED
    BY <2>2
<1>5. CASE PopFront
  <2>1. CASE Occupied(sparse_buckets) = {}
    BY <1>5, <2>1 DEF PopFront, TablesKept, table
  <2>2. CASE Occupied(sparse_buckets) # {}
    <3> DEFINE gone == {First(sparse_buckets)}
    <3>1. /\ sparse_buckets' = [i \in DOMAIN sparse_buckets |->
                                  IF i \in gone THEN Deleted ELSE sparse_buckets[i]]
          /\ UNCHANGED <<bucket_count, build>> /\ pc' = "return"
      BY <1>5, <2>2 DEF PopFront, Bury, Return
    <3>2. gone \in SUBSET Occupied(sparse_buckets)
      <4>1. DOMAIN sparse_buckets \subseteq Nat
        BY NoArraysEmpty, SizesAreNat DEF Inv, TypeOK, TypesOK, Table
      <4> QED
        BY <2>2, <4>1, FirstOccupied
    <3> HIDE DEF gone
    <3>3. Buried(gone)
      BY <1>1, <3>1 DEF Buried, OnlySlots, Rehashing
    <3> QED
      BY <3>2, <3>3
  <2> QED
    BY <2>1, <2>2
<1>6. CASE SetMaxLoadFactor
  BY <1>6 DEF SetMaxLoadFactor, TablesKept, table
<1> QED
  BY <1>2, <1>3, <1>4, <1>5, <1>6 DEF WholeTable

(* Every step does one of these things to the tables.                      *)
LEMMA Effects ==
  ASSUME Inv, [OpenNext]_vars
  PROVE  \/ TablesKept \/ Replaced \/ Cleared
         \/ \E gone \in SUBSET Occupied(sparse_buckets) : Buried(gone)
         \/ \E i : Added(i)
         \/ \E n \in SettledCounts : Begun(n)
         \/ \E n \in SettledCounts : Nested(n)
         \/ SwapNested \/ SwapIn \/ PlaceHere \/ Lost
<1>1. CASE AskKey \/ AskWhole \/ Finish \/ UNCHANGED vars
  BY <1>1 DEF AskKey, AskWhole, StartOnKey, StartOnWhole, Finish, TablesKept, table, vars
<1>2. CASE HasherPanics
  BY <1>2 DEF HasherPanics, Rehashing, Lost
<1>3. CASE Find \/ Insert \/ WholeTable
  BY <1>3, FindEffects, InsertEffects, WholeEffects
<1>4. CASE Drain \/ Place
  BY <1>4, RehashingEffects
<1> QED
  BY <1>1, <1>2, <1>3, <1>4 DEF OpenNext, Step
-----------------------------------------------------------------------------
(* The probe loops. *)

(* Between calls and in the operations on the whole table nothing is left  *)
(* of an earlier probe loop.                                               *)
CursorAtRest ==
  pc \in {"idle", "whole", "return"} => probe = 0 /\ found_deleted = None

(* Neither half is inductive alone: a value is stored where the trail says *)
(* that its path leads, and a loop that starts relies on the cursor.       *)
ProbeInv == Inv /\ CursorAtRest /\ EveryValueFindable /\ ProbeTrail

(* What the two kinds of loop know, spelled out.                           *)
LEMMA SearchTrail ==
  ASSUME ProbeTrail, pc \in {"find", "insert"}, sparse_buckets # NoArrays
  PROVE  /\ probe < bucket_count => ibucket = Path(bucket_count, req.key, probe)
         /\ \A j \in 0 .. Min2(probe, bucket_count) - 1 :
              /\ sparse_buckets[Path(bucket_count, req.key, j)] # Empty
              /\ ~Holds(sparse_buckets[Path(bucket_count, req.key, j)], req.key)
         /\ found_deleted # None =>
              \E j \in 0 .. Min2(probe, bucket_count) - 1 :
                found_deleted = Path(bucket_count, req.key, j)
BY DEF ProbeTrail

LEMMA PlaceTrail ==
  ASSUME ProbeTrail, pc = "place", new_count > 0
  PROVE  /\ ibucket = Path(new_count, InFlight[1], probe)
         /\ \A j \in 0 .. probe - 1 :
              Path(new_count, InFlight[1], j) \in Occupied(new_buckets)
BY DEF ProbeTrail

LEMMA RestStep ==
  ASSUME Inv, CursorAtRest, [OpenNext]_vars
  PROVE  CursorAtRest'
<1>1. CASE UNCHANGED vars
  BY <1>1 DEF CursorAtRest, vars, cursor
<1>2. CASE AskKey \/ AskWhole \/ Finish
  BY <1>2 DEF AskKey, AskWhole, StartOnKey, StartOnWhole, Finish, CursorAtRest, cursor
<1>3. CASE Find
  BY <1>3 DEF Find, FindNoBuckets, FindNoArrays, FindHit, FindMiss, FindAdvance,
              Absent, Return, ProbeFrom, CursorAtRest
<1>4. CASE Insert
  BY <1>4 DEF Insert, InsertNoArrays, InsertExhausted, InsertHit, InsertAdvance,
              InsertEmpty, Inserting, Put, PutAt, Grow, Rehash, Return, Advance,
              CursorAtRest
<1>5. CASE Drain \/ HasherPanics
  BY <1>5 DEF Drain, DrainNext, SwapIn, SwapNested, HasherPanics, LoseArrays, Return,
              ProbeFrom, CursorAtRest
<1>6. CASE Place
  BY <1>6 DEF Place, PlaceHere, PlaceAdvance, PlaceExhausted, Placing, LoseArrays,
              Return, Advance, CursorAtRest
<1>7. CASE WholeTable
  BY <1>7 DEF WholeTable, Resize, Clear, EraseAll, Retain, PopFront, EraseRange,
              SetMaxLoadFactor, Whole, Rehash, Bury, Return, CursorAtRest
<1> QED
  BY <1>1, <1>2, <1>3, <1>4, <1>5, <1>6, <1>7 DEF OpenNext, Step

(* Each write keeps every value findable.                                  *)
LEMMA FindableStep ==
  ASSUME Inv, EveryValueFindable, ProbeTrail, [OpenNext]_vars
  PROVE  EveryValueFindable'
<1> DEFINE n == bucket_count
           t == sparse_buckets
           u == sparse_buckets'
<1>0. /\ n \in Nat /\ (t \in Table(n) \/ t = NoArrays)
      /\ Findable(t, n) /\ Findable(new_buckets, new_count)
      /\ \A m : Findable(NoArrays, m)
  <2>1. n \in Nat /\ (t \in Table(n) \/ t = NoArrays)
    BY SizesAreNat DEF Inv, TypeOK, TypesOK
  <2> QED
    BY <2>1, NoArraysEmpty, EmptyFindable DEF EveryValueFindable
<1>1. SUFFICES Findable(u, bucket_count') /\ Findable(new_buckets', new_count')
  BY DEF EveryValueFindable, Findable
<1>2. CASE TablesKept
  BY <1>0, <1>2, Zenon DEF TablesKept, build
<1>3. ASSUME OnlySlots, Findable(u, n)
      PROVE  Findable(u, bucket_count') /\ Findable(new_buckets', new_count')
  BY <1>0, <1>3 DEF OnlySlots, build
<1>4. CASE Replaced
  <2> DEFINE e == <<req.key, req.val>>
  <2>1. /\ t \in Table(n) /\ n \in Nat /\ ibucket \in Occupied(t) /\ OnlySlots
        /\ u = [t EXCEPT ![ibucket] = e] /\ e \in Pair /\ t[ibucket][1] = e[1]
    BY <1>0, <1>4, NoArraysEmpty, SizesAreNat
    DEF Replaced, Cell, Inv, TypeOK, TypesOK
  <2>2. Stores(u, t, n, ibucket)
    BY <2>1, OccupiedPair DEF Stores, Table, Slot
  <2> HIDE DEF n, t, u, e
  <2>3. u \in Table(n) /\ Occupied(u) = Occupied(t)
    BY <2>1, <2>2, OverwriteCounts
  <2>4. /\ \A x \in 0 .. n - 1 : u[x] = Empty => t[x] = Empty
        /\ \A x \in Occupied(u) : x \in Occupied(t) /\ u[x][1] = t[x][1]
    BY <2>1, <2>3, OccupiedPair, MarkerAssumption DEF Table
  <2>5. Findable(u, n)
    BY <1>0, <2>1, <2>3, <2>4, FindableKept
  <2> QED
    BY <1>3, <2>1, <2>5 DEF n, t, u
<1>5. CASE \E gone \in SUBSET Occupied(sparse_buckets) : Buried(gone)
  <2>1. PICK gone \in SUBSET Occupied(t) : Buried(gone)
    BY <1>5
  <2>2. CASE t = NoArrays
    <3>1. DOMAIN u = {} /\ OnlySlots
      BY <2>1, <2>2, NoArraysEmpty DEF Buried
    <3>2. Occupied(u) = {}
      BY <3>1 DEF Occupied
    <3> QED
      BY <1>3, <3>1, <3>2, EmptyFindable
  <2>3. CASE t # NoArrays
    <3>1. t \in Table(n) /\ n \in Nat /\ OnlySlots
      BY <1>0, <2>1, <2>3 DEF Buried
    <3>2. Buries(u, t, n, gone)
      BY <2>1, <3>1 DEF Buried, Buries, Table, Slot
    <3>6. gone \in SUBSET Occupied(t)
      BY <2>1
    <3> HIDE DEF n, t, u
    <3>3. u \in Table(n) /\ Occupied(u) = Occupied(t) \ gone
      <4>1. u \in Table(n)
        BY <3>2 DEF Buries
      <4> QED
        BY <3>1, <3>2, <4>1 DEF Buries, Table, Occupied
    <3>4. /\ \A x \in 0 .. n - 1 : u[x] = Empty => t[x] = Empty
          /\ \A x \in Occupied(u) : x \in Occupied(t) /\ u[x][1] = t[x][1]
      BY <3>1, <3>2, <3>3, OccupiedPair, MarkerAssumption DEF Buries
    <3>5. Findable(u, n)
      BY <1>0, <3>1, <3>3, <3>4, FindableKept
    <3> QED
      BY <1>3, <3>1, <3>5 DEF n, t, u
  <2> QED
    BY <2>2, <2>3
<1>6. CASE Cleared
  <2>1. Occupied(u) = {} /\ OnlySlots
    BY <1>6 DEF Cleared, Occupied
  <2> QED
    BY <1>3, <2>1, EmptyFindable
<1>7. CASE \E i : Added(i)
  <2>1. PICK i : Added(i)
    BY <1>7
  <2> DEFINE e == <<req.key, req.val>>
             k == req.key
  <2>2. /\ t \in Table(n) /\ n \in Nat /\ i \in 0 .. n - 1 /\ i \notin Occupied(t)
        /\ u = [t EXCEPT ![i] = e] /\ e \in Pair /\ e[1] = k /\ OnlySlots
        /\ probe \in Nat
    BY <1>0, <2>1, SizesAreNat DEF Added, Inv, TypeOK, TypesOK
  <2>3. Stores(u, t, n, i) /\ u[i] = e
    BY <2>2 DEF Stores, Table, Slot
  <2>4. \E j \in 0 .. n - 1 :
          i = Path(n, k, j) /\ \A m \in 0 .. j - 1 : t[Path(n, k, m)] # Empty
    <3>1. /\ probe < n => ibucket = Path(n, k, probe)
          /\ \A j \in 0 .. Min2(probe, n) - 1 : t[Path(n, k, j)] # Empty
          /\ found_deleted # None => \E j \in 0 .. Min2(probe, n) - 1 :
                                        found_deleted = Path(n, k, j)
      BY <2>1, SearchTrail DEF Added
    <3>2. CASE i = found_deleted
      <4>1. found_deleted # None
        BY <2>2, <3>2, MarkerAssumption
      <4>2. PICK j \in 0 .. Min2(probe, n) - 1 : i = Path(n, k, j)
        BY <3>1, <3>2, <4>1
      <4>3. j \in 0 .. n - 1 /\ \A m \in 0 .. j - 1 : m \in 0 .. Min2(probe, n) - 1
        BY <2>2, <4>2 DEF Min2
      <4> QED
        BY <3>1, <4>2, <4>3
    <3>3. CASE i = ibucket /\ probe < n
      <4>1. Min2(probe, n) = probe /\ probe \in 0 .. n - 1
        BY <2>2, <3>3 DEF Min2
      <4> QED
        BY <3>1, <3>3, <4>1
    <3> QED
      BY <2>1, <3>2, <3>3 DEF Added
  <2> HIDE DEF n, t, u, e, k
  <2>5. PICK j \in 0 .. n - 1 :
          i = Path(n, k, j) /\ \A m \in 0 .. j - 1 : t[Path(n, k, m)] # Empty
    BY <2>4
  <2>6. Findable(u, n)
    <3>1. k = u[i][1] /\ Findable(t, n)
      BY <1>0, <2>2, <2>3
    <3>2. /\ t \in Table(n) /\ n \in Nat /\ i \in 0 .. n - 1 /\ i \notin Occupied(t)
          /\ Stores(u, t, n, i)
      BY <2>2, <2>3
    <3> QED
      BY <2>5, <3>1, <3>2, FindablePut
  <2> QED
    BY <1>3, <2>2, <2>6 DEF n, t, u
<1>8. CASE \/ \E m \in SettledCounts : Begun(m)
           \/ \E m \in SettledCounts : Nested(m)
           \/ Lost
  <2>1. /\ u = NoArrays
        /\ \E m \in Nat : new_buckets' = FreshBuckets(m)
    BY <1>8, SizesAreNat, RehashingFacts
    DEF Begun, Nested, Lost, LoseArrays, table, NoArrays
  <2> QED
    BY <1>0, <2>1, FreshTable, EmptyFindable
<1>9. CASE SwapNested
  BY <1>0, <1>9 DEF SwapNested, table
<1>10. CASE SwapIn
  BY <1>0, <1>10 DEF SwapIn
<1>11. CASE PlaceHere
  <2> DEFINE c == new_count
             b == new_buckets
             d == new_buckets'
             e == InFlight
             k == InFlight[1]
  <2>1. /\ b \in Table(c) /\ c \in Nat /\ ibucket \in 0 .. c - 1
        /\ ibucket \notin Occupied(b) /\ d = [b EXCEPT ![ibucket] = e]
        /\ e \in Pair /\ new_count' = c /\ u = t /\ bucket_count' = n
        /\ pc = "place" /\ probe \in 0 .. c - 1
    <3>1. Rehashing /\ pc = "place" /\ probe < c /\ probe \in Nat
      BY <1>11 DEF PlaceHere, Placing, Rehashing, Inv, TypeOK, TypesOK
    <3>2. /\ b \in Table(c) /\ c \in Nat /\ e \in Pair
          /\ ibucket \in Nat /\ ibucket < c
      BY <3>1, RehashingFacts, InFlightOK DEF Inv, TypeOK, TypesOK, RehashOK
    <3> QED
      BY <1>11, <3>1, <3>2 DEF PlaceHere, table
  <2>2. Stores(d, b, c, ibucket) /\ d[ibucket] = e
    BY <2>1 DEF Stores, Table, Slot
  <2>3. /\ ibucket = Path(c, k, probe)
        /\ \A m \in 0 .. probe - 1 : Path(c, k, m) \in Occupied(b)
    BY <2>1, PlaceTrail
  <2>4. \A m \in 0 .. probe - 1 : b[Path(c, k, m)] # Empty
    BY <2>3 DEF Occupied
  <2>5. k = d[ibucket][1] /\ Findable(b, c)
    BY <1>0, <2>2
  <2> HIDE DEF c, b, d, e, k
  <2>6. Findable(d, c)
    BY <2>1, <2>2, <2>3, <2>4, <2>5, FindablePut
  <2> QED
    BY <1>0, <2>1, <2>6 DEF c, d
<1> QED
  BY <1>2, <1>4, <1>5, <1>6, <1>7, <1>8, <1>9, <1>10, <1>11, Effects

(* A lookup or an insertion starts to probe.                               *)
LEMMA TrailStarts ==
  ASSUME pc' \in {"find", "insert"}, probe' = 0, found_deleted' = None,
         ibucket' = BucketForHash(bucket_count', req'.key),
         req'.key \in Key, bucket_count' \in Nat
  PROVE  ProbeTrail'
<1>1. Min2(0, bucket_count') = 0
  BY DEF Min2
<1>2. bucket_count' > 0 => ibucket' = Path(bucket_count', req'.key, 0)
  BY PathStart
<1> QED
  BY <1>1, <1>2 DEF ProbeTrail

(* A step that leaves the probe loops.                                     *)
LEMMA TrailEnds ==
  ASSUME pc' \notin {"find", "insert", "place"}
  PROVE  ProbeTrail'
BY DEF ProbeTrail

(* One step further on the path of the key.                                *)
LEMMA TrailAdvances ==
  ASSUME Inv, ProbeTrail, pc \in {"find", "insert"}, sparse_buckets # NoArrays,
         UNCHANGED <<sparse_buckets, bucket_count, pc, req>>,
         Cell # Empty, ~Holds(Cell, req.key),
         ibucket' = NextBucket(bucket_count, ibucket, probe + 1),
         \/ probe' = probe + 1
         \/ probe >= bucket_count /\ probe' \in Nat /\ probe' >= bucket_count,
         \/ found_deleted' = found_deleted
         \/ found_deleted' = ibucket /\ probe < bucket_count
  PROVE  ProbeTrail'
<1> DEFINE n == bucket_count
           t == sparse_buckets
           k == req.key
           p == probe
           old == 0 .. Min2(p, n) - 1
           new == 0 .. Min2(probe', n) - 1
<1>1. n \in Nat \ {0} /\ k \in Key /\ p \in Nat
  BY CellOK DEF Inv, TypeOK, TypesOK
<1>2. /\ p < n => ibucket = Path(n, k, p)
      /\ \A j \in old : t[Path(n, k, j)] # Empty /\ ~Holds(t[Path(n, k, j)], k)
      /\ found_deleted # None => \E j \in old : found_deleted = Path(n, k, j)
  BY SearchTrail
<1>3. /\ p < n => probe' = p + 1 /\ new = old \cup {p}
      /\ p >= n => probe' >= n /\ new = old
      /\ p < n \/ p >= n
  BY <1>1 DEF Min2
<1>4. probe' < n => ibucket' = Path(n, k, probe')
  <2> SUFFICES ASSUME probe' < n
               PROVE  ibucket' = Path(n, k, probe')
    OBVIOUS
  <2>1. p < n /\ probe' = p + 1
    BY <1>1, <1>3
  <2>2. ibucket' = NextBucket(n, Path(n, k, p), p + 1)
    BY <1>2, <2>1
  <2> HIDE DEF n, k, p
  <2> QED
    BY <1>1, <2>1, <2>2, PathStep
<1>5. ASSUME NEW j \in new
      PROVE  t[Path(n, k, j)] # Empty /\ ~Holds(t[Path(n, k, j)], k)
  <2> HIDE DEF old, new
  <2>1. CASE j \in old
    BY <1>2, <2>1
  <2>2. CASE j = p /\ p < n
    BY <1>2, <2>2 DEF Cell
  <2> QED
    BY <1>3, <2>1, <2>2
<1>6. found_deleted' # None => \E j \in new : found_deleted' = Path(n, k, j)
  <2> HIDE DEF old, new
  <2>1. CASE found_deleted' = found_deleted
    BY <1>2, <1>3, <2>1
  <2>2. CASE found_deleted' = ibucket /\ p < n
    BY <1>2, <1>3, <2>2
  <2> QED
    BY <2>1, <2>2
<1>7. /\ bucket_count' = n /\ sparse_buckets' = t /\ req'.key = k
      /\ pc' # "place"
  OBVIOUS
<1> HIDE DEF n, t, k, old
<1> QED
  BY <1>4, <1>5, <1>6, <1>7 DEF ProbeTrail

LEMMA TrailStep ==
  ASSUME Inv, CursorAtRest, ProbeTrail, [OpenNext]_vars
  PROVE  ProbeTrail'
<1>0. bucket_count \in Nat
  BY SizesAreNat DEF Inv, TypeOK, TypesOK
<1>1. CASE UNCHANGED vars
  BY <1>1 DEF ProbeTrail, InFlight, First, Occupied, vars, table, cursor, build
<1>2. CASE AskKey
  <2>1. PICK r \in KeyRequests \cup PairRequests :
          /\ req' = r /\ pc' = IF r.op = "insert" THEN "insert" ELSE "find"
          /\ ibucket' = BucketForHash(bucket_count, r.key)
    BY <1>2 DEF AskKey, StartOnKey
  <2>2. probe' = 0 /\ found_deleted' = None /\ bucket_count' = bucket_count
    BY <1>2 DEF AskKey, StartOnKey, CursorAtRest, table
  <2> QED
    BY <1>0, <2>1, <2>2, OnAKey, TrailStarts
<1>3. CASE AskWhole \/ Finish \/ WholeTable \/ HasherPanics
  <2>1. pc' \in {"whole", "idle", "return", "drain"}
    BY <1>3 DEF AskWhole, StartOnWhole, Finish, WholeTable, Resize, Clear, EraseAll, Retain,
                PopFront, EraseRange, SetMaxLoadFactor, Rehash, Return,
                HasherPanics, LoseArrays
  <2> QED
    BY <2>1, TrailEnds
<1>4. CASE Find
  <2>1. CASE FindHit \/ FindNoArrays
    <3>1. pc' = "return"
      BY <2>1 DEF FindHit, FindNoArrays, Return
    <3> QED
      BY <3>1, TrailEnds
  <2>2. CASE FindNoBuckets \/ FindMiss
    <3>1. Absent /\ pc = "find"
      BY <2>2 DEF FindNoBuckets, FindMiss
    <3>2. CASE pc' = "return"
      BY <3>2, TrailEnds
    <3>3. CASE pc' # "return"
      <4>1. ProbeFrom("insert", bucket_count, req.key) /\ bucket_count' = bucket_count
        BY <3>1, <3>3 DEF Absent, Return, table
      <4>2. req.key \in Key
        BY <3>1, OnAKey DEF Inv, TypeOK, CallOK
      <4> QED
        BY <1>0, <4>1, <4>2, TrailStarts DEF ProbeFrom
    <3> QED
      BY <3>2, <3>3
  <2>3. CASE FindAdvance
    <3>1. /\ pc = "find" /\ sparse_buckets # NoArrays /\ ~Holds(Cell, req.key)
          /\ ~FindEnds /\ UNCHANGED <<sparse_buckets, bucket_count, pc, req, found_deleted>>
          /\ probe' = WrapProbe(probe + 1) /\ probe \in Nat
          /\ ibucket' = NextBucket(bucket_count, ibucket, probe + 1)
      BY <2>3 DEF FindAdvance, table, Inv, TypeOK, TypesOK
    <3>2. \/ probe' = probe + 1
          \/ probe >= bucket_count /\ probe' \in Nat /\ probe' >= bucket_count
      <4>1. bucket_count > 0
        BY <3>1, CellOK DEF Inv
      <4> QED
        BY <1>0, <3>1, <4>1 DEF WrapProbe
    <3> QED
      BY <3>1, <3>2, TrailAdvances DEF FindEnds
  <2> QED
    BY <1>4, <2>1, <2>2, <2>3 DEF Find
<1>5. CASE Insert
  <2>1. CASE InsertAdvance
    <3>1. /\ pc = "insert" /\ sparse_buckets # NoArrays /\ ~Holds(Cell, req.key)
          /\ Cell # Empty /\ probe < bucket_count
          /\ UNCHANGED <<sparse_buckets, bucket_count, pc, req>>
          /\ probe' = probe + 1
          /\ ibucket' = NextBucket(bucket_count, ibucket, probe + 1)
          /\ found_deleted' = found_deleted \/ found_deleted' = ibucket
      BY <2>1 DEF InsertAdvance, Inserting, Advance, table
    <3> QED
      BY <3>1, TrailAdvances
  <2>2. CASE ~InsertAdvance
    <3>1. pc' \in {"return", "drain"}
      BY <1>5, <2>2 DEF Insert, InsertNoArrays, InsertExhausted, InsertHit,
                        InsertEmpty, Put, PutAt, Grow, Rehash, Return
    <3> QED
      BY <3>1, TrailEnds
  <2> QED
    BY <2>1, <2>2
<1>6. CASE Drain
  <2>0. Rehashing
    BY <1>6 DEF Drain, DrainNext, SwapIn, SwapNested, Rehashing
  <2>1. CASE DrainNext
    <3> DEFINE k == InFlight[1]
    <3>1. /\ pc' = "place" /\ ibucket' = BucketForHash(new_count, k)
          /\ probe' = 0 /\ UNCHANGED build
      BY <2>1 DEF DrainNext, ProbeFrom
    <3>2. k \in Key /\ new_count \in Nat
      BY <2>0, <2>1, RehashingFacts, InFlightOK DEF DrainNext
    <3>3. InFlight' = InFlight
      BY <3>1 DEF InFlight, First, Occupied, build
    <3>4. new_count > 0 => ibucket' = Path(new_count, k, 0)
      BY <3>1, <3>2, PathStart
    <3> QED
      BY <3>1, <3>3, <3>4 DEF ProbeTrail, build
  <2>2. CASE SwapNested
    <3>1. pc' = "drain"
      BY <2>2 DEF SwapNested
    <3> QED
      BY <3>1, TrailEnds
  <2>3. CASE SwapIn
    <3>1. CASE req.op \in ResizeOps
      <4>1. pc' = "return"
        BY <2>3, <3>1 DEF SwapIn, Return
      <4> QED
        BY <4>1, TrailEnds
    <3>2. CASE req.op \notin ResizeOps
      <4>1. ProbeFrom("insert", new_count, req.key) /\ bucket_count' = new_count
        BY <2>3, <3>2 DEF SwapIn
      <4>2. req.key \in Key /\ new_count \in Nat
        BY <2>0, <3>2, RehashingFacts, OnAPair DEF MayRehash
      <4> QED
        BY <4>1, <4>2, TrailStarts DEF ProbeFrom
    <3> QED
      BY <3>1, <3>2
  <2> QED
    BY <1>6, <2>1, <2>2, <2>3 DEF Drain
<1>7. CASE Place
  <2>1. CASE PlaceAdvance
    <3> DEFINE c == new_count
               k == InFlight[1]
               p == probe
    <3>1. /\ pc = "place" /\ pc' = "place" /\ p \in Nat /\ p < c
          /\ ibucket \in Occupied(new_buckets) /\ UNCHANGED build
          /\ probe' = p + 1 /\ ibucket' = NextBucket(c, ibucket, p + 1)
      BY <2>1 DEF PlaceAdvance, Placing, Advance, Inv, TypeOK, TypesOK
    <3>2. c \in Nat \ {0} /\ k \in Key
      BY <3>1, RehashingFacts, InFlightOK DEF Rehashing, Inv, TypeOK, RehashOK
    <3>3. /\ ibucket = Path(c, k, p)
          /\ \A j \in 0 .. p - 1 : Path(c, k, j) \in Occupied(new_buckets)
      BY <3>1, <3>2, PlaceTrail
    <3>4. InFlight' = InFlight /\ new_count' = c /\ new_buckets' = new_buckets
      BY <3>1 DEF InFlight, First, Occupied, build
    <3>5. ibucket' = Path(c, k, probe')
      <4> HIDE DEF c, k, p
      <4> QED
        BY <3>1, <3>2, <3>3, PathStep
    <3>6. \A j \in 0 .. probe' - 1 : Path(c, k, j) \in Occupied(new_buckets)
      BY <3>1, <3>3
    <3> HIDE DEF k
    <3> QED
      BY <3>1, <3>4, <3>5, <3>6 DEF ProbeTrail, k
  <2>2. CASE PlaceHere \/ PlaceExhausted
    <3>1. pc' \in {"drain", "return"}
      BY <2>2 DEF PlaceHere, PlaceExhausted, LoseArrays, Return
    <3> QED
      BY <3>1, TrailEnds
  <2> QED
    BY <1>7, <2>1, <2>2 DEF Place
<1> QED
  BY <1>1, <1>2, <1>3, <1>4, <1>5, <1>6, <1>7 DEF OpenNext, Step

LEMMA ProbeInitOK ==
  ASSUME Init
  PROVE  ProbeInv
<1>1. Inv
  BY InitOK
<1>2. /\ sparse_buckets = FreshBuckets(bucket_count) /\ new_buckets = NoArrays
      /\ pc = "idle" /\ probe = 0 /\ found_deleted = None
  BY DEF Init
<1>3. Occupied(sparse_buckets) = {} /\ Occupied(new_buckets) = {}
  BY <1>1, <1>2, SizesAreNat, FreshTable, NoArraysEmpty DEF Inv, TypeOK, TypesOK
<1> QED
  BY <1>1, <1>2, <1>3, EmptyFindable
  DEF ProbeInv, CursorAtRest, EveryValueFindable, ProbeTrail

LEMMA ProbeInvHolds == OpenSpec => []ProbeInv
<1>1. Init => ProbeInv
  BY ProbeInitOK
<1>2. ProbeInv /\ [OpenNext]_vars => ProbeInv'
  BY NextStep, RestStep, FindableStep, TrailStep DEF ProbeInv
<1> QED
  BY <1>1, <1>2, PTL DEF OpenSpec

(* A probe for the key of a stored value meets it within bucket_count      *)
(* slots and before any empty slot, in the table and in the one a rehash   *)
(* is filling: no reuse, cleanup, growth or nested growth hides a value.   *)
THEOREM ValuesFindable == Spec => []EveryValueFindable
<1>1. ProbeInv => EveryValueFindable
  BY DEF ProbeInv
<1> QED
  BY <1>1, RunIsOpen, ProbeInvHolds, PTL

(* What a probe loop has passed is neither empty nor the key, the          *)
(* tombstone it remembers lies on the path, and a rehash passes only       *)
(* values.                                                                 *)
THEOREM TrailCorrect == Spec => []ProbeTrail
<1>1. ProbeInv => ProbeTrail
  BY DEF ProbeInv
<1> QED
  BY <1>1, RunIsOpen, ProbeInvHolds, PTL

-----------------------------------------------------------------------------
(* What the tables hold. *)

HeldIn(t) == { t[i] : i \in Occupied(t) }

KeysApart(t) == \A i, j \in Occupied(t) : t[i][1] = t[j][1] => i = j

SameValues(a, b) ==
  Occupied(a) = Occupied(b) /\ \A i \in Occupied(a) : a[i] = b[i]

(* Outside of a rehash only self holds values.                             *)
LEMMA AtRest ==
  Inv /\ ~Rehashing =>
    Entries = HeldIn(sparse_buckets) /\ (UniqueKeys <=> KeysApart(sparse_buckets))
<1> SUFFICES ASSUME Inv, ~Rehashing
             PROVE  /\ Entries = HeldIn(sparse_buckets)
                    /\ UniqueKeys <=> KeysApart(sparse_buckets)
  OBVIOUS
<1>1. draining = <<>> /\ new_buckets = NoArrays
  BY NoArraysEmpty DEF Inv, TypeOK, TypesOK, RehashOK, Table, NoArrays, FreshBuckets
<1>2. /\ Areas = {-1, 0} /\ Area(-1) = NoArrays /\ Area(0) = sparse_buckets
      /\ Occupied(NoArrays) = {}
  BY <1>1, NoArraysEmpty DEF Areas, Area
<1>3. Entries = HeldIn(sparse_buckets)
  BY <1>2 DEF Entries, HeldIn
<1>4. UniqueKeys <=> KeysApart(sparse_buckets)
  BY <1>2 DEF UniqueKeys, KeysApart
<1> QED
  BY <1>3, <1>4

LEMMA AtRestNext ==
  ASSUME Inv', ~Rehashing'
  PROVE  /\ Entries' = HeldIn(sparse_buckets')
         /\ UniqueKeys' <=> KeysApart(sparse_buckets')
<1>1. (Inv /\ ~Rehashing =>
         Entries = HeldIn(sparse_buckets) /\ (UniqueKeys <=> KeysApart(sparse_buckets)))'
  BY AtRest, PTL
<1> QED
  BY <1>1 DEF HeldIn, KeysApart, Occupied

(* Each area whose values come from one old area, whole.                   *)
LEMMA MovedAreas ==
  ASSUME UniqueKeys, NEW org,
         \A d \in Areas' : \/ Occupied(Area(d)') = {}
                           \/ org[d] \in Areas /\ SameValues(Area(d)', Area(org[d])),
         \A d, e \in Areas' : \/ Occupied(Area(d)') = {} \/ Occupied(Area(e)') = {}
                              \/ org[d] = org[e] => d = e
  PROVE  UniqueKeys'
<1> SUFFICES ASSUME NEW d \in Areas', NEW e \in Areas',
                    NEW i \in Occupied(Area(d)'), NEW j \in Occupied(Area(e)'),
                    Area(d)'[i][1] = Area(e)'[j][1]
             PROVE  d = e /\ i = j
  BY DEF UniqueKeys, Area, Occupied
<1>1. /\ org[d] \in Areas /\ i \in Occupied(Area(org[d]))
      /\ Area(d)'[i] = Area(org[d])[i]
      /\ org[e] \in Areas /\ j \in Occupied(Area(org[e]))
      /\ Area(e)'[j] = Area(org[e])[j]
  BY DEF SameValues
<1>2. org[d] = org[e] /\ i = j
  BY <1>1 DEF UniqueKeys
<1> QED
  BY <1>2

(* Entries are kept when each value comes from one and each one goes on.   *)
LEMMA KeptEntries ==
  ASSUME \A d \in Areas' : \A i \in Occupied(Area(d)') :
           \E e \in Areas : \E j \in Occupied(Area(e)) : Area(e)[j] = Area(d)'[i],
         \A d \in Areas : \A i \in Occupied(Area(d)) :
           \E e \in Areas' : \E j \in Occupied(Area(e)') : Area(e)'[j] = Area(d)[i]
  PROVE  Entries' = Entries
<1>1. \A x : x \in Entries <=> \E d \in Areas : \E i \in Occupied(Area(d)) : x = Area(d)[i]
  BY DEF Entries
<1>2. \A x : x \in Entries' <=>
               \E d \in Areas' : \E i \in Occupied(Area(d)') : x = Area(d)'[i]
  BY DEF Entries, Occupied, Area
<1> QED
  BY <1>1, <1>2

LEMMA MovedEntries ==
  ASSUME NEW org,
         \A d \in Areas' : \/ Occupied(Area(d)') = {}
                           \/ org[d] \in Areas /\ SameValues(Area(d)', Area(org[d])),
         \A d \in Areas : \/ Occupied(Area(d)) = {}
                          \/ \E e \in Areas' : Occupied(Area(e)') # {} /\ org[e] = d
  PROVE  Entries' = Entries
BY KeptEntries DEF SameValues

-----------------------------------------------------------------------------
(* A rehash moves values and neither drops nor copies one. *)

(* Every area holds pairs.                                                 *)
LEMMA AreaOK ==
  ASSUME Inv, NEW d \in Areas, NEW i \in Occupied(Area(d))
  PROVE  i \in Nat /\ Area(d)[i] \in Pair
<1>1. CASE d = -1
  <2>1. new_count \in Nat /\ new_buckets \in Table(new_count)
    BY SizesAreNat DEF Inv, TypeOK, TypesOK
  <2> QED
    BY <1>1, <2>1, OccupiedPair DEF Area
<1>2. CASE d = 0
  <2>1. CASE sparse_buckets = NoArrays
    BY <1>2, <2>1, NoArraysEmpty DEF Area
  <2>2. CASE sparse_buckets # NoArrays
    <3>1. bucket_count \in Nat /\ sparse_buckets \in Table(bucket_count)
      BY <2>2, SizesAreNat DEF Inv, TypeOK, TypesOK
    <3> QED
      BY <1>2, <3>1, OccupiedPair DEF Area
  <2> QED
    BY <2>1, <2>2
<1>3. CASE d \notin {-1, 0}
  <2>1. d \in DOMAIN draining /\ draining \in Seq(ValueTable)
    BY <1>3 DEF Areas, Inv, TypeOK, TypesOK
  <2>2. draining[d] \in ValueTable /\ Area(d) = draining[d]
    BY <1>3, <2>1 DEF Area
  <2> QED
    BY <2>2, MarkerAssumption, SizesAreNat DEF ValueTable, Occupied
<1> QED
  BY <1>1, <1>2, <1>3

LEMMA BegunMoves ==
  ASSUME Inv, UniqueKeys, NEW n \in SettledCounts, Begun(n)
  PROVE  UniqueKeys' /\ Entries' = Entries
<1> DEFINE t == sparse_buckets
           v == Values(sparse_buckets)
           org == [d \in {1} |-> 0]
<1>1. /\ ~Rehashing /\ sparse_buckets' = NoArrays /\ draining' = <<v>>
      /\ new_buckets' = FreshBuckets(n) /\ n \in Nat
  BY SizesAreNat DEF Begun
<1>2. /\ draining = <<>> /\ Occupied(new_buckets) = {}
      /\ Occupied(NoArrays) = {} /\ Occupied(FreshBuckets(n)) = {}
  BY <1>1, NoArraysEmpty, FreshTable
  DEF Inv, TypeOK, TypesOK, RehashOK, Table, NoArrays, FreshBuckets
<1>3. SameValues(v, t)
  <2>1. CASE t = NoArrays
    BY <2>1, NoArraysEmpty, SizesAreNat, ValuesOf DEF SameValues
  <2>2. CASE t # NoArrays
    BY <2>2, SizesAreNat, ValuesOf DEF SameValues, Inv, TypeOK, TypesOK
  <2> QED
    BY <2>1, <2>2
<1>4. /\ Areas = {-1, 0} /\ Areas' = {-1, 0, 1}
      /\ Area(-1) = new_buckets /\ Area(0) = t
      /\ Area(-1)' = FreshBuckets(n) /\ Area(0)' = NoArrays /\ Area(1)' = v
  BY <1>1, <1>2 DEF Areas, Area
<1> HIDE DEF t, v
<1>5. \A d \in Areas' : \/ Occupied(Area(d)') = {}
                        \/ d = 1 /\ org[d] \in Areas /\ SameValues(Area(d)', Area(org[d]))
  <2>1. org[1] = 0
    OBVIOUS
  <2> HIDE DEF org
  <2> QED
    BY <1>2, <1>3, <1>4, <2>1
<1>6. \A d \in Areas : \/ Occupied(Area(d)) = {}
                       \/ \E e \in Areas' : Occupied(Area(e)') # {} /\ org[e] = d
  <2>1. org[1] = 0 /\ Occupied(v) = Occupied(t)
    BY <1>3 DEF SameValues
  <2> HIDE DEF org
  <2> QED
    BY <1>2, <1>4, <2>1
<1>7. \A d, e \in Areas' : \/ Occupied(Area(d)') = {} \/ Occupied(Area(e)') = {}
                           \/ org[d] = org[e] => d = e
  BY <1>5
<1> HIDE DEF org
<1>8. UniqueKeys'
  BY <1>5, <1>7, MovedAreas
<1>9. Entries' = Entries
  BY <1>5, <1>6, MovedEntries
<1> QED
  BY <1>8, <1>9

LEMMA NestedMoves ==
  ASSUME Inv, UniqueKeys, NEW n \in SettledCounts, Nested(n)
  PROVE  UniqueKeys' /\ Entries' = Entries
<1> DEFINE b == new_buckets
           v == Values(new_buckets)
           org == [d \in 1 .. Len(draining) + 1 |-> IF d = 1 THEN -1 ELSE d - 1]
<1>1. /\ draining \in Seq(ValueTable) /\ draining' = <<v>> \o draining
      /\ sparse_buckets = NoArrays /\ sparse_buckets' = NoArrays
      /\ new_buckets' = FreshBuckets(n) /\ n \in Nat
      /\ Occupied(NoArrays) = {} /\ Occupied(FreshBuckets(n)) = {}
  BY SizesAreNat, RehashingFacts, NoArraysEmpty, FreshTable DEF Nested, table
<1>2. SameValues(v, b)
  BY RehashingFacts, SizesAreNat, ValuesOf DEF SameValues, Nested
<1>3. /\ Len(draining) \in Nat /\ Areas = {-1, 0} \cup (1 .. Len(draining))
      /\ Areas' = {-1, 0} \cup (1 .. Len(draining) + 1)
  BY <1>1 DEF Areas
<1>4. /\ Area(-1) = b /\ Area(0) = NoArrays
      /\ \A d \in 1 .. Len(draining) : Area(d) = draining[d]
  BY <1>1 DEF Area
<1>5. /\ Area(-1)' = FreshBuckets(n) /\ Area(0)' = NoArrays /\ Area(1)' = v
      /\ \A d \in 2 .. Len(draining) + 1 : Area(d)' = draining[d - 1]
  BY <1>1 DEF Area
<1>6. /\ org[1] = -1 /\ \A d \in 2 .. Len(draining) + 1 : org[d] = d - 1
      /\ Occupied(v) = Occupied(b)
      /\ \A x : SameValues(x, x)
  BY <1>2, <1>3 DEF SameValues
<1> HIDE DEF b, v, org
<1>7. \A d \in Areas' : \/ Occupied(Area(d)') = {}
                        \/ org[d] \in Areas /\ SameValues(Area(d)', Area(org[d]))
  <2> SUFFICES ASSUME NEW d \in Areas', Occupied(Area(d)') # {}
               PROVE  org[d] \in Areas /\ SameValues(Area(d)', Area(org[d]))
    OBVIOUS
  <2>1. CASE d = 1
    BY <1>2, <1>3, <1>4, <1>5, <1>6, <2>1
  <2>2. CASE d \in 2 .. Len(draining) + 1
    <3>1. org[d] = d - 1 /\ d - 1 \in 1 .. Len(draining) /\ d - 1 \in Areas
      BY <1>3, <1>6, <2>2
    <3>2. Area(d)' = draining[d - 1] /\ Area(d - 1) = draining[d - 1]
      BY <1>4, <1>5, <2>2, <3>1
    <3> QED
      BY <1>6, <3>1, <3>2
  <2>3. d \notin {-1, 0}
    BY <1>1, <1>5
  <2> QED
    BY <1>3, <2>1, <2>2, <2>3
<1>8. \A d, e \in Areas' : \/ Occupied(Area(d)') = {} \/ Occupied(Area(e)') = {}
                           \/ org[d] = org[e] => d = e
  <2>1. \A d \in Areas' : Occupied(Area(d)') # {} => d \in 1 .. Len(draining) + 1
    BY <1>1, <1>3, <1>5
  <2>2. \A d, e \in 1 .. Len(draining) + 1 : org[d] = org[e] => d = e
    BY <1>3, <1>6
  <2> QED
    BY <2>1, <2>2
<1>9. \A d \in Areas : \/ Occupied(Area(d)) = {}
                       \/ \E e \in Areas' : Occupied(Area(e)') # {} /\ org[e] = d
  <2> SUFFICES ASSUME NEW d \in Areas, Occupied(Area(d)) # {}
               PROVE  \E e \in Areas' : Occupied(Area(e)') # {} /\ org[e] = d
    OBVIOUS
  <2>1. CASE d = -1
    <3>1. 1 \in Areas' /\ Occupied(Area(1)') # {} /\ org[1] = d
      BY <1>3, <1>4, <1>5, <1>6, <2>1
    <3> QED
      BY <3>1
  <2>2. CASE d \in 1 .. Len(draining)
    <3>1. d + 1 \in Areas' /\ org[d + 1] = d /\ Area(d + 1)' = Area(d)
      BY <1>3, <1>4, <1>5, <1>6, <2>2
    <3> QED
      BY <3>1
  <2>3. d # 0
    BY <1>1, <1>4
  <2> QED
    BY <1>3, <2>1, <2>2, <2>3
<1> QED
  BY <1>7, <1>8, <1>9, MovedAreas, MovedEntries

LEMMA SwapNestedMoves ==
  ASSUME Inv, UniqueKeys, SwapNested
  PROVE  UniqueKeys' /\ Entries' = Entries
<1> DEFINE b == new_buckets
           org == [d \in {-1} \cup (1 .. Len(draining) - 1) |->
                     IF d = -1 THEN -1 ELSE d + 1]
<1>1. /\ draining \in Seq(ValueTable) /\ draining' = Tail(draining)
      /\ Len(draining) > 1 /\ Occupied(draining[1]) = {}
      /\ sparse_buckets = NoArrays /\ sparse_buckets' = NoArrays
      /\ new_buckets' = b /\ Occupied(NoArrays) = {}
  BY RehashingFacts, NoArraysEmpty DEF SwapNested, table, Rehashing
<1>2. /\ Len(draining) \in Nat /\ Areas = {-1, 0} \cup (1 .. Len(draining))
      /\ Areas' = {-1, 0} \cup (1 .. Len(draining) - 1)
  BY <1>1 DEF Areas
<1>3. /\ Area(-1) = b /\ Area(0) = NoArrays
      /\ \A d \in 1 .. Len(draining) : Area(d) = draining[d]
  BY <1>1 DEF Area
<1>4. /\ Area(-1)' = b /\ Area(0)' = NoArrays
      /\ \A d \in 1 .. Len(draining) - 1 : Area(d)' = draining[d + 1]
  BY <1>1 DEF Area
<1>5. /\ org[-1] = -1 /\ \A d \in 1 .. Len(draining) - 1 : org[d] = d + 1
      /\ \A x : SameValues(x, x)
  BY <1>2 DEF SameValues
<1> HIDE DEF b, org
<1>6. \A d \in Areas' : \/ Occupied(Area(d)') = {}
                        \/ org[d] \in Areas /\ SameValues(Area(d)', Area(org[d]))
  <2> SUFFICES ASSUME NEW d \in Areas', Occupied(Area(d)') # {}
               PROVE  org[d] \in Areas /\ SameValues(Area(d)', Area(org[d]))
    OBVIOUS
  <2>1. CASE d = -1
    BY <1>2, <1>3, <1>4, <1>5, <2>1
  <2>2. CASE d \in 1 .. Len(draining) - 1
    <3>1. org[d] = d + 1 /\ d + 1 \in 1 .. Len(draining) /\ d + 1 \in Areas
      BY <1>2, <1>5, <2>2
    <3>2. Area(d)' = Area(d + 1)
      BY <1>3, <1>4, <2>2, <3>1
    <3> QED
      BY <1>5, <3>1, <3>2
  <2>3. d # 0
    BY <1>1, <1>4
  <2> QED
    BY <1>2, <2>1, <2>2, <2>3
<1>7. \A d, e \in Areas' : \/ Occupied(Area(d)') = {} \/ Occupied(Area(e)') = {}
                           \/ org[d] = org[e] => d = e
  <2>1. \A d \in Areas' : Occupied(Area(d)') # {} =>
                            d \in {-1} \cup (1 .. Len(draining) - 1)
    BY <1>1, <1>2, <1>4
  <2>2. \A d, e \in {-1} \cup (1 .. Len(draining) - 1) : org[d] = org[e] => d = e
    BY <1>2, <1>5
  <2> QED
    BY <2>1, <2>2
<1>8. \A d \in Areas : \/ Occupied(Area(d)) = {}
                       \/ \E e \in Areas' : Occupied(Area(e)') # {} /\ org[e] = d
  <2> SUFFICES ASSUME NEW d \in Areas, Occupied(Area(d)) # {}
               PROVE  \E e \in Areas' : Occupied(Area(e)') # {} /\ org[e] = d
    OBVIOUS
  <2>1. CASE d = -1
    <3>1. -1 \in Areas' /\ Occupied(Area(-1)') # {} /\ org[-1] = d
      BY <1>2, <1>3, <1>4, <1>5, <2>1
    <3> QED
      BY <3>1
  <2>2. CASE d \in 2 .. Len(draining)
    <3>1. d - 1 \in Areas' /\ org[d - 1] = d /\ Area(d - 1)' = Area(d)
      BY <1>2, <1>3, <1>4, <1>5, <2>2
    <3> QED
      BY <3>1
  <2>3. d \notin {0, 1}
    BY <1>1, <1>3
  <2> QED
    BY <1>2, <2>1, <2>2, <2>3
<1> QED
  BY <1>6, <1>7, <1>8, MovedAreas, MovedEntries

LEMMA SwapInMoves ==
  ASSUME Inv, UniqueKeys, SwapIn
  PROVE  UniqueKeys' /\ Entries' = Entries
<1> DEFINE b == new_buckets
           org == [d \in {0} |-> -1]
<1>1. /\ draining \in Seq(ValueTable) /\ draining' = <<>>
      /\ Len(draining) = 1 /\ Occupied(draining[1]) = {}
      /\ sparse_buckets = NoArrays /\ sparse_buckets' = b
      /\ new_buckets' = NoArrays /\ Occupied(NoArrays) = {}
  BY RehashingFacts, NoArraysEmpty DEF SwapIn, Rehashing
<1>2. /\ Areas = {-1, 0, 1} /\ Areas' = {-1, 0}
      /\ Area(-1) = b /\ Area(0) = NoArrays /\ Area(1) = draining[1]
      /\ Area(-1)' = NoArrays /\ Area(0)' = b
  BY <1>1 DEF Areas, Area
<1>3. org[0] = -1 /\ SameValues(b, b)
  BY DEF SameValues
<1> HIDE DEF b, org
<1>4. \A d \in Areas' : \/ Occupied(Area(d)') = {}
                        \/ d = 0 /\ org[d] \in Areas /\ SameValues(Area(d)', Area(org[d]))
  BY <1>1, <1>2, <1>3
<1>5. \A d \in Areas : \/ Occupied(Area(d)) = {}
                       \/ \E e \in Areas' : Occupied(Area(e)') # {} /\ org[e] = d
  BY <1>1, <1>2, <1>3
<1>6. \A d, e \in Areas' : \/ Occupied(Area(d)') = {} \/ Occupied(Area(e)') = {}
                           \/ org[d] = org[e] => d = e
  BY <1>4
<1>7. \A d \in Areas' : \/ Occupied(Area(d)') = {}
                        \/ org[d] \in Areas /\ SameValues(Area(d)', Area(org[d]))
  BY <1>4
<1> QED
  BY <1>5, <1>6, <1>7, MovedAreas, MovedEntries

(* insert_on_rehash takes the value in flight from the old table and puts  *)
(* it into the new one.                                                    *)
LEMMA PlaceHereMoves ==
  ASSUME Inv, UniqueKeys, PlaceHere
  PROVE  UniqueKeys' /\ Entries' = Entries
<1> DEFINE b == new_buckets
           h == Head(draining)
           f == First(h)
           g == [h EXCEPT ![f] = Empty]
           u == [b EXCEPT ![ibucket] = h[f]]
           L == Len(draining)
<1>1. /\ draining \in Seq(ValueTable) /\ draining # <<>>
      /\ sparse_buckets = NoArrays /\ sparse_buckets' = NoArrays
      /\ Occupied(NoArrays) = {} /\ new_count \in Nat /\ b \in Table(new_count)
      /\ ibucket \in 0 .. new_count - 1 /\ ibucket \notin Occupied(b)
  <2>1. Rehashing /\ ibucket \in Nat /\ ibucket < new_count
    BY RehashingFacts
    DEF PlaceHere, Placing, Rehashing, Inv, TypeOK, TypesOK, RehashOK
  <2> QED
    BY <2>1, RehashingFacts, NoArraysEmpty DEF PlaceHere, table
<1>2. h \in ValueTable /\ f \in Occupied(h) /\ h[f] \in Pair /\ h = draining[1]
  BY <1>1, InFlightOK DEF PlaceHere, Placing, InFlight, Inv, TypeOK, RehashOK
<1>3. new_buckets' = u /\ draining' = [draining EXCEPT ![1] = g] /\ L \in Nat \ {0}
  BY <1>1 DEF PlaceHere, InFlight
<1>4. /\ Occupied(g) = Occupied(h) \ {f} /\ \A i \in Occupied(g) : g[i] = h[i]
  BY <1>2 DEF ValueTable, Occupied
<1>5. /\ Occupied(u) = Occupied(b) \cup {ibucket} /\ u[ibucket] = h[f]
      /\ \A i \in Occupied(b) : u[i] = b[i]
  BY <1>1, <1>2, MarkerAssumption DEF Table, Occupied
<1>6. Areas = {-1, 0} \cup (1 .. L) /\ Areas' = {-1, 0} \cup (1 .. L)
  BY <1>1, <1>3 DEF Areas
<1>7. /\ Area(-1) = b /\ Area(0) = NoArrays /\ Area(1) = h
      /\ \A d \in 2 .. L : Area(d) = draining[d]
  BY <1>1, <1>2 DEF Area
<1>8. /\ Area(-1)' = u /\ Area(0)' = NoArrays /\ Area(1)' = g
      /\ \A d \in 2 .. L : Area(d)' = draining[d]
  BY <1>1, <1>3 DEF Area
<1> HIDE DEF b, h, f, g, u, L
<1>9. \A d \in Areas' : \/ d \in {-1, 1}
                        \/ Occupied(Area(d)') = {}
                        \/ d \in 2 .. L /\ Area(d)' = Area(d)
  BY <1>1, <1>3, <1>6, <1>7, <1>8
(* Where each value was before the step.                                   *)
<1> DEFINE wasIn(d, i) == IF d = -1 /\ i = ibucket THEN 1 ELSE d
           wasAt(d, i) == IF d = -1 /\ i = ibucket THEN f ELSE i
<1>10. ASSUME NEW d \in Areas', NEW i \in Occupied(Area(d)')
       PROVE  /\ wasIn(d, i) \in Areas /\ wasAt(d, i) \in Occupied(Area(wasIn(d, i)))
              /\ Area(d)'[i] = Area(wasIn(d, i))[wasAt(d, i)]
              /\ d = 1 => i # f
  <2>1. CASE d = -1
    <3>1. i \in Occupied(b) \/ i = ibucket
      BY <1>5, <1>8, <2>1
    <3>2. CASE i = ibucket
      BY <1>2, <1>3, <1>5, <1>6, <1>7, <1>8, <2>1, <3>2
    <3>3. CASE i # ibucket
      BY <1>5, <1>6, <1>7, <1>8, <2>1, <3>1, <3>3
    <3> QED
      BY <3>2, <3>3
  <2>2. CASE d = 1
    BY <1>3, <1>4, <1>6, <1>7, <1>8, <2>2
  <2>3. CASE d \notin {-1, 1}
    BY <1>6, <1>9, <2>3
  <2> QED
    BY <2>1, <2>2, <2>3
<1>11. UniqueKeys'
  <2> SUFFICES ASSUME NEW d \in Areas', NEW e \in Areas',
                      NEW i \in Occupied(Area(d)'), NEW j \in Occupied(Area(e)'),
                      Area(d)'[i][1] = Area(e)'[j][1]
               PROVE  d = e /\ i = j
    BY DEF UniqueKeys, Area, Occupied
  <2> HIDE DEF wasIn, wasAt
  <2>1. wasIn(d, i) = wasIn(e, j) /\ wasAt(d, i) = wasAt(e, j)
    BY <1>10 DEF UniqueKeys
  <2>2. (d = 1 => i # f) /\ (e = 1 => j # f)
    BY <1>10
  <2> QED
    BY <2>1, <2>2 DEF wasIn, wasAt
<1>12. Entries' = Entries
  <2>1. ASSUME NEW d \in Areas', NEW i \in Occupied(Area(d)')
        PROVE  \E e \in Areas : \E j \in Occupied(Area(e)) : Area(e)[j] = Area(d)'[i]
    <3> HIDE DEF wasIn, wasAt
    <3> QED
      BY <1>10
  <2>2. ASSUME NEW d \in Areas, NEW i \in Occupied(Area(d))
        PROVE  \E e \in Areas' : \E j \in Occupied(Area(e)') : Area(e)'[j] = Area(d)[i]
    <3>1. CASE d = -1
      BY <1>5, <1>6, <1>7, <1>8, <3>1
    <3>2. CASE d = 1 /\ i = f
      BY <1>5, <1>6, <1>7, <1>8, <3>2
    <3>3. CASE d = 1 /\ i # f
      BY <1>4, <1>6, <1>7, <1>8, <3>3
    <3>4. CASE d \in 2 .. L
      BY <1>6, <1>7, <1>8, <3>4
    <3>5. d # 0
      BY <1>1, <1>7
    <3> QED
      BY <1>3, <1>6, <3>1, <3>2, <3>3, <3>4, <3>5
  <2> QED
    BY <2>1, <2>2, KeptEntries
<1> QED
  BY <1>11, <1>12

LEMMA KeptMoves ==
  ASSUME UniqueKeys, TablesKept
  PROVE  UniqueKeys' /\ Entries' = Entries
BY DEF TablesKept, build, UniqueKeys, Entries, Areas, Area, Occupied

-----------------------------------------------------------------------------
(* One pair for each key. *)

NewPairOps == {"insert", "try_emplace", "insert_or_assign"}

(* Which operations a loop may be running for.                             *)
CallKinds ==
  /\ pc = "find" => req.op # "insert"
  /\ pc = "insert" => req.op \in NewPairOps
  /\ Rehashing => req.op \in NewPairOps \cup ResizeOps

(* The lookup that try_emplace and insert_or_assign begin with stays valid *)
(* while insert_with_hash probes again, grows the table and starts over.   *)
KnownAbsent ==
  /\ pc \in {"insert", "drain", "place"}
  /\ req.op \in {"try_emplace", "insert_or_assign"}
  => \A e \in Entries : e[1] # req.key

KeyInv == ProbeInv /\ UniqueKeys /\ CallKinds /\ KnownAbsent

(* A probe loop that stops has established that the key is absent.         *)
LEMMA AbsentHere ==
  ASSUME ProbeInv, pc \in {"find", "insert"}, sparse_buckets # NoArrays,
         probe >= bucket_count \/ Cell = Empty
  PROVE  \A i \in Occupied(sparse_buckets) : sparse_buckets[i][1] # req.key
<1> DEFINE n == bucket_count
           t == sparse_buckets
           k == req.key
           p == probe
<1>1. n \in Nat /\ t \in Table(n) /\ p \in Nat /\ Findable(t, n)
  BY CellOK DEF ProbeInv, Inv, TypeOK, TypesOK, EveryValueFindable
<1>2. /\ p < n => ibucket = Path(n, k, p)
      /\ \A j \in 0 .. Min2(p, n) - 1 : ~Holds(t[Path(n, k, j)], k)
  BY SearchTrail DEF ProbeInv
<1>3. p >= n \/ t[Path(n, k, p)] = Empty
  BY <1>1, <1>2 DEF Cell
<1> HIDE DEF n, t, k, p
<1>4. \A i \in Occupied(t) : t[i][1] # k
  BY <1>1, <1>2, <1>3, KeyAbsent
<1> QED
  BY <1>4 DEF t, k

LEMMA UniqueStep ==
  ASSUME ProbeInv, UniqueKeys, [OpenNext]_vars
  PROVE  UniqueKeys'
<1>1. Inv /\ Inv'
  BY NextStep DEF ProbeInv
<1>2. CASE TablesKept
  BY <1>2, KeptMoves
<1>3. CASE \/ \E n \in SettledCounts : Begun(n)
           \/ \E n \in SettledCounts : Nested(n)
           \/ SwapNested \/ SwapIn \/ PlaceHere
  BY <1>1, <1>3, BegunMoves, NestedMoves, SwapNestedMoves, SwapInMoves, PlaceHereMoves
<1>4. ASSUME OnlySlots, KeysApart(sparse_buckets')
      PROVE  UniqueKeys'
  BY <1>1, <1>4, AtRestNext DEF OnlySlots
<1>5. OnlySlots => KeysApart(sparse_buckets)
  BY <1>1, AtRest DEF OnlySlots
<1> DEFINE t == sparse_buckets
           u == sparse_buckets'
           n == bucket_count
<1>6. t # NoArrays => n \in Nat /\ t \in Table(n)
  BY <1>1, SizesAreNat DEF Inv, TypeOK, TypesOK
<1>7. CASE Replaced
  <2> DEFINE e == <<req.key, req.val>>
  <2>1. /\ t \in Table(n) /\ n \in Nat /\ ibucket \in Occupied(t) /\ OnlySlots
        /\ u = [t EXCEPT ![ibucket] = e] /\ e \in Pair /\ t[ibucket][1] = e[1]
        /\ KeysApart(t)
    BY <1>5, <1>6, <1>7, NoArraysEmpty DEF Replaced, Cell
  <2> HIDE DEF t, u, n, e
  <2>2. Stores(u, t, n, ibucket)
    BY <2>1, OccupiedPair DEF Stores, Table, Slot
  <2>3. Occupied(u) = Occupied(t)
    BY <2>1, <2>2, OverwriteCounts
  <2>4. \A i \in Occupied(u) : u[i][1] = t[i][1]
    BY <2>1, <2>3 DEF Table, Occupied
  <2>5. KeysApart(u)
    BY <2>1, <2>3, <2>4 DEF KeysApart
  <2> QED
    BY <1>4, <2>1, <2>5 DEF u
<1>8. CASE \E gone \in SUBSET Occupied(sparse_buckets) : Buried(gone)
  <2>1. PICK gone \in SUBSET Occupied(t) : Buried(gone)
    BY <1>8
  <2>2. \A i \in Occupied(u) : i \in Occupied(t) /\ u[i] = t[i]
    BY <2>1 DEF Buried, Occupied
  <2>3. KeysApart(u) /\ OnlySlots
    BY <1>5, <2>1, <2>2 DEF KeysApart, Buried
  <2> QED
    BY <1>4, <2>3
<1>9. CASE Cleared
  <2>1. KeysApart(u) /\ OnlySlots
    BY <1>9 DEF Cleared, Occupied, KeysApart
  <2> QED
    BY <1>4, <2>1
<1>10. CASE \E i : Added(i)
  <2>1. PICK i : Added(i)
    BY <1>10
  <2> DEFINE e == <<req.key, req.val>>
  <2>2. /\ t \in Table(n) /\ n \in Nat /\ i \in 0 .. n - 1 /\ i \notin Occupied(t)
        /\ u = [t EXCEPT ![i] = e] /\ e \in Pair /\ OnlySlots /\ KeysApart(t)
    BY <1>5, <1>6, <2>1 DEF Added
  <2>3. \A j \in Occupied(t) : t[j][1] # e[1]
    BY <2>1, AbsentHere DEF Added
  <2> HIDE DEF t, u, n, e
  <2>4. /\ \A j \in Occupied(u) : j # i => j \in Occupied(t) /\ u[j] = t[j]
        /\ u[i] = e
    BY <2>2 DEF Occupied, Table
  <2>5. KeysApart(u)
    BY <2>2, <2>3, <2>4 DEF KeysApart
  <2> QED
    BY <1>4, <2>2, <2>5 DEF u
<1>11. CASE Lost
  <2>1. ~Rehashing' /\ Occupied(sparse_buckets') = {}
    BY <1>1, <1>11, RehashingFacts, NoArraysEmpty
    DEF Lost, LoseArrays, Return, Rehashing, table
  <2>2. KeysApart(sparse_buckets')
    BY <2>1 DEF KeysApart
  <2> QED
    BY <1>1, <2>1, <2>2, AtRestNext
<1> QED
  BY <1>1, <1>2, <1>3, <1>7, <1>8, <1>9, <1>10, <1>11, Effects

LEMMA KindsStep ==
  ASSUME Inv, CallKinds, [OpenNext]_vars
  PROVE  CallKinds'
<1>1. CASE AskKey
  <2>1. PICK r \in KeyRequests \cup PairRequests :
          req' = r /\ pc' = IF r.op = "insert" THEN "insert" ELSE "find"
    BY <1>1 DEF AskKey, StartOnKey
  <2> QED
    BY <2>1 DEF CallKinds, NewPairOps, Rehashing
<1>2. CASE AskWhole \/ Finish \/ HasherPanics
  BY <1>2 DEF AskWhole, StartOnWhole, Finish, HasherPanics, LoseArrays, Return, CallKinds, Rehashing
<1>3. CASE UNCHANGED vars
  BY <1>3 DEF vars, CallKinds, Rehashing
<1>4. CASE Find
  BY <1>4 DEF Find, FindNoBuckets, FindNoArrays, FindHit, FindMiss, FindAdvance,
              Absent, Return, ProbeFrom, CallKinds, Rehashing, NewPairOps
<1>5. CASE Insert
  <2>1. pc = "insert" /\ pc' \in {"insert", "drain", "return"} /\ req' = req
    BY <1>5 DEF Insert, InsertNoArrays, InsertExhausted, InsertHit, InsertAdvance,
                InsertEmpty, Inserting, Put, PutAt, Grow, Rehash, Return, Advance
  <2> QED
    BY <2>1 DEF CallKinds, Rehashing
<1>6. CASE Drain \/ Place
  <2>1. /\ Rehashing /\ req' = req /\ pc' \in {"drain", "place", "return", "insert"}
        /\ pc' = "insert" => req.op \notin ResizeOps
    BY <1>6 DEF Drain, DrainNext, SwapIn, SwapNested, Place, PlaceHere, PlaceAdvance,
                PlaceExhausted, Placing, LoseArrays, Return, ProbeFrom, Advance,
                Rehashing
  <2> QED
    BY <2>1 DEF CallKinds, Rehashing
<1>7. CASE WholeTable
  <2>1. /\ req' = req /\ pc' \in {"drain", "return"}
        /\ pc' = "drain" => req.op \in ResizeOps
    BY <1>7 DEF WholeTable, Resize, Clear, EraseAll, Retain, PopFront, EraseRange,
                SetMaxLoadFactor, Whole, Rehash, Bury, Return
  <2> QED
    BY <2>1 DEF CallKinds, Rehashing
<1> QED
  BY <1>1, <1>2, <1>3, <1>4, <1>5, <1>6, <1>7 DEF OpenNext, Step

LEMMA AbsentKnownStep ==
  ASSUME KeyInv, [OpenNext]_vars
  PROVE  KnownAbsent'
<1> SUFFICES ASSUME pc' \in {"insert", "drain", "place"},
                    req'.op \in {"try_emplace", "insert_or_assign"}
             PROVE  \A e \in Entries' : e[1] # req'.key
  BY DEF KnownAbsent, Entries, Areas, Area, Occupied
<1>1. Inv /\ UniqueKeys
  BY DEF KeyInv, ProbeInv
<1>2. ASSUME pc \in {"insert", "drain", "place"}, req' = req, Entries' = Entries
      PROVE  \A e \in Entries' : e[1] # req'.key
  BY <1>2 DEF KeyInv, KnownAbsent
<1>3. CASE UNCHANGED vars
  <2>1. TablesKept /\ pc' = pc /\ req' = req
    BY <1>3 DEF vars, table, TablesKept
  <2> QED
    BY <1>1, <1>2, <2>1, KeptMoves
<1>4. CASE AskKey \/ AskWhole \/ Finish \/ HasherPanics
  BY <1>4 DEF AskKey, AskWhole, StartOnKey, StartOnWhole, Finish, HasherPanics, LoseArrays, Return
<1>5. CASE Find
  <2>1. /\ pc = "find" /\ Absent /\ req' = req /\ TablesKept /\ ~Rehashing
        /\ FindNoBuckets \/ FindMiss
    BY <1>5 DEF Find, FindNoBuckets, FindNoArrays, FindHit, FindMiss, FindAdvance,
                Absent, Return, ProbeFrom, TablesKept, table, Rehashing
  <2>2. Entries' = Entries /\ Entries = HeldIn(sparse_buckets)
    BY <1>1, <2>1, KeptMoves, AtRest
  <2>3. \A i \in Occupied(sparse_buckets) : sparse_buckets[i][1] # req.key
    <3>1. CASE FindNoBuckets
      <4>1. Occupied(sparse_buckets) = {}
        BY <1>1, <3>1, ArraysIffSlots, NoArraysEmpty
        DEF FindNoBuckets, Inv, TypeOK, TypesOK
      <4> QED
        BY <4>1
    <3>2. CASE FindMiss
      BY <3>2, AbsentHere DEF FindMiss, FindEnds, KeyInv
    <3> QED
      BY <2>1, <3>1, <3>2
  <2> QED
    BY <2>1, <2>2, <2>3 DEF HeldIn
<1>6. CASE Insert
  <2>1. pc = "insert" /\ req' = req
    BY <1>6 DEF Insert, InsertNoArrays, InsertExhausted, InsertHit, InsertAdvance,
                InsertEmpty, Inserting, Put, PutAt, Grow, Rehash, Return, Advance
  <2>2. TablesKept \/ \E n \in SettledCounts : Begun(n)
    BY <1>1, <1>6, InsertEffects DEF Added
  <2>3. Entries' = Entries
    BY <1>1, <2>2, KeptMoves, BegunMoves
  <2> QED
    BY <1>2, <2>1, <2>3
<1>7. CASE Drain \/ Place
  <2>1. pc \in {"drain", "place"} /\ req' = req
    BY <1>7 DEF Drain, DrainNext, SwapIn, SwapNested, Place, PlaceHere, PlaceAdvance,
                PlaceExhausted, Placing, LoseArrays, Return, ProbeFrom, Advance
  <2>2. ~Lost
    BY DEF Lost, LoseArrays, Return
  <2>3. Entries' = Entries
    BY <1>1, <1>7, <2>2, RehashingEffects, KeptMoves, NestedMoves, SwapNestedMoves,
       SwapInMoves, PlaceHereMoves
  <2> QED
    BY <1>2, <2>1, <2>3
<1>8. CASE WholeTable
  <2>1. pc' = "drain" => req' = req /\ req.op \in ResizeOps
    BY <1>8 DEF WholeTable, Resize, Clear, EraseAll, Retain, PopFront, EraseRange,
                SetMaxLoadFactor, Whole, Rehash, Bury, Return
  <2>2. pc' \in {"drain", "return"}
    BY <1>8 DEF WholeTable, Resize, Clear, EraseAll, Retain, PopFront, EraseRange,
                SetMaxLoadFactor, Whole, Rehash, Bury, Return
  <2> QED
    BY <2>1, <2>2 DEF ResizeOps
<1> QED
  BY <1>3, <1>4, <1>5, <1>6, <1>7, <1>8 DEF OpenNext, Step

LEMMA KeyInitOK ==
  ASSUME Init
  PROVE  KeyInv
<1>1. ProbeInv /\ Inv
  BY ProbeInitOK DEF ProbeInv
<1>2. pc = "idle" /\ sparse_buckets = FreshBuckets(bucket_count)
  BY DEF Init
<1>3. Occupied(sparse_buckets) = {}
  BY <1>1, <1>2, SizesAreNat, FreshTable DEF Inv, TypeOK, TypesOK
<1>4. UniqueKeys
  BY <1>1, <1>2, <1>3, AtRest DEF Rehashing, KeysApart
<1> QED
  BY <1>1, <1>2, <1>4 DEF KeyInv, CallKinds, KnownAbsent, Rehashing

LEMMA KeyInvHolds == OpenSpec => []KeyInv
<1>1. Init => KeyInv
  BY KeyInitOK
<1>2. KeyInv /\ [OpenNext]_vars => KeyInv'
  BY NextStep, RestStep, FindableStep, TrailStep, UniqueStep, KindsStep,
     AbsentKnownStep
  DEF KeyInv, ProbeInv
<1> QED
  BY <1>1, <1>2, PTL DEF OpenSpec

(* No key is stored twice, over the table and all the tables that nested   *)
(* rehashes hold: a tombstone is reused, and a table rebuilt, only for a   *)
(* key that is not in it.                                                  *)
THEOREM KeysUnique == Spec => []UniqueKeys
<1>1. KeyInv => UniqueKeys
  BY DEF KeyInv
<1> QED
  BY <1>1, RunIsOpen, KeyInvHolds, PTL

-----------------------------------------------------------------------------
(* What writes do to the pairs a table holds. *)

(* A value is one pair of the map.                                         *)
LEMMA HeldCounts ==
  ASSUME NEW n \in Nat, NEW t \in Table(n), KeysApart(t)
  PROVE  /\ IsFiniteSet(HeldIn(t)) /\ Cardinality(HeldIn(t)) = Cardinality(Occupied(t))
         /\ IsFiniteSet(Occupied(t)) /\ Cardinality(Occupied(t)) \in Nat
<1> DEFINE f == [i \in Occupied(t) |-> t[i]]
<1>1. f \in Surjection(Occupied(t), HeldIn(t))
  BY DEF HeldIn, Surjection
<1>2. f \in Injection(Occupied(t), HeldIn(t))
  BY DEF HeldIn, Injection, IsInjective, KeysApart
<1>3. IsFiniteSet(Occupied(t)) /\ Cardinality(Occupied(t)) \in Nat
  BY CountsFinite
<1> HIDE DEF f
<1> QED
  BY <1>1, <1>2, <1>3, FS_Surjection

LEMMA HeldReplaced ==
  ASSUME NEW n \in Nat, NEW t \in Table(n), KeysApart(t), NEW i \in Occupied(t),
         NEW e \in Pair, e[1] = t[i][1], NEW u, u = [t EXCEPT ![i] = e]
  PROVE  HeldIn(u) = { x \in HeldIn(t) : x[1] # e[1] } \cup {e}
<1>1. /\ i \in DOMAIN t /\ u[i] = e /\ DOMAIN u = DOMAIN t
      /\ \A j \in DOMAIN t \ {i} : u[j] = t[j]
  BY DEF Occupied
<1>2. Occupied(u) = Occupied(t)
  BY <1>1, MarkerAssumption DEF Occupied
<1>3. \A j \in Occupied(t) : t[j][1] = e[1] <=> j = i
  BY DEF KeysApart
<1>4. \A j \in Occupied(t) : j # i => u[j] = t[j]
  BY <1>1 DEF Occupied
<1> QED
  BY <1>1, <1>2, <1>3, <1>4 DEF HeldIn

LEMMA HeldBuried ==
  ASSUME NEW t, NEW gone \in SUBSET Occupied(t), NEW u,
         u = [i \in DOMAIN t |-> IF i \in gone THEN Deleted ELSE t[i]]
  PROVE  HeldIn(u) = { t[i] : i \in Occupied(t) \ gone }
<1>1. /\ Occupied(u) = Occupied(t) \ gone
      /\ \A i \in Occupied(u) : u[i] = t[i]
  BY DEF Occupied
<1> QED
  BY <1>1 DEF HeldIn

LEMMA HeldAdded ==
  ASSUME NEW n \in Nat, NEW t \in Table(n), NEW i \in 0 .. n - 1,
         i \notin Occupied(t), NEW e \in Pair, NEW u, u[i] = e,
         DOMAIN u = DOMAIN t, \A j \in DOMAIN t \ {i} : u[j] = t[j]
  PROVE  HeldIn(u) = HeldIn(t) \cup {e}
<1>1. /\ u[i] = e /\ DOMAIN u = DOMAIN t /\ i \in DOMAIN t
      /\ \A j \in DOMAIN t \ {i} : u[j] = t[j]
  BY DEF Table
<1>2. Occupied(u) = Occupied(t) \cup {i}
  BY <1>1, MarkerAssumption DEF Occupied
<1>3. \A j \in Occupied(t) : u[j] = t[j]
  BY <1>1 DEF Occupied
<1> HIDE DEF HeldIn
<1>4. \A x : x \in HeldIn(u) <=> x = u[i] \/ \E j \in Occupied(t) : x = u[j]
  BY <1>2 DEF HeldIn
<1>5. \A x : x \in HeldIn(t) <=> \E j \in Occupied(t) : x = t[j]
  BY DEF HeldIn
<1>6. ASSUME NEW x
      PROVE  x \in HeldIn(u) <=> x = u[i] \/ x \in HeldIn(t)
  <2>1. (\E j \in Occupied(t) : x = u[j]) <=> (\E j \in Occupied(t) : x = t[j])
    BY <1>3
  <2> QED
    BY <1>4, <1>5, <2>1, Zenon
<1>7. u[i] = e
  BY <1>1
<1> QED
  BY <1>6, <1>7, Zenon

(* erase_range skips and then takes values by their rank in slot order.    *)
LEMMA RankCounts ==
  ASSUME NEW n \in Nat, NEW t \in Table(n), NEW skip \in Nat, NEW count \in Nat
  PROVE  LET m    == Cardinality(Occupied(t))
             from == IF skip < m THEN skip ELSE m
         IN Cardinality({ i \in Occupied(t) : Rank(t, i) \in skip .. skip + count - 1 })
              = IF count < m - from THEN count ELSE m - from
<1> DEFINE S == Occupied(t)
           m == Cardinality(S)
           from == IF skip < m THEN skip ELSE m
           gone == IF count < m - from THEN count ELSE m - from
           G == { i \in S : Rank(t, i) \in skip .. skip + count - 1 }
           r == [i \in S |-> Rank(t, i)]
<1>1. S \subseteq Nat /\ IsFiniteSet(S) /\ m \in Nat
  BY CountsFinite, OccupiedPair
<1>2. ASSUME NEW i \in S
      PROVE  /\ IsFiniteSet({ j \in S : j < i })
             /\ Rank(t, i) \in 0 .. m - 1 /\ Rank(t, i) \in Nat
  <2> DEFINE B == { j \in S : j < i }
  <2>1. B \in SUBSET S /\ B # S
    BY <1>1
  <2> HIDE DEF B, S
  <2>2. IsFiniteSet(B) /\ Cardinality(B) \in Nat /\ Cardinality(B) <= m /\ Cardinality(B) # m
    BY <1>1, <2>1, FS_Subset, FS_CardinalityType
  <2> QED
    BY <1>1, <2>2 DEF Rank, B, S
<1>3. ASSUME NEW i \in S, NEW j \in S, i < j
      PROVE  Rank(t, i) < Rank(t, j)
  <2> DEFINE A == { x \in S : x < i }
             B == { x \in S : x < j }
  <2>1. A \in SUBSET B /\ i \in B /\ i \notin A
    BY <1>1, <1>3
  <2>2. IsFiniteSet(A) /\ IsFiniteSet(B)
    BY <1>2
  <2>3. Rank(t, i) = Cardinality(A) /\ Rank(t, j) = Cardinality(B)
    BY DEF Rank
  <2> HIDE DEF A, B
  <2>4. /\ Cardinality(A) <= Cardinality(B) /\ Cardinality(A) # Cardinality(B)
        /\ Cardinality(A) \in Nat /\ Cardinality(B) \in Nat
    BY <2>1, <2>2, FS_Subset, FS_CardinalityType
  <2> QED
    BY <2>3, <2>4
<1>4. ASSUME NEW i \in S, NEW j \in S, Rank(t, i) = Rank(t, j)
      PROVE  i = j
  <2>1. Rank(t, i) \in Nat /\ Rank(t, j) \in Nat
    BY <1>2
  <2> HIDE DEF S
  <2>2. ~(i < j) /\ ~(j < i)
    BY <1>3, <1>4, <2>1
  <2> QED
    BY <1>1, <2>2
<1>5. r \in Injection(S, 0 .. m - 1)
  BY <1>2, <1>4 DEF Injection, IsInjective
<1>6. \A i \in S : r[i] = Rank(t, i)
  OBVIOUS
<1> HIDE DEF S, r
<1>7. Cardinality(0 .. m - 1) = m /\ IsFiniteSet(0 .. m - 1)
  <2> HIDE DEF m
  <2> QED
    BY <1>1, FS_Interval
<1>8. r \in Surjection(S, 0 .. m - 1)
  <2> HIDE DEF m
  <2>1. Cardinality(S) = Cardinality(0 .. m - 1)
    BY <1>7 DEF m
  <2> QED
    BY <1>5, <1>7, <2>1, FS_Injection
<1>9. \A x \in 0 .. m - 1 : \E i \in S : Rank(t, i) = x
  BY <1>6, <1>8 DEF Surjection
<1> DEFINE T == from .. from + gone - 1
           g == [i \in G |-> Rank(t, i)]
<1>10. /\ from \in Nat /\ gone \in Nat
       /\ \A x \in 0 .. m - 1 : x \in skip .. skip + count - 1 <=> x \in T
       /\ T \subseteq 0 .. m - 1
  <2> HIDE DEF m
  <2> QED
    BY <1>1 DEF m
<1> HIDE DEF m, from, gone, T
<1>11. g \in Bijection(G, T)
  <2>1. \A i \in G : g[i] \in T
    BY <1>2, <1>10
  <2>2. \A i, j \in G : g[i] = g[j] => i = j
    BY <1>4
  <2>3. \A x \in T : \E i \in G : g[i] = x
    BY <1>9, <1>10
  <2> QED
    BY <2>1, <2>2, <2>3 DEF Bijection, Injection, Surjection, IsInjective
<1>12. IsFiniteSet(G)
  BY <1>1, FS_Subset
<1> HIDE DEF G, g
<1>13. Cardinality(T) = Cardinality(G)
  BY <1>11, <1>12, FS_Bijection DEF ExistsBijection
<1>14. Cardinality(T) = gone
  BY <1>10, FS_Interval DEF T
<1> QED
  BY <1>13, <1>14 DEF G, gone, from, m, S

-----------------------------------------------------------------------------
(* A step of the engine is a step of the map or none. *)

MapStep == Map!Next \/ UNCHANGED Map!mapVars

Working == pc \notin {"idle", "return"}

LEMMA Phases ==
  /\ pc = "idle" => Phase = "idle"
  /\ pc = "return" => Phase = "done"
  /\ Working => Phase = "working"
BY DEF Phase, Working

LEMMA PhasesNext ==
  /\ pc' = "idle" => Phase' = "idle"
  /\ pc' = "return" => Phase' = "done"
  /\ Working' => Phase' = "working"
BY DEF Phase, Working

LEMMA SilentStep ==
  ASSUME Working, Working', UNCHANGED <<req, res>>, Entries' = Entries
  PROVE  MapStep
BY Phases, PhasesNext DEF MapStep, Map!mapVars

LEMMA PanicStep ==
  ASSUME Working, Return(Panicked),
         \/ Entries' = Entries
         \/ Entries' = {} /\ req.op \in NewPairOps \cup ResizeOps
  PROVE  MapStep
<1>1. Map!Respond(Panicked) /\ Phase = "working"
  BY Phases, PhasesNext DEF Return, Map!Respond
<1>2. Map!Panic
  BY <1>1 DEF Map!Panic, NewPairOps, ResizeOps
<1> QED
  BY <1>2 DEF MapStep, Map!Next

LEMMA Responds ==
  ASSUME Working, NEW a, Return(a)
  PROVE  Map!Respond(a) /\ \A ops : Map!Asked(ops) <=> req.op \in ops
BY Phases, PhasesNext DEF Return, Map!Respond, Map!Asked

(* The table of a call that is not inside of a rehash.                     *)
LEMMA OwnTable ==
  ASSUME KeyInv, ~Rehashing
  PROVE  /\ Entries = HeldIn(sparse_buckets) /\ KeysApart(sparse_buckets)
         /\ \A i \in Occupied(sparse_buckets) : sparse_buckets[i] \in Pair
         /\ \E n \in Nat : sparse_buckets \in Table(n)
<1>1. \E n \in Nat : sparse_buckets \in Table(n)
  BY NoArraysEmpty, SizesAreNat DEF KeyInv, ProbeInv, Inv, TypeOK, TypesOK
<1> QED
  BY <1>1, AtRest, OccupiedPair DEF KeyInv, ProbeInv

LEMMA MapHit ==
  ASSUME KeyInv, ~Rehashing, NEW i \in Occupied(sparse_buckets), NEW k,
         k = sparse_buckets[i][1]
  PROVE  Map!Has(k) /\ Map!Lookup(k) = Answer(TRUE, sparse_buckets[i])
<1> DEFINE e == sparse_buckets[i]
<1>1. e \in Pair /\ e \in Entries
  BY OwnTable DEF HeldIn
<1>2. e = <<k, e[2]>> /\ e[2] \in Val
  BY <1>1 DEF Pair
<1>3. \A x \in Entries : x[1] = k => x = e
  BY OwnTable DEF HeldIn, KeysApart
<1> HIDE DEF e
<1>4. Map!Has(k)
  BY <1>1, <1>2 DEF Map!Has
<1>5. Map!EntryOf(k) = e
  BY <1>1, <1>2, <1>3 DEF Map!EntryOf
<1> QED
  BY <1>4, <1>5 DEF Map!Lookup, Map!Answer, Answer, e

LEMMA MapMiss ==
  ASSUME KeyInv, ~Rehashing, NEW k,
         \A i \in Occupied(sparse_buckets) : sparse_buckets[i][1] # k
  PROVE  ~Map!Has(k) /\ Map!Lookup(k) = Done /\ Map!Others(k) = Entries
<1>1. \A x \in Entries : x[1] # k
  BY OwnTable DEF HeldIn
<1>2. ~Map!Has(k)
  BY <1>1 DEF Map!Has
<1> QED
  BY <1>1, <1>2 DEF Map!Lookup, Map!Others, Map!Done, Map!Answer, Done, Answer

LEMMA CallMaps ==
  ASSUME KeyInv, AskKey \/ AskWhole \/ Finish
  PROVE  MapStep
<1>1. CASE AskKey \/ AskWhole
  <2>1. /\ pc = "idle" /\ pc' \in {"insert", "find", "whole"} /\ req' \in Requests
        /\ res' = res /\ TablesKept
    BY <1>1 DEF AskKey, AskWhole, StartOnKey, StartOnWhole, Requests, TablesKept, table
  <2>2. Entries' = Entries
    BY <2>1, KeptMoves DEF KeyInv
  <2>3. Map!Call
    BY <2>1, <2>2, Phases, PhasesNext DEF Map!Call, Working
  <2> QED
    BY <2>3 DEF MapStep, Map!Next
<1>2. CASE Finish
  <2>1. /\ pc = "return" /\ pc' = "idle" /\ req' = None /\ res' = None /\ TablesKept
    BY <1>2 DEF Finish, TablesKept, table
  <2>2. Entries' = Entries
    BY <2>1, KeptMoves DEF KeyInv
  <2>3. Map!Finish
    BY <2>1, <2>2, Phases, PhasesNext DEF Map!Finish
  <2> QED
    BY <2>3 DEF MapStep, Map!Next
<1> QED
  BY <1>1, <1>2

(* A lookup that misses answers, or goes on to insert.                     *)
LEMMA AbsentMaps ==
  ASSUME KeyInv, pc = "find", Absent,
         \A i \in Occupied(sparse_buckets) : sparse_buckets[i][1] # req.key
  PROVE  MapStep
<1>1. ~Rehashing /\ Working /\ TablesKept
  BY DEF Rehashing, Working, Absent, TablesKept, table
<1>2. Entries' = Entries
  BY <1>1, KeptMoves DEF KeyInv
<1>3. CASE req.op \in {"try_emplace", "insert_or_assign"}
  BY <1>1, <1>2, <1>3, SilentStep DEF Absent, ProbeFrom, Working
<1>4. CASE req.op \notin {"try_emplace", "insert_or_assign"}
  <2>1. Return(Done) /\ req.op \in {"get", "remove", "get_mut"}
    <3>1. req \in KeyRequests \cup PairRequests /\ req.op # "insert"
      BY DEF KeyInv, ProbeInv, Inv, TypeOK, CallOK, CallKinds
    <3> QED
      BY <1>4, <3>1 DEF Absent, KeyRequests, PairRequests
  <2>2. Map!Respond(Done) /\ \A ops : Map!Asked(ops) <=> req.op \in ops
    BY <1>1, <2>1, Responds
  <2>3. /\ ~Map!Has(req.key) /\ Map!Lookup(req.key) = Done
        /\ Map!Others(req.key) = Entries
    BY <1>1, MapMiss
  <2>4. Map!Get \/ Map!Remove \/ Map!GetMut
    BY <1>2, <2>1, <2>2, <2>3 DEF Map!Get, Map!Remove, Map!GetMut
  <2> QED
    BY <2>4 DEF MapStep, Map!Next
<1> QED
  BY <1>3, <1>4

LEMMA FindHitMaps ==
  ASSUME KeyInv, KeyInv', FindHit
  PROVE  MapStep
<1> DEFINE t == sparse_buckets
           u == sparse_buckets'
           k == req.key
           e == <<req.key, req.val>>
<1>1. /\ pc = "find" /\ t # NoArrays /\ ~Rehashing /\ ~Rehashing' /\ Working
      /\ Return(Answer(TRUE, Cell)) /\ Cell = t[ibucket] /\ Cell[1] = k
      /\ Cell \notin {Empty, Deleted}
  BY DEF FindHit, Holds, Cell, Rehashing, Return, Working
<1>2. /\ ibucket \in Occupied(t) /\ req \in KeyRequests \cup PairRequests
      /\ bucket_count \in Nat /\ t \in Table(bucket_count)
      /\ req.op \in {"get", "remove", "get_mut", "try_emplace", "insert_or_assign"}
      /\ req.op \in {"get_mut", "insert_or_assign"} => e \in Pair
  <2>1. req \in KeyRequests \cup PairRequests /\ req.op # "insert"
    BY <1>1 DEF KeyInv, ProbeInv, Inv, TypeOK, CallOK, CallKinds
  <2>2. req.op \in {"get", "remove", "get_mut", "try_emplace", "insert_or_assign"}
    BY <2>1 DEF KeyRequests, PairRequests
  <2>3. req.op \in {"get_mut", "insert_or_assign"} => e \in Pair
    BY <2>1, OnAKey, OnAPair
  <2> QED
    BY <1>1, <2>1, <2>2, <2>3, CellOK DEF KeyInv, ProbeInv, Inv
<1>3. Map!Has(k) /\ Map!Lookup(k) = Answer(TRUE, Cell)
  BY <1>1, <1>2, MapHit
<1>4. Map!Respond(Answer(TRUE, Cell)) /\ \A ops : Map!Asked(ops) <=> req.op \in ops
  BY <1>1, Responds
<1>5. /\ Entries = HeldIn(t) /\ KeysApart(t) /\ Entries' = HeldIn(u)
  BY <1>1, OwnTable, AtRestNext DEF KeyInv, ProbeInv
<1> HIDE DEF t, u, k, e
<1>6. CASE req.op \in {"get", "try_emplace"}
  <2>1. u = t
    BY <1>6 DEF FindHit, t, u
  <2>2. Map!Get \/ Map!KeepOld
    BY <1>3, <1>4, <1>5, <1>6, <2>1 DEF Map!Get, Map!KeepOld, k
  <2> QED
    BY <2>2 DEF MapStep, Map!Next
<1>7. CASE req.op = "remove"
  <2>1. u = [t EXCEPT ![ibucket] = Deleted]
    BY <1>7 DEF FindHit, t, u
  <2>2. u = [i \in DOMAIN t |-> IF i \in {ibucket} THEN Deleted ELSE t[i]]
    BY <1>2, <2>1 DEF Table
  <2>3. HeldIn(u) = { t[i] : i \in Occupied(t) \ {ibucket} }
    BY <1>2, <2>2, HeldBuried
  <2>4. HeldIn(u) = { x \in HeldIn(t) : x[1] # k }
    BY <1>1, <1>2, <1>5, <2>3 DEF HeldIn, KeysApart, t, k
  <2>5. Map!Remove
    BY <1>3, <1>4, <1>5, <1>7, <2>4 DEF Map!Remove, Map!Others, k
  <2> QED
    BY <2>5 DEF MapStep, Map!Next
<1>8. CASE req.op \in {"get_mut", "insert_or_assign"}
  <2>1. u = [t EXCEPT ![ibucket] = e]
    BY <1>8 DEF FindHit, t, u, e
  <2>2. e \in Pair /\ e[1] = k /\ t[ibucket][1] = k
    BY <1>1, <1>2, <1>8 DEF e, k, t
  <2>3. HeldIn(u) = { x \in HeldIn(t) : x[1] # e[1] } \cup {e}
    BY <1>2, <1>5, <2>1, <2>2, HeldReplaced
  <2>4. Entries' = Map!Others(k) \cup {e}
    BY <1>5, <2>2, <2>3 DEF Map!Others
  <2>5. Map!GetMut \/ Map!Overwrite
    BY <1>3, <1>4, <1>8, <2>4 DEF Map!GetMut, Map!Overwrite, k, e
  <2> QED
    BY <2>5 DEF MapStep, Map!Next
<1> QED
  BY <1>2, <1>6, <1>7, <1>8

LEMMA FindMaps ==
  ASSUME KeyInv, KeyInv', Find
  PROVE  MapStep
<1>1. CASE FindNoBuckets
  <2>1. Occupied(sparse_buckets) = {}
    BY <1>1, ArraysIffSlots, NoArraysEmpty
    DEF FindNoBuckets, KeyInv, ProbeInv, Inv, TypeOK, TypesOK
  <2> QED
    BY <1>1, <2>1, AbsentMaps DEF FindNoBuckets
<1>2. CASE FindMiss
  <2>1. \A i \in Occupied(sparse_buckets) : sparse_buckets[i][1] # req.key
    BY <1>2, AbsentHere DEF FindMiss, FindEnds, KeyInv
  <2> QED
    BY <1>2, <2>1, AbsentMaps DEF FindMiss
<1>3. CASE FindNoArrays
  <2>1. TablesKept /\ Return(Panicked) /\ Working
    BY <1>3 DEF FindNoArrays, TablesKept, table, Working
  <2> QED
    BY <2>1, KeptMoves, PanicStep DEF KeyInv
<1>4. CASE FindAdvance
  <2>1. TablesKept /\ Working /\ Working' /\ UNCHANGED <<req, res>>
    BY <1>4 DEF FindAdvance, TablesKept, table, Working
  <2> QED
    BY <2>1, KeptMoves, SilentStep DEF KeyInv
<1>5. CASE FindHit
  BY <1>5, FindHitMaps
<1> QED
  BY <1>1, <1>2, <1>3, <1>4, <1>5 DEF Find

LEMMA RehashMaps ==
  ASSUME KeyInv, ~Rehashing, MayRehash, Working, NEW c \in 0 .. UsizeMax, Rehash(c)
  PROVE  MapStep
<1>1. Inv
  BY DEF KeyInv, ProbeInv
<1>2. TablesKept \/ \E n \in SettledCounts : Begun(n)
  BY <1>1, RehashEffect
<1>3. Entries' = Entries
  BY <1>1, <1>2, KeptMoves, BegunMoves DEF KeyInv
<1>4. Return(Panicked) \/ (Working' /\ UNCHANGED <<req, res>>)
  BY DEF Rehash, Working
<1> QED
  BY <1>3, <1>4, PanicStep, SilentStep

LEMMA GrowMaps ==
  ASSUME KeyInv, pc = "insert", Grow
  PROVE  MapStep
<1>1. ~Rehashing /\ MayRehash /\ Working /\ bucket_count \in SettledCounts
  BY DEF Rehashing, MayRehash, Working, KeyInv, ProbeInv, Inv, TypeOK, TypesOK, CallOK
<1>2. CASE PolicyNext(bucket_count) = LengthError
  <2>1. TablesKept /\ Return(Panicked)
    BY <1>2 DEF Grow, TablesKept, table
  <2> QED
    BY <1>1, <2>1, KeptMoves, PanicStep DEF KeyInv
<1>3. CASE PolicyNext(bucket_count) # LengthError
  BY <1>1, <1>3, NextOK, RehashMaps DEF Grow
<1> QED
  BY <1>2, <1>3

(* A new pair enters the map.                                              *)
LEMMA AddedMaps ==
  ASSUME KeyInv, KeyInv', NEW i, Added(i),
         Return(Answer(FALSE, <<req.key, req.val>>))
  PROVE  MapStep
<1> DEFINE t == sparse_buckets
           u == sparse_buckets'
           n == bucket_count
           e == <<req.key, req.val>>
<1>1. /\ pc = "insert" /\ ~Rehashing /\ ~Rehashing' /\ Working /\ i \in 0 .. n - 1
      /\ i \notin Occupied(t) /\ e \in Pair /\ u = [t EXCEPT ![i] = e]
  BY DEF Added, OnlySlots, Working
<1>2. n \in Nat /\ t \in Table(n)
  BY <1>1, SizesAreNat DEF Added, KeyInv, ProbeInv, Inv, TypeOK, TypesOK
<1>3. Entries = HeldIn(t) /\ Entries' = HeldIn(u)
  BY <1>1, OwnTable, AtRestNext DEF KeyInv, ProbeInv
<1>4. \A j \in Occupied(t) : t[j][1] # req.key
  BY AbsentHere DEF Added, KeyInv
<1>5. ~Map!Has(req.key)
  BY <1>1, <1>4, MapMiss
<1>6. /\ Map!Respond(Answer(FALSE, e)) /\ Map!Answer(FALSE, e) = Answer(FALSE, e)
      /\ Map!Asked(NewPairOps)
  BY <1>1, Responds DEF Answer, Map!Answer, KeyInv, CallKinds
<1>7. Entries' = Entries \cup {e}
  <2> HIDE DEF t, u, n, e
  <2>1. /\ u[i] = e /\ DOMAIN u = DOMAIN t
        /\ \A j \in DOMAIN t \ {i} : u[j] = t[j]
    BY <1>1, <1>2 DEF Table
  <2>2. /\ i \in 0 .. n - 1 /\ i \notin Occupied(t) /\ e \in Pair
    BY <1>1
  <2>3. HeldIn(u) = HeldIn(t) \cup {e}
    BY <1>2, <2>1, <2>2, HeldAdded
  <2> QED
    BY <1>3, <2>3, Zenon
<1>8. Map!AddNew
  BY <1>5, <1>6, <1>7 DEF Map!AddNew, NewPairOps
<1> QED
  BY <1>8 DEF MapStep, Map!Next

LEMMA InsertHitMaps ==
  ASSUME KeyInv, InsertHit
  PROVE  MapStep
<1>1. /\ pc = "insert" /\ sparse_buckets # NoArrays /\ ~Rehashing /\ Working
      /\ Return(Answer(TRUE, Cell)) /\ Cell = sparse_buckets[ibucket]
      /\ Cell[1] = req.key /\ Cell \notin {Empty, Deleted} /\ TablesKept
  BY DEF InsertHit, Inserting, Holds, Cell, Rehashing, Working, TablesKept, table
<1>2. ibucket \in Occupied(sparse_buckets)
  BY <1>1, CellOK DEF KeyInv, ProbeInv, Inv
<1>3. Map!Has(req.key) /\ Map!Lookup(req.key) = Answer(TRUE, Cell)
  BY <1>1, <1>2, MapHit
<1>4. Cell \in Entries
  BY <1>1, <1>2, OwnTable DEF HeldIn
<1>5. req.op \in NewPairOps /\ req.op # "insert_or_assign"
  BY <1>1, <1>4 DEF KeyInv, CallKinds, KnownAbsent
<1>6. Map!Respond(Answer(TRUE, Cell)) /\ Map!Asked({"insert", "try_emplace"})
  BY <1>1, <1>5, Responds DEF NewPairOps
<1>7. Map!KeepOld
  BY <1>1, <1>3, <1>6, KeptMoves DEF Map!KeepOld, KeyInv
<1> QED
  BY <1>7 DEF MapStep, Map!Next

LEMMA InsertMaps ==
  ASSUME KeyInv, KeyInv', Insert
  PROVE  MapStep
<1>1. pc = "insert" /\ ~Rehashing /\ MayRehash /\ Working
  BY DEF Insert, InsertNoArrays, InsertExhausted, InsertHit, InsertAdvance,
         InsertEmpty, Inserting, Rehashing, MayRehash, Working,
         KeyInv, ProbeInv, Inv, TypeOK, CallOK
<1>2. ASSUME sparse_buckets # NoArrays, probe >= bucket_count \/ Cell = Empty,
             \/ found_deleted # None /\ PutAt(found_deleted, 1)
             \/ Cell = Empty /\ probe < bucket_count /\ PutAt(ibucket, 0)
      PROVE  MapStep
  <2>1. \E i : Added(i)
    BY <1>1, <1>2, PutEffect DEF KeyInv, ProbeInv
  <2>2. Return(Answer(FALSE, <<req.key, req.val>>))
    BY <1>2 DEF PutAt
  <2> QED
    BY <2>1, <2>2, AddedMaps
<1>3. CASE InsertNoArrays
  BY <1>1, <1>3, GrowMaps DEF InsertNoArrays
<1>4. CASE InsertExhausted
  BY <1>1, <1>2, <1>4, GrowMaps DEF InsertExhausted
<1>5. CASE InsertHit
  BY <1>5, InsertHitMaps
<1>6. CASE InsertAdvance
  <2>1. TablesKept /\ Working' /\ UNCHANGED <<req, res>>
    BY <1>1, <1>6 DEF InsertAdvance, Advance, TablesKept, table, Working
  <2> QED
    BY <1>1, <2>1, KeptMoves, SilentStep DEF KeyInv
<1>7. CASE InsertEmpty
  <2>1. bucket_count \in SettledCounts
    BY DEF KeyInv, ProbeInv, Inv, TypeOK, TypesOK
  <2>2. bucket_count \in 0 .. UsizeMax
    BY <2>1, SizesAreNat DEF MaxBucketCount
  <2> QED
    BY <1>1, <1>2, <1>7, <2>2, GrowMaps, RehashMaps DEF InsertEmpty, Inserting, Put
<1> QED
  BY <1>3, <1>4, <1>5, <1>6, <1>7 DEF Insert

(* A panic inside of a rehash is the one that empties the map.             *)
LEMMA LostMaps ==
  ASSUME KeyInv, KeyInv', Rehashing, LoseArrays
  PROVE  MapStep
<1>1. /\ Return(Panicked) /\ Working /\ ~Rehashing' /\ req.op \in NewPairOps \cup ResizeOps
  BY DEF LoseArrays, Return, Working, Rehashing, KeyInv, CallKinds
<1>2. sparse_buckets' = NoArrays
  BY RehashingFacts DEF LoseArrays, table, KeyInv, ProbeInv
<1>3. Entries' = {}
  BY <1>1, <1>2, AtRestNext, NoArraysEmpty DEF HeldIn, KeyInv, ProbeInv
<1> QED
  BY <1>1, <1>3, PanicStep

LEMMA RehashingMaps ==
  ASSUME KeyInv, KeyInv', Drain \/ Place \/ HasherPanics
  PROVE  MapStep
<1>1. Rehashing /\ Working /\ Inv /\ UniqueKeys
  BY DEF Drain, DrainNext, SwapIn, SwapNested, Place, PlaceHere, PlaceAdvance,
         PlaceExhausted, Placing, HasherPanics, Rehashing, Working, KeyInv, ProbeInv
<1>2. CASE LoseArrays
  BY <1>1, <1>2, LostMaps
<1>3. ASSUME Drain \/ Place, ~LoseArrays
      PROVE  /\ Entries' = Entries /\ req' = req
             /\ \/ Working' /\ res' = res
                \/ Return(Done) /\ req.op \in ResizeOps
  <2>1. Entries' = Entries
    BY <1>1, <1>3, RehashingEffects, KeptMoves, NestedMoves, SwapNestedMoves,
       SwapInMoves, PlaceHereMoves
    DEF Lost
  <2>2. /\ req' = req
        /\ \/ Working' /\ res' = res
           \/ Return(Done) /\ req.op \in ResizeOps
    BY <1>3 DEF Drain, DrainNext, SwapIn, SwapNested, Place, PlaceHere, PlaceAdvance,
                PlaceExhausted, Placing, Return, ProbeFrom, Advance, Working
  <2> QED
    BY <2>1, <2>2
<1>4. ASSUME Drain \/ Place, ~LoseArrays
      PROVE  MapStep
  <2>1. CASE Working' /\ res' = res
    BY <1>1, <1>3, <1>4, <2>1, SilentStep
  <2>2. CASE Return(Done) /\ req.op \in ResizeOps
    <3>1. /\ Map!Respond(Done) /\ Map!Done = Done
          /\ Map!Asked({"rehash", "reserve", "set_max_load_factor"})
      BY <1>1, <2>2, Responds DEF ResizeOps, Done, Answer, Map!Done, Map!Answer
    <3>2. Map!Configure
      BY <1>3, <1>4, <3>1 DEF Map!Configure
    <3> QED
      BY <3>2 DEF MapStep, Map!Next
  <2> QED
    BY <1>3, <1>4, <2>1, <2>2
<1> QED
  BY <1>2, <1>4 DEF HasherPanics

-----------------------------------------------------------------------------
(* The operations that take the whole table. *)

LEMMA BuriedMaps ==
  ASSUME KeyInv, KeyInv', pc = "whole", NEW gone \in SUBSET Occupied(sparse_buckets),
         sparse_buckets' = [i \in DOMAIN sparse_buckets |->
                              IF i \in gone THEN Deleted ELSE sparse_buckets[i]],
         NEW a, Return(a)
  PROVE  /\ Map!Respond(a) /\ \A ops : Map!Asked(ops) <=> req.op \in ops
         /\ Entries = HeldIn(sparse_buckets) /\ Entries' = HeldIn(sparse_buckets')
         /\ Entries' = { sparse_buckets[i] : i \in Occupied(sparse_buckets) \ gone }
<1>1. Working /\ ~Rehashing /\ ~Rehashing'
  BY DEF Working, Rehashing, Return
<1>2. Map!Respond(a) /\ \A ops : Map!Asked(ops) <=> req.op \in ops
  BY <1>1, Responds
<1>3. Entries = HeldIn(sparse_buckets) /\ Entries' = HeldIn(sparse_buckets')
  BY <1>1, OwnTable, AtRestNext DEF KeyInv, ProbeInv
<1>4. HeldIn(sparse_buckets') = { sparse_buckets[i] : i \in Occupied(sparse_buckets) \ gone }
  BY HeldBuried
<1> QED
  BY <1>2, <1>3, <1>4

(* The Cardinality of the map's module is the usual one.                   *)
LEMMA SameCardinality == \A S : Map!Cardinality(S) = Cardinality(S)
BY DEF Map!Cardinality, Cardinality

LEMMA EraseRangeMaps ==
  ASSUME KeyInv, KeyInv', EraseRange
  PROVE  MapStep
<1> DEFINE t == sparse_buckets
           u == sparse_buckets'
           gone == { i \in Occupied(t) :
                       Rank(t, i) \in req.skip .. req.skip + req.count - 1 }
<1>1. /\ pc = "whole" /\ req.op = "erase_range" /\ Return(Done)
      /\ gone \in SUBSET Occupied(t)
      /\ u = [i \in DOMAIN t |-> IF i \in gone THEN Deleted ELSE t[i]]
  BY DEF EraseRange, Whole, Bury
<1>2. req.skip \in Nat /\ req.count \in Nat
  <2>1. req \in WholeRequests
    BY <1>1 DEF KeyInv, ProbeInv, Inv, TypeOK, CallOK
  <2> QED
    BY <1>1, <2>1 DEF WholeRequests, ResizeOps
<1>3. PICK n \in Nat : t \in Table(n)
  BY <1>1, OwnTable DEF Rehashing
<1>4. KeysApart(t) /\ KeysApart(u) /\ ~Rehashing /\ ~Rehashing'
  BY <1>1, OwnTable, AtRestNext DEF Rehashing, Return, KeyInv, ProbeInv
<1> DEFINE m == Cardinality(Occupied(t))
           from == IF req.skip < m THEN req.skip ELSE m
<1>5. Cardinality(gone) = IF req.count < m - from THEN req.count ELSE m - from
  BY <1>2, <1>3, RankCounts
<1>6. /\ Map!Respond(Done) /\ Map!Asked({"erase_range"}) /\ Map!Done = Done
      /\ Entries = HeldIn(t) /\ Entries' = HeldIn(u)
      /\ Entries' = { t[i] : i \in Occupied(t) \ gone }
  BY <1>1, BuriedMaps DEF Done, Answer, Map!Done, Map!Answer
<1> HIDE DEF gone, t, u
<1>7. Buries(u, t, n, gone)
  <2>1. \A i \in 0 .. n - 1 : u[i] = IF i \in gone THEN Deleted ELSE t[i]
    BY <1>1, <1>3 DEF Table
  <2>2. DOMAIN u = 0 .. n - 1 /\ u = [i \in DOMAIN u |-> u[i]]
    BY <1>1, <1>3 DEF Table
  <2>3. \A i \in 0 .. n - 1 : u[i] \in Slot
    BY <1>3, <2>1 DEF Table, Slot
  <2> QED
    BY <2>1, <2>2, <2>3 DEF Buries, Table
<1>8. u \in Table(n) /\ Cardinality(Occupied(u)) = m - Cardinality(gone)
  BY <1>1, <1>3, <1>7, BuryCounts
<1>9. Cardinality(Entries) = m /\ Cardinality(Entries') = Cardinality(Occupied(u))
  BY <1>3, <1>4, <1>6, <1>8, HeldCounts
<1>10. Entries' \in SUBSET Entries
  BY <1>6 DEF HeldIn
<1>11. Cardinality(Entries') = m - Cardinality(gone)
  BY <1>8, <1>9
<1> DEFINE out == IF req.count < m - from THEN req.count ELSE m - from
<1>12. Cardinality(Entries') = m - out
  BY <1>5, <1>11
<1> HIDE DEF m, from, out
<1>13. \E kept \in SUBSET Entries : Cardinality(kept) = m - out /\ Entries' = kept
  BY <1>10, <1>12, Zenon
<1>14. LET n_   == Cardinality(Entries)
           from_ == IF req.skip < n_ THEN req.skip ELSE n_
           gone_ == IF req.count < n_ - from_ THEN req.count ELSE n_ - from_
       IN \E kept \in SUBSET Entries :
            Cardinality(kept) = n_ - gone_ /\ Entries' = kept
  BY <1>9, <1>13 DEF from, out
<1>15. Map!Asked({"erase_range"}) /\ Map!Respond(Map!Done)
  BY <1>6
<1>16. Map!EraseRange
  BY <1>14, <1>15, SameCardinality DEF Map!EraseRange
<1> QED
  BY <1>16 DEF MapStep, Map!Next

LEMMA PopFrontMaps ==
  ASSUME KeyInv, KeyInv', PopFront
  PROVE  MapStep
<1> DEFINE t == sparse_buckets
           f == First(t)
<1>1. pc = "whole" /\ req.op = "pop_front" /\ ~Rehashing /\ Working
  BY DEF PopFront, Whole, Rehashing, Working
<1>2. Entries = HeldIn(t) /\ KeysApart(t) /\ Map!Done = Done
  BY <1>1, OwnTable DEF Done, Answer, Map!Done, Map!Answer
<1>3. CASE Occupied(t) = {}
  <2>1. Return(Done) /\ TablesKept
    BY <1>3 DEF PopFront, TablesKept, table
  <2>2. Entries' = Entries /\ Entries = {}
    BY <1>2, <1>3, <2>1, KeptMoves DEF KeyInv, HeldIn
  <2>3. Map!Respond(Map!Done) /\ Map!Asked({"pop_front"})
    BY <1>1, <1>2, <2>1, Responds
  <2>4. Map!PopFront
    BY <2>2, <2>3 DEF Map!PopFront
  <2> QED
    BY <2>4 DEF MapStep, Map!Next
<1>4. CASE Occupied(t) # {}
  <2>1. /\ Return(Answer(TRUE, t[f])) /\ Bury({f})
    BY <1>4 DEF PopFront
  <2>2. f \in Occupied(t)
    <3>1. DOMAIN t \subseteq Nat
      BY <1>1, OwnTable DEF Table
    <3> QED
      BY <1>4, <3>1, FirstOccupied
  <2> HIDE DEF f
  <2>3. {f} \in SUBSET Occupied(t)
    BY <2>2
  <2>4. /\ Map!Respond(Answer(TRUE, t[f])) /\ Map!Asked({"pop_front"})
        /\ Entries' = { t[i] : i \in Occupied(t) \ {f} }
    BY <1>1, <2>1, <2>3, BuriedMaps DEF Bury
  <2>5. t[f] \in Entries /\ Entries' = Entries \ {t[f]}
    BY <1>2, <2>2, <2>4 DEF HeldIn, KeysApart
  <2>6. Map!Respond(Map!Answer(TRUE, t[f]))
    BY <2>4 DEF Answer, Map!Answer
  <2>7. Entries # {} /\ \E e \in Entries : /\ Map!Respond(Map!Answer(TRUE, e))
                                            /\ Entries' = Entries \ {e}
    BY <2>5, <2>6
  <2>8. Map!PopFront
    BY <2>4, <2>7 DEF Map!PopFront
  <2> QED
    BY <2>8 DEF MapStep, Map!Next
<1> QED
  BY <1>3, <1>4

LEMMA WholeMaps ==
  ASSUME KeyInv, KeyInv', WholeTable
  PROVE  MapStep
<1> DEFINE t == sparse_buckets
           u == sparse_buckets'
<1>1. pc = "whole" /\ ~Rehashing /\ Working /\ req \in WholeRequests
  BY DEF WholeTable, Resize, Clear, EraseAll, Retain, PopFront, EraseRange,
         SetMaxLoadFactor, Whole, Rehashing, Working, KeyInv, ProbeInv, Inv,
         TypeOK, CallOK
<1>2. Map!Done = Done
  BY DEF Done, Answer, Map!Done, Map!Answer
<1>3. CASE Resize
  <2> DEFINE asked == IF req.op = "reserve" THEN BucketsFor(req.count) ELSE req.count
             own == BucketsFor(nb_elements)
             c == Max2(asked, own)
  <2>1. /\ req.op \in ResizeOps /\ req.count \in Nat /\ MayRehash
        /\ req.op # "reserve" => req.count \in 0 .. UsizeMax
    BY <1>1, <1>3, OnTheWhole DEF Resize, MayRehash, ResizeOps
  <2>2. asked \in 0 .. UsizeMax /\ own \in 0 .. UsizeMax
    <3>1. max_load_factor \in 1 .. 8 /\ nb_elements \in Nat
      BY DEF KeyInv, ProbeInv, Inv, TypeOK, TypesOK
    <3>2. req.count \in Nat
      BY <2>1, SizesAreNat
    <3> QED
      BY <2>1, <3>1, <3>2, BucketsForOK
  <2>3. Rehash(c)
    BY <1>3 DEF Resize
  <2>4. c \in 0 .. UsizeMax
    <3> HIDE DEF asked, own
    <3> QED
      BY <2>2 DEF Max2
  <2> HIDE DEF c
  <2> QED
    BY <1>1, <2>1, <2>3, <2>4, RehashMaps
<1>4. CASE Clear
  <2>1. /\ Return(Done) /\ req.op = "clear" /\ ~Rehashing'
        /\ u = [i \in DOMAIN t |-> Empty]
    BY <1>4 DEF Clear, Whole, Return, Rehashing
  <2>2. Entries' = {}
    BY <2>1, AtRestNext DEF HeldIn, Occupied, KeyInv, ProbeInv
  <2>3. Map!EraseEverything
    BY <1>1, <1>2, <2>1, <2>2, Responds DEF Map!EraseEverything
  <2> QED
    BY <2>3 DEF MapStep, Map!Next
<1>5. CASE EraseAll
  <2>1. Return(Done) /\ req.op = "erase_all"
    BY <1>5 DEF EraseAll, Whole
  <2>2. /\ Map!Respond(Done) /\ Map!Asked({"clear", "erase_all"})
        /\ Entries' = { t[i] : i \in Occupied(t) \ Occupied(t) }
    BY <1>1, <1>5, <2>1, BuriedMaps DEF EraseAll
  <2>3. Map!EraseEverything
    BY <1>2, <2>2 DEF Map!EraseEverything
  <2> QED
    BY <2>3 DEF MapStep, Map!Next
<1>6. CASE Retain
  <2> DEFINE gone == { i \in Occupied(t) : t[i][1] \notin req.keep }
  <2>1. Return(Done) /\ req.op = "retain" /\ Bury(gone) /\ gone \in SUBSET Occupied(t)
    BY <1>6 DEF Retain, Whole
  <2>2. /\ Map!Respond(Done) /\ Map!Asked({"retain"}) /\ Entries = HeldIn(t)
        /\ Entries' = { t[i] : i \in Occupied(t) \ gone }
    BY <1>1, <2>1, BuriedMaps DEF Bury
  <2>3. Entries' = { e \in Entries : e[1] \in req.keep }
    BY <2>2 DEF HeldIn
  <2>4. Map!Retain
    BY <1>2, <2>2, <2>3 DEF Map!Retain
  <2> QED
    BY <2>4 DEF MapStep, Map!Next
<1>7. CASE SetMaxLoadFactor
  <2>1. Return(Done) /\ req.op = "set_max_load_factor" /\ TablesKept
    BY <1>7 DEF SetMaxLoadFactor, Whole, TablesKept, table
  <2>2. Map!Configure
    BY <1>1, <1>2, <2>1, Responds, KeptMoves DEF Map!Configure, KeyInv
  <2> QED
    BY <2>2 DEF MapStep, Map!Next
<1> QED
  BY <1>3, <1>4, <1>5, <1>6, <1>7, PopFrontMaps, EraseRangeMaps DEF WholeTable

-----------------------------------------------------------------------------
(* Every step is one of the map or none.                                   *)
LEMMA EngineMaps ==
  ASSUME KeyInv, KeyInv', [OpenNext]_vars
  PROVE  MapStep
<1>1. CASE AskKey \/ AskWhole \/ Finish
  BY <1>1, CallMaps
<1>2. CASE Find
  BY <1>2, FindMaps
<1>3. CASE Insert
  BY <1>3, InsertMaps
<1>4. CASE Drain \/ Place \/ HasherPanics
  BY <1>4, RehashingMaps
<1>5. CASE WholeTable
  BY <1>5, WholeMaps
<1>6. CASE UNCHANGED vars
  <2>1. TablesKept /\ pc' = pc /\ req' = req /\ res' = res
    BY <1>6 DEF vars, table, TablesKept
  <2>2. Entries' = Entries /\ Phase' = Phase
    BY <2>1, KeptMoves DEF KeyInv, Phase
  <2> QED
    BY <2>1, <2>2 DEF MapStep, Map!mapVars
<1> QED
  BY <1>1, <1>2, <1>3, <1>4, <1>5, <1>6 DEF OpenNext, Step

LEMMA MapHolds == OpenSpec => Map!MapSpec
<1>1. Init => Map!Init
  <2> SUFFICES ASSUME Init
               PROVE  Map!Init
    OBVIOUS
  <2>1. KeyInv /\ pc = "idle" /\ req = None /\ res = None
    BY KeyInitOK DEF Init
  <2>2. Occupied(sparse_buckets) = {}
    <3>1. bucket_count \in Nat
      BY <2>1, SizesAreNat DEF KeyInv, ProbeInv, Inv, TypeOK, TypesOK
    <3> QED
      BY <3>1, FreshTable DEF Init
  <2>3. Entries = {}
    BY <2>1, <2>2, OwnTable DEF Rehashing, HeldIn
  <2> QED
    BY <2>1, <2>3, Phases DEF Map!Init
<1>2. KeyInv /\ KeyInv' /\ [OpenNext]_vars => [Map!Next]_(Map!mapVars)
  BY EngineMaps DEF MapStep
<1> QED
  BY <1>1, <1>2, KeyInvHolds, PTL DEF OpenSpec, Map!MapSpec

(* The engine implements the map: between its call and its answer every    *)
(* operation takes effect on the set of stored pairs in one step and gives *)
(* the answer a finite map gives, however the tables are probed, cleaned   *)
(* up, rebuilt and nested meanwhile; a panic changes nothing, or, inside   *)
(* of a rehash, empties the map.                                           *)
THEOREM ImplementsMap == Spec => IsMap
BY RunIsOpen, MapHolds, PTL DEF IsMap

-----------------------------------------------------------------------------
(* The thresholds and the sizes. *)

(* The cleanup threshold is at most nine tenths of the table.              *)
LEMMA ClearBelowFull ==
  ASSUME NEW n \in Nat \ {0}, NEW load \in 1 .. 8
  PROVE  ThresholdClear(n, load) < n
<1> DEFINE a == n * (10 + load)
<1>1. a \in Nat /\ a <= 18 * n
  <2>1. n * (8 - load) \in Nat
    BY NatProduct
  <2>2. a + n * (8 - load) = 18 * n
    OBVIOUS
  <2> HIDE DEF a
  <2>3. a \in Int
    BY DEF a
  <2>4. a \in Nat
    BY NatProduct DEF a
  <2> QED
    BY <2>1, <2>2, <2>4
<1> HIDE DEF a
<1>2. a \div 20 < n
  BY <1>1
<1> QED
  BY <1>2 DEF ThresholdClear, a

(* A count that fits the load factor is not above the grow threshold.      *)
LEMMA BelowRehash ==
  ASSUME NEW n \in Nat, NEW load \in 1 .. 8, NEW c \in Nat, 10 * c <= n * load
  PROVE  c <= ThresholdRehash(n, load)
<1> DEFINE a == n * load
<1>1. a \in Nat
  BY NatProduct
<1>2. 10 * c <= a
  OBVIOUS
<1> HIDE DEF a
<1>3. c <= a \div 10
  BY <1>1, <1>2
<1> QED
  BY <1>3 DEF ThresholdRehash, a

(* A table of the size computed for c elements that could be built at all  *)
(* has room for them and one more, at any load factor.                     *)
LEMMA BucketsForFits ==
  ASSUME NEW c \in Nat, max_load_factor \in 1 .. 8,
         NEW n \in SettledCounts, n >= BucketsFor(c)
  PROVE  /\ 10 * c <= n * max_load_factor
         /\ c = 0 \/ c < n
<1> DEFINE load == max_load_factor
           x == 10 * c + load - 1
           q == x \div load
           r == x % load
<1>1. /\ load \in 1 .. 8 /\ x \in Nat /\ n \in Nat /\ n <= MaxBucketCount
      /\ c \in Nat
  BY SizesAreNat
<1>2. q \in Nat /\ r \in 0 .. load - 1 /\ x = load * q + r
  <2> HIDE DEF x, load
  <2> QED
    BY <1>1, DivMod
<1>3. 10 * c <= load * q
  BY <1>1, <1>2
<1>4. BucketsFor(c) = Min2(UsizeMax, q)
  BY DEF BucketsFor
<1> HIDE DEF load, x, q, r
<1>5. CASE n >= q
  <2>1. load * (n - q) \in Nat
    BY <1>1, <1>2, <1>5, NatProduct
  <2>2. load * n = load * q + load * (n - q)
    BY <1>1, <1>2
  <2>3. 10 * c <= load * n
    BY <1>1, <1>2, <1>3, <2>1, <2>2
  <2>4. n * (8 - load) \in Nat
    BY <1>1, NatProduct
  <2>5. 8 * n = load * n + n * (8 - load)
    BY <1>1
  <2>6. 10 * c <= 8 * n
    BY <1>1, <2>3, <2>4, <2>5
  <2>7. n * load = load * n
    BY <1>1
  <2> QED
    BY <1>1, <2>3, <2>6, <2>7 DEF load
<1>6. CASE n < q
  <2>1. n >= UsizeMax
    BY <1>1, <1>2, <1>4, <1>6, SizesAreNat DEF Min2
  <2> QED
    BY <1>1, <2>1, SizesAreNat DEF MaxBucketCount
<1> QED
  BY <1>1, <1>2, <1>5, <1>6

-----------------------------------------------------------------------------
(* Counting slots. *)

(* Fewer values and tombstones than slots leave an empty one.              *)
LEMMA EmptyLeft ==
  ASSUME NEW n \in Nat, NEW t \in Table(n),
         Cardinality(Occupied(t)) + Cardinality(Tombstones(t)) < n
  PROVE  \E i \in DOMAIN t : t[i] = Empty
<1> SUFFICES ASSUME \A i \in DOMAIN t : t[i] # Empty
             PROVE  FALSE
  OBVIOUS
<1> DEFINE S == Occupied(t)
           T == Tombstones(t)
<1>1. S \cup T = 0 .. n - 1 /\ S \cap T = {}
  BY DEF Table, Slot, Occupied, Tombstones
<1>2. /\ IsFiniteSet(S) /\ Cardinality(S) \in Nat
      /\ IsFiniteSet(T) /\ Cardinality(T) \in Nat
  BY CountsFinite
<1> HIDE DEF S, T
<1>3. Cardinality(S \cup T) = Cardinality(S) + Cardinality(T) - Cardinality(S \cap T)
  BY <1>2, FS_Union
<1>4. Cardinality(S \cap T) = 0
  BY <1>1, FS_EmptySet
<1>5. Cardinality(0 .. n - 1) = n
  BY FS_Interval
<1>6. Cardinality(S \cup T) = n
  BY <1>1, <1>5, Zenon
<1>7. Cardinality(S) + Cardinality(T) = n
  BY <1>2, <1>3, <1>4, <1>6
<1> QED
  BY <1>7 DEF S, T

(* A table does not hold more values than it has slots.                    *)
LEMMA CountBelow ==
  ASSUME NEW n \in Nat, NEW t \in Table(n)
  PROVE  /\ Cardinality(Occupied(t)) \in 0 .. n
         /\ \A i \in 0 .. n - 1 : i \notin Occupied(t) => Cardinality(Occupied(t)) < n
<1> DEFINE S == Occupied(t)
<1>1. S \in SUBSET (0 .. n - 1) /\ IsFiniteSet(S) /\ Cardinality(S) \in Nat
  BY CountsFinite, OccupiedPair
<1>2. IsFiniteSet(0 .. n - 1) /\ Cardinality(0 .. n - 1) = n
  BY FS_Interval
<1> HIDE DEF S
<1>3. Cardinality(S) <= n /\ (Cardinality(S) = n => S = 0 .. n - 1)
  BY <1>1, <1>2, FS_Subset
<1> QED
  BY <1>1, <1>3 DEF S

(* All the values of a rehash can be counted.                              *)
LEMMA EntriesFinite ==
  ASSUME KeyInv
  PROVE  IsFiniteSet(Entries) /\ Cardinality(Entries) \in Nat
<1>1. ASSUME NEW d \in Areas
      PROVE  IsFiniteSet(HeldIn(Area(d)))
  <2> DEFINE S == Occupied(Area(d))
             H == HeldIn(Area(d))
             f == [i \in S |-> Area(d)[i]]
  <2>1. S \subseteq 0 .. MaxBucketCount - 1
    <3>1. CASE d = -1
      <4>1. new_count \in 0 .. MaxBucketCount /\ new_buckets \in Table(new_count)
        BY SizesAreNat DEF KeyInv, ProbeInv, Inv, TypeOK, TypesOK
      <4>2. Area(d) = new_buckets
        BY <3>1 DEF Area
      <4> QED
        BY <4>1, <4>2, SizesAreNat, OccupiedPair
    <3>2. CASE d = 0
      <4>1. /\ sparse_buckets = NoArrays \/ sparse_buckets \in Table(bucket_count)
            /\ bucket_count \in 0 .. MaxBucketCount
        BY SizesAreNat DEF KeyInv, ProbeInv, Inv, TypeOK, TypesOK
      <4>2. Area(d) = sparse_buckets
        BY <3>2 DEF Area
      <4> QED
        BY <4>1, <4>2, SizesAreNat, OccupiedPair, NoArraysEmpty
    <3>3. CASE d \notin {-1, 0}
      <4>1. d \in DOMAIN draining /\ draining \in Seq(ValueTable)
        BY <3>3 DEF Areas, KeyInv, ProbeInv, Inv, TypeOK, TypesOK
      <4>2. Area(d) \in ValueTable
        BY <3>3, <4>1 DEF Area
      <4> QED
        BY <4>2 DEF ValueTable, Occupied
    <3> QED
      BY <3>1, <3>2, <3>3
  <2>2. IsFiniteSet(S)
    <3> HIDE DEF S
    <3>1. IsFiniteSet(0 .. MaxBucketCount - 1) /\ S \in SUBSET (0 .. MaxBucketCount - 1)
      BY <2>1, SizesAreNat, FS_Interval
    <3> QED
      BY <3>1, FS_Subset, Zenon
  <2>3. f \in Surjection(S, H)
    BY DEF Surjection, HeldIn
  <2> HIDE DEF S, H, f
  <2> QED
    BY <2>2, <2>3, FS_Surjection DEF H
<1>2. IsFiniteSet(Areas)
  <2>1. draining \in Seq(ValueTable)
    BY DEF KeyInv, ProbeInv, Inv, TypeOK, TypesOK
  <2>2. DOMAIN draining = 1 .. Len(draining) /\ Len(draining) \in Nat
    BY <2>1
  <2>3. IsFiniteSet(1 .. Len(draining))
    BY <2>2, FS_Interval
  <2>4. IsFiniteSet({-1} \cup {0}) /\ {-1} \cup {0} = {-1, 0}
    BY FS_Singleton, FS_AddElement
  <2>5. IsFiniteSet({-1, 0} \cup (1 .. Len(draining)))
    BY <2>3, <2>4, FS_Union
  <2> QED
    BY <2>2, <2>5 DEF Areas
<1> DEFINE C == { HeldIn(Area(d)) : d \in Areas }
           g == [d \in Areas |-> HeldIn(Area(d))]
<1>3. g \in Surjection(Areas, C)
  BY DEF Surjection
<1>4. \A H \in C : IsFiniteSet(H)
  BY <1>1
<1>5. Entries = UNION C
  BY DEF Entries, HeldIn
<1> HIDE DEF C, g
<1>6. IsFiniteSet(C)
  BY <1>2, <1>3, FS_Surjection
<1>7. IsFiniteSet(Entries)
  BY <1>4, <1>5, <1>6, FS_UNION
<1> QED
  BY <1>7, FS_CardinalityType

(* The values already moved are among the entries.                         *)
LEMMA BuiltCount ==
  ASSUME KeyInv
  PROVE  Cardinality(Occupied(new_buckets)) <= Cardinality(Entries)
<1> DEFINE S == Occupied(new_buckets)
           f == [i \in S |-> new_buckets[i]]
<1>1. -1 \in Areas /\ Area(-1) = new_buckets
  BY DEF Areas, Area
<1>2. \A i \in S : new_buckets[i] \in Entries
  BY <1>1 DEF Entries
<1>3. \A i, j \in S : new_buckets[i] = new_buckets[j] => i = j
  BY <1>1 DEF KeyInv, UniqueKeys
<1>4. f \in Injection(S, Entries)
  BY <1>2, <1>3 DEF Injection, IsInjective
<1> HIDE DEF S, f
<1> QED
  BY <1>4, EntriesFinite, FS_Injection DEF S

(* Outside of a rehash the entries are what self holds.                    *)
LEMMA OwnCount ==
  ASSUME KeyInv, ~Rehashing
  PROVE  /\ sparse_buckets = NoArrays => Entries = {}
         /\ Cardinality(Entries) = Cardinality(Occupied(sparse_buckets))
         /\ Entries # {} => nb_elements = Cardinality(Entries)
<1>1. Entries = HeldIn(sparse_buckets) /\ KeysApart(sparse_buckets)
  BY OwnTable
<1>2. PICK n \in Nat : sparse_buckets \in Table(n)
  BY OwnTable
<1>3. Cardinality(Entries) = Cardinality(Occupied(sparse_buckets))
  BY <1>1, <1>2, HeldCounts
<1>4. sparse_buckets = NoArrays => Entries = {}
  BY <1>1, NoArraysEmpty DEF HeldIn
<1>5. Entries # {} => nb_elements = Cardinality(Entries)
  BY <1>3, <1>4 DEF KeyInv, ProbeInv, Inv, CountersAgree, Torn
<1> QED
  BY <1>3, <1>4, <1>5

-----------------------------------------------------------------------------
(* Room for everything. *)

(* The table a rehash fills has room for all values, old and new.          *)
RoomForAll == Rehashing => Entries = {} \/ Cardinality(Entries) < new_count

(* The slots of self, outside of a rehash.                                 *)
OwnRoom ==
  sparse_buckets # NoArrays => \E i \in DOMAIN sparse_buckets : sparse_buckets[i] = Empty

(* While rehash or reserve runs, the new table keeps what was asked.       *)
ResizeRoom ==
  Rehashing /\ req.op \in ResizeOps =>
    /\ 10 * Cardinality(Entries) <= new_count * max_load_factor
    /\ req.op = "reserve" => 10 * req.count <= new_count * max_load_factor
    /\ req.op = "rehash" => req.count <= new_count

RoomInv ==
  KeyInv /\ ThresholdsFresh /\ RoomForAll /\ OwnRoom /\ ResizeRoom /\ ResizeKeepsPromise

(* The table being built never holds all the values when it is full, so it *)
(* is never full.                                                          *)
LEMMA BuiltRoom ==
  ASSUME KeyInv, RoomForAll, new_buckets # NoArrays
  PROVE  \E i \in DOMAIN new_buckets : new_buckets[i] = Empty
<1>1. new_count \in Nat /\ new_buckets \in Table(new_count)
  BY SizesAreNat DEF KeyInv, ProbeInv, Inv, TypeOK, TypesOK
<1>2. new_count > 0 /\ Rehashing
  BY <1>1, ArraysIffSlots DEF KeyInv, ProbeInv, Inv, TypeOK, RehashOK
<1>3. Tombstones(new_buckets) = {}
  BY <1>2, RehashingFacts DEF KeyInv, ProbeInv
<1>4. Cardinality(Tombstones(new_buckets)) = 0
  BY <1>3, FS_EmptySet
<1>5. Cardinality(Occupied(new_buckets)) < new_count
  <2>1. Cardinality(Occupied(new_buckets)) <= Cardinality(Entries)
    BY BuiltCount
  <2>2. /\ Cardinality(Occupied(new_buckets)) \in Nat /\ Cardinality(Entries) \in Nat
        /\ Entries = {} => Cardinality(Entries) = 0
    BY <1>1, CountsFinite, EntriesFinite, FS_EmptySet
  <2> QED
    BY <1>1, <1>2, <2>1, <2>2 DEF RoomForAll
<1> QED
  BY <1>1, <1>4, <1>5, EmptyLeft, CountsFinite

(* A rehash that starts with a large enough table.                         *)
LEMMA BegunRoom ==
  ASSUME KeyInv, NEW n \in SettledCounts, Begun(n),
         Entries = {} \/ Cardinality(Entries) < n
  PROVE  RoomForAll'
<1>1. Entries' = Entries
  BY BegunMoves DEF KeyInv, ProbeInv
<1> QED
  BY <1>1 DEF Begun, RoomForAll

LEMMA RehashBegins ==
  ASSUME KeyInv, ~Rehashing, MayRehash, NEW c \in 0 .. UsizeMax, Rehash(c), Rehashing',
         NEW R, \A n \in SettledCounts : n >= c /\ Begun(n) => R
  PROVE  R
<1>1. CASE Settle(c) = LengthError
  BY <1>1 DEF Rehash, Return, Rehashing
<1>2. CASE Settle(c) # LengthError
  <2>1. Settle(c) \in SettledCounts /\ Settle(c) >= c
    BY <1>2, SettleOK
  <2>2. Begun(Settle(c))
    BY <1>2 DEF Rehash, Begun
  <2> QED
    BY <2>1, <2>2
<1> QED
  BY <1>1, <1>2

LEMMA GrowRoom ==
  ASSUME KeyInv, pc = "insert", Grow, Rehashing'
  PROVE  RoomForAll'
<1> DEFINE c == PolicyNext(bucket_count)
<1>1. /\ ~Rehashing /\ MayRehash /\ bucket_count \in SettledCounts
      /\ sparse_buckets = NoArrays \/ sparse_buckets \in Table(bucket_count)
  BY DEF Rehashing, MayRehash, KeyInv, ProbeInv, Inv, TypeOK, TypesOK, CallOK
<1>2. c # LengthError /\ Rehash(c)
  BY DEF Grow, Return, Rehashing
<1>3. c \in 0 .. UsizeMax /\ c > bucket_count /\ bucket_count \in Nat
  BY <1>1, <1>2, NextOK, SizesAreNat
<1>4. Entries = {} \/ Cardinality(Entries) \in 0 .. bucket_count
  BY <1>1, <1>3, OwnCount, CountBelow
<1> HIDE DEF c
<1>5. ASSUME NEW n \in SettledCounts, n >= c, Begun(n)
      PROVE  RoomForAll'
  <2>1. n \in Nat /\ c \in Nat
    BY <1>3, SizesAreNat
  <2>2. Entries = {} \/ Cardinality(Entries) < n
    BY <1>3, <1>4, <1>5, <2>1
  <2> QED
    BY <1>5, <2>2, BegunRoom
<1> QED
  BY <1>1, <1>2, <1>3, <1>5, RehashBegins

(* The cleanup rebuilds the table with as many buckets: one of them is     *)
(* empty.                                                                  *)
LEMMA CleanupRoom ==
  ASSUME KeyInv, Inserting, Cell = Empty, Rehash(bucket_count), Rehashing'
  PROVE  RoomForAll'
<1>1. /\ ~Rehashing /\ MayRehash /\ bucket_count \in SettledCounts
      /\ pc = "insert" /\ sparse_buckets # NoArrays
  BY DEF Inserting, Rehashing, MayRehash, KeyInv, ProbeInv, Inv, TypeOK, TypesOK, CallOK
<1>2. bucket_count \in 0 .. UsizeMax /\ bucket_count \in Nat
  BY <1>1, SizesAreNat DEF MaxBucketCount
<1>3. /\ sparse_buckets \in Table(bucket_count) /\ ibucket \in 0 .. bucket_count - 1
      /\ ibucket \notin Occupied(sparse_buckets)
  BY <1>1, CellOK DEF Cell, Occupied, KeyInv, ProbeInv, Inv
<1>4. Cardinality(Entries) \in Nat /\ Cardinality(Entries) < bucket_count
  BY <1>1, <1>2, <1>3, OwnCount, CountBelow
<1>5. ASSUME NEW n \in SettledCounts, n >= bucket_count, Begun(n)
      PROVE  RoomForAll'
  <2>1. n \in Nat
    BY SizesAreNat
  <2>2. Cardinality(Entries) < n
    BY <1>2, <1>4, <1>5, <2>1
  <2> QED
    BY <1>5, <2>2, BegunRoom
<1> QED
  BY <1>1, <1>2, <1>5, RehashBegins

LEMMA InsertRoom ==
  ASSUME KeyInv, Insert, Rehashing'
  PROVE  RoomForAll'
<1>1. CASE InsertNoArrays
  BY <1>1, GrowRoom DEF InsertNoArrays
<1>2. CASE InsertExhausted
  BY <1>2, GrowRoom DEF InsertExhausted, PutAt, Return, Rehashing
<1>3. CASE InsertHit \/ InsertAdvance
  BY <1>3 DEF InsertHit, InsertAdvance, Inserting, Return, Advance, Rehashing
<1>4. CASE InsertEmpty
  BY <1>4, GrowRoom, CleanupRoom
  DEF InsertEmpty, Inserting, Put, PutAt, Return, Rehashing
<1> QED
  BY <1>1, <1>2, <1>3, <1>4 DEF Insert

LEMMA ProductUp ==
  ASSUME NEW a \in Nat, NEW b \in Nat, a <= b, NEW load \in Nat
  PROVE  a * load \in Nat /\ b * load \in Nat /\ a * load <= b * load
<1>1. a * load \in Nat /\ (b - a) * load \in Nat
  BY NatProduct
<1>2. b * load = a * load + (b - a) * load
  OBVIOUS
<1> QED
  BY <1>1, <1>2

(* rehash and reserve compute the new size from the element counter and    *)
(* from what was asked for.                                                *)
LEMMA ResizeStarts ==
  ASSUME KeyInv, Resize, Rehashing'
  PROVE  RoomForAll' /\ ResizeRoom'
<1> DEFINE asked == IF req.op = "reserve" THEN BucketsFor(req.count) ELSE req.count
           own == BucketsFor(nb_elements)
           c == Max2(asked, own)
           card == Cardinality(Entries)
<1>1. pc = "whole" /\ ~Rehashing /\ req \in WholeRequests /\ req.op \in ResizeOps
  BY DEF Resize, Rehashing, KeyInv, ProbeInv, Inv, TypeOK, CallOK
<1>2. /\ max_load_factor \in 1 .. 8 /\ nb_elements \in Nat /\ MayRehash /\ Rehash(c)
      /\ req.count \in Nat /\ (req.op # "reserve" => req.count \in 0 .. UsizeMax)
  BY <1>1, OnTheWhole, SizesAreNat
  DEF Resize, ResizeOps, MayRehash, KeyInv, ProbeInv, Inv, TypeOK, TypesOK
<1>3. /\ asked \in 0 .. UsizeMax /\ own \in 0 .. UsizeMax
  BY <1>2, BucketsForOK
<1>4. c \in 0 .. UsizeMax /\ c >= asked /\ c >= own
  <2> HIDE DEF asked, own
  <2> QED
    BY <1>3 DEF Max2
<1>5. card \in Nat /\ (Entries # {} => nb_elements = card)
      /\ (Entries = {} => card = 0)
  BY <1>1, OwnCount, EntriesFinite, FS_EmptySet
<1>6. Entries # {} => nb_elements \in 0 .. UsizeMax
  <2>1. /\ bucket_count \in 0 .. MaxBucketCount
        /\ sparse_buckets \in Table(bucket_count) \/ sparse_buckets = NoArrays
    BY SizesAreNat DEF KeyInv, ProbeInv, Inv, TypeOK, TypesOK
  <2>2. Entries # {} => card \in 0 .. bucket_count
    BY <1>1, <2>1, OwnCount, CountBelow, SizesAreNat
  <2> HIDE DEF card
  <2> QED
    BY <1>2, <1>5, <2>1, <2>2, SizesAreNat DEF MaxBucketCount
<1> HIDE DEF c, card
<1>7. ASSUME NEW n \in SettledCounts, n >= c, Begun(n)
      PROVE  RoomForAll' /\ ResizeRoom'
  <2>1. /\ n \in Nat /\ n >= asked /\ n >= own /\ n * max_load_factor \in Nat
        /\ n * max_load_factor >= 0
    <3>1. n \in Nat
      BY SizesAreNat
    <3>2. n * max_load_factor \in Nat
      BY <1>2, <3>1, NatProduct
    <3> HIDE DEF asked, own
    <3> QED
      BY <1>3, <1>4, <1>7, <3>1, <3>2
  <2>2. Entries # {} => 10 * card <= n * max_load_factor /\ (card = 0 \/ card < n)
    BY <1>2, <1>5, <1>6, <2>1, BucketsForFits
  <2>3. card = 0 => Entries = {}
    BY EntriesFinite, FS_EmptySet DEF card
  <2>4. Entries = {} \/ card < n
    BY <2>2, <2>3
  <2>5. RoomForAll'
    BY <1>7, <2>4, BegunRoom DEF card
  <2>6. 10 * card <= n * max_load_factor
    BY <1>5, <2>1, <2>2
  <2>7. req.op = "reserve" => 10 * req.count <= n * max_load_factor
    BY <1>2, <2>1, BucketsForFits
  <2>8. req.op = "rehash" => req.count <= n
    BY <2>1
  <2>9. /\ Entries' = Entries /\ new_count' = n /\ req' = req
        /\ max_load_factor' = max_load_factor
    BY <1>2, <1>7, BegunMoves DEF Begun, Rehash, limits, KeyInv, ProbeInv
  <2> QED
    BY <2>5, <2>6, <2>7, <2>8, <2>9 DEF ResizeRoom, card
<1> QED
  BY <1>1, <1>2, <1>4, <1>7, RehashBegins

(* A rehash goes on, or nests in a larger table.                           *)
LEMMA RehashingRoom ==
  ASSUME KeyInv, RoomForAll, ResizeRoom, Drain \/ Place, Rehashing'
  PROVE  RoomForAll' /\ ResizeRoom'
<1>1. /\ Rehashing /\ Inv /\ UniqueKeys /\ new_count \in Nat
      /\ max_load_factor \in 1 .. 8 /\ Cardinality(Entries) \in Nat
  <2>1. Rehashing /\ Inv /\ UniqueKeys /\ max_load_factor \in 1 .. 8
    BY DEF Drain, DrainNext, SwapIn, SwapNested, Place, PlaceHere, PlaceAdvance,
           PlaceExhausted, Placing, Rehashing, KeyInv, ProbeInv, Inv, TypeOK, TypesOK
  <2> QED
    BY <2>1, RehashingFacts, EntriesFinite
<1>2. /\ TablesKept \/ SwapNested \/ PlaceHere \/ \E n \in SettledCounts : Nested(n)
      /\ ~SwapIn /\ ~Lost
  <2>1. ~SwapIn /\ ~Lost
    BY DEF SwapIn, Lost, LoseArrays, Return, ProbeFrom, Rehashing
  <2> QED
    BY <1>1, <2>1, RehashingEffects
<1>3. Entries' = Entries
  BY <1>1, <1>2, KeptMoves, NestedMoves, SwapNestedMoves, PlaceHereMoves
<1>4. new_count' \in Nat /\ new_count' >= new_count
  <2>1. CASE TablesKept \/ SwapNested \/ PlaceHere
    BY <1>1, <2>1 DEF TablesKept, build, SwapNested, PlaceHere
  <2>2. CASE \E n \in SettledCounts : Nested(n)
    BY <2>2, SizesAreNat DEF Nested
  <2> QED
    BY <1>2, <2>1, <2>2
<1>5. req' = req /\ max_load_factor' = max_load_factor
  BY <1>2 DEF Drain, DrainNext, SwapNested, Place, PlaceHere, PlaceAdvance,
              PlaceExhausted, Placing, LoseArrays, Return, ProbeFrom, Advance, limits
<1>6. RoomForAll'
  BY <1>1, <1>3, <1>4 DEF RoomForAll
<1>7. ASSUME req.op \in ResizeOps
      PROVE  /\ new_count * max_load_factor \in Nat /\ new_count' * max_load_factor \in Nat
             /\ new_count * max_load_factor <= new_count' * max_load_factor
             /\ req.count \in Nat
  <2>1. req \in WholeRequests
    BY <1>1, <1>7, RehashingFacts, OnAPair DEF MayRehash
  <2>2. req.count \in Nat
    BY <1>7, <2>1, OnTheWhole, SizesAreNat
  <2> DEFINE load == max_load_factor
             n == new_count'
  <2>3. load \in Nat /\ n \in Nat /\ new_count <= n
    BY <1>1, <1>4
  <2> HIDE DEF load, n
  <2>4. new_count * load \in Nat /\ n * load \in Nat /\ new_count * load <= n * load
    BY <1>1, <2>3, ProductUp
  <2> QED
    BY <2>2, <2>4 DEF load, n
<1>8. ResizeRoom'
  <2> DEFINE a == new_count * max_load_factor
             b == new_count' * max_load_factor
  <2> SUFFICES ASSUME req.op \in ResizeOps
               PROVE  /\ 10 * Cardinality(Entries) <= b
                      /\ req.op = "reserve" => 10 * req.count <= b
                      /\ req.op = "rehash" => req.count <= new_count'
    BY <1>3, <1>5 DEF ResizeRoom
  <2>1. /\ 10 * Cardinality(Entries) <= a
        /\ req.op = "reserve" => 10 * req.count <= a
        /\ req.op = "rehash" => req.count <= new_count
    BY <1>1 DEF ResizeRoom
  <2>2. a \in Nat /\ b \in Nat /\ a <= b /\ req.count \in Nat
    BY <1>7
  <2> HIDE DEF a, b
  <2> QED
    BY <1>1, <1>4, <2>1, <2>2
<1> QED
  BY <1>6, <1>8

LEMMA RoomForAllStep ==
  ASSUME KeyInv, RoomForAll, ResizeRoom, [OpenNext]_vars
  PROVE  RoomForAll' /\ ResizeRoom'
<1>1. CASE ~Rehashing'
  BY <1>1 DEF RoomForAll, ResizeRoom
<1>2. CASE Rehashing'
  <2>1. CASE AskKey \/ AskWhole \/ Finish \/ HasherPanics \/ Find
    BY <1>2, <2>1
    DEF AskKey, AskWhole, StartOnKey, StartOnWhole, Finish, HasherPanics, LoseArrays, Find, FindNoBuckets,
        FindNoArrays, FindHit, FindMiss, FindAdvance, Absent, Return, ProbeFrom, Rehashing
  <2>2. CASE Insert
    <3>1. RoomForAll'
      BY <1>2, <2>2, InsertRoom
    <3>2. req.op \notin ResizeOps /\ req' = req
      <4>1. pc = "insert" /\ req' = req
        BY <1>2, <2>2
        DEF Insert, InsertNoArrays, InsertExhausted, InsertHit, InsertAdvance,
            InsertEmpty, Inserting, Put, PutAt, Grow, Rehash, Return, Advance
      <4> QED
        BY <4>1, OnAPair DEF KeyInv, ProbeInv, Inv, TypeOK, CallOK
    <3> QED
      BY <3>1, <3>2 DEF ResizeRoom
  <2>3. CASE Drain \/ Place
    BY <1>2, <2>3, RehashingRoom
  <2>4. CASE WholeTable
    <3>1. Resize
      BY <1>2, <2>4 DEF WholeTable, Clear, EraseAll, Retain, PopFront, EraseRange,
                        SetMaxLoadFactor, Bury, Return, Rehashing
    <3> QED
      BY <1>2, <3>1, ResizeStarts
  <2>5. CASE UNCHANGED vars
    <3>1. TablesKept /\ pc' = pc /\ req' = req /\ max_load_factor' = max_load_factor
          /\ new_count' = new_count
      BY <2>5 DEF vars, table, limits, build, TablesKept
    <3>2. Entries' = Entries
      BY <3>1, KeptMoves DEF KeyInv
    <3> QED
      BY <3>1, <3>2 DEF RoomForAll, ResizeRoom, Rehashing
  <2> QED
    BY <2>1, <2>2, <2>3, <2>4, <2>5 DEF OpenNext, Step
<1> QED
  BY <1>1, <1>2

-----------------------------------------------------------------------------
(* An empty slot in self. *)

(* A new element takes a tombstone, or, below both thresholds, an empty    *)
(* slot that is not the last one.                                          *)
LEMMA PutKeepsRoom ==
  ASSUME KeyInv, ThresholdsFresh, OwnRoom, pc = "insert", sparse_buckets # NoArrays,
         \/ found_deleted # None /\ PutAt(found_deleted, 1)
         \/ /\ Cell = Empty /\ PutAt(ibucket, 0)
            /\ nb_elements + nb_deleted_buckets < load_threshold_clear_deleted
  PROVE  OwnRoom'
<1> DEFINE t == sparse_buckets
           u == sparse_buckets'
           n == bucket_count
           e == <<req.key, req.val>>
<1>1. /\ n \in Nat \ {0} /\ t \in Table(n) /\ ibucket \in 0 .. n - 1 /\ ~Rehashing
      /\ e \in Pair
  BY CellOK, OnAPair DEF KeyInv, ProbeInv, Inv, TypeOK, CallOK, Rehashing
<1>2. CASE found_deleted # None /\ PutAt(found_deleted, 1)
  <2>1. t[found_deleted] = Deleted /\ u = [t EXCEPT ![found_deleted] = e]
    BY <1>2 DEF PutAt, KeyInv, ProbeInv, Inv, TypeOK, CallOK
  <2>2. PICK i \in DOMAIN t : t[i] = Empty
    BY DEF OwnRoom
  <2>3. i \in DOMAIN u /\ u[i] = Empty
    BY <2>1, <2>2, MarkerAssumption
  <2> QED
    BY <2>3 DEF OwnRoom
<1>3. CASE /\ Cell = Empty /\ PutAt(ibucket, 0)
           /\ nb_elements + nb_deleted_buckets < load_threshold_clear_deleted
  <2> DEFINE i == ibucket
  <2>1. t[i] = Empty /\ u = [t EXCEPT ![i] = e]
    BY <1>3 DEF PutAt, Cell
  <2>2. /\ nb_elements = Cardinality(Occupied(t)) /\ nb_elements \in Nat
        /\ nb_deleted_buckets = Cardinality(Tombstones(t)) /\ nb_deleted_buckets \in Nat
        /\ max_load_factor \in 1 .. 8
        /\ load_threshold_clear_deleted = ThresholdClear(n, max_load_factor)
    BY <1>1 DEF KeyInv, ProbeInv, Inv, TypeOK, TypesOK, CountersAgree, Torn,
                ThresholdsFresh
  <2>3. ThresholdClear(n, max_load_factor) < n /\ ThresholdClear(n, max_load_factor) \in Nat
    BY <1>1, <2>2, ClearBelowFull, ThresholdsOK
  <2>4. nb_elements + 1 + nb_deleted_buckets < n
    BY <1>1, <1>3, <2>2, <2>3
  <2>5. u[i] = e /\ \A j \in (0 .. n - 1) \ {i} : u[j] = t[j]
    BY <1>1, <2>1 DEF Table
  <2>6. u \in Table(n)
    BY <1>1, <2>1 DEF Table, Slot
  <2> HIDE DEF t, u, n, e, i
  <2>7. Stores(u, t, n, i)
    BY <1>1, <2>5, <2>6 DEF Stores
  <2>8. i \in 0 .. n - 1 /\ i \notin Occupied(t) /\ n \in Nat /\ t \in Table(n)
    BY <1>1, <2>1 DEF i, Occupied
  <2>9. /\ Cardinality(Occupied(u)) = Cardinality(Occupied(t)) + 1
        /\ Tombstones(u) = Tombstones(t) \ {i}
    BY <2>7, <2>8, PutCounts
  <2>10. Tombstones(u) = Tombstones(t)
    BY <2>1, <2>9, MarkerAssumption DEF Tombstones
  <2>11. Cardinality(Occupied(u)) + Cardinality(Tombstones(u)) < n
    BY <2>2, <2>4, <2>9, <2>10
  <2>12. \E j \in DOMAIN u : u[j] = Empty
    BY <1>1, <2>6, <2>11, EmptyLeft
  <2> QED
    BY <2>12 DEF OwnRoom, u
<1> QED
  BY <1>2, <1>3

LEMMA AddedChanges ==
  ASSUME Inv, NEW i, Added(i)
  PROVE  /\ sparse_buckets' # sparse_buckets /\ sparse_buckets # NoArrays
         /\ pc = "insert" /\ pc' = "return"
<1> DEFINE e == <<req.key, req.val>>
<1>1. /\ sparse_buckets \in Table(bucket_count) /\ i \in 0 .. bucket_count - 1
      /\ pc = "insert" /\ pc' = "return" /\ sparse_buckets # NoArrays /\ e \in Pair
      /\ i \notin Occupied(sparse_buckets)
      /\ sparse_buckets' = [sparse_buckets EXCEPT ![i] = e]
  BY CellOK DEF Added, Inv
<1> HIDE DEF e
<1>2. sparse_buckets'[i] = e /\ sparse_buckets[i] # e
  BY <1>1, MarkerAssumption DEF Table, Occupied
<1> QED
  BY <1>1, <1>2

LEMMA InsertKeepsRoom ==
  ASSUME KeyInv, ThresholdsFresh, OwnRoom, Insert
  PROVE  OwnRoom'
<1>1. CASE TablesKept
  BY <1>1 DEF TablesKept, OwnRoom
<1>2. CASE \E n \in SettledCounts : Begun(n)
  BY <1>2 DEF Begun, OwnRoom
<1>3. CASE \E i : Added(i)
  <2>1. sparse_buckets' # sparse_buckets /\ sparse_buckets # NoArrays /\ pc = "insert"
    BY <1>3, AddedChanges DEF KeyInv, ProbeInv
  <2>2. ~Grow /\ \A c : ~Rehash(c)
    <3>1. pc' = "return" /\ sparse_buckets' # sparse_buckets
      BY <1>3, AddedChanges DEF KeyInv, ProbeInv
    <3> QED
      BY <3>1 DEF Grow, Rehash, table
  <2>3. CASE InsertExhausted
    BY <2>1, <2>2, <2>3, PutKeepsRoom DEF InsertExhausted
  <2>4. CASE InsertEmpty
    <3>1. /\ nb_elements \in Nat /\ nb_deleted_buckets \in Nat
          /\ load_threshold_clear_deleted \in Nat /\ load_threshold_rehash \in Nat
      BY DEF KeyInv, ProbeInv, Inv, TypeOK, TypesOK
    <3>2. /\ nb_elements + nb_deleted_buckets < load_threshold_clear_deleted
          /\ Put /\ Cell = Empty
      BY <2>2, <2>4, <3>1 DEF InsertEmpty
    <3> QED
      BY <2>1, <3>2, PutKeepsRoom DEF Put
  <2>5. CASE InsertNoArrays \/ InsertHit \/ InsertAdvance
    BY <2>1, <2>5 DEF InsertNoArrays, InsertHit, InsertAdvance, table
  <2> QED
    BY <2>3, <2>4, <2>5 DEF Insert
<1> QED
  BY <1>1, <1>2, <1>3, InsertEffects DEF KeyInv, ProbeInv

LEMMA OwnRoomStep ==
  ASSUME KeyInv, ThresholdsFresh, RoomForAll, OwnRoom, [OpenNext]_vars
  PROVE  OwnRoom'
<1> DEFINE t == sparse_buckets
           u == sparse_buckets'
<1>1. Inv
  BY DEF KeyInv, ProbeInv
<1>2. CASE TablesKept \/ \E n \in SettledCounts : Begun(n)
  BY <1>2 DEF TablesKept, Begun, OwnRoom
<1>3. CASE Insert
  BY <1>3, InsertKeepsRoom
<1>4. CASE (\E n \in SettledCounts : Nested(n)) \/ SwapNested \/ PlaceHere \/ Lost
  <2>1. Rehashing /\ u = t
    BY <1>4 DEF Nested, SwapNested, PlaceHere, Placing, Lost, LoseArrays, Rehashing, table
  <2> QED
    BY <1>1, <2>1, RehashingFacts DEF OwnRoom
<1>5. CASE SwapIn
  BY <1>5, BuiltRoom DEF SwapIn, OwnRoom
<1>6. ASSUME t # NoArrays, DOMAIN u = DOMAIN t,
             \A i \in DOMAIN t : t[i] = Empty => u[i] = Empty
      PROVE  OwnRoom'
  BY <1>6 DEF OwnRoom
<1>7. CASE Replaced \/ Cleared \/ \E gone \in SUBSET Occupied(sparse_buckets) : Buried(gone)
  <2>1. /\ DOMAIN u = DOMAIN t /\ \A i \in DOMAIN t : t[i] = Empty => u[i] = Empty
    BY <1>7 DEF Replaced, Cleared, Buried, Occupied
  <2>2. CASE t = NoArrays
    <3>1. u = NoArrays
      BY <1>7, <2>2, NoArraysEmpty
      DEF Replaced, Cleared, Buried, NoArrays, FreshBuckets
    <3> QED
      BY <3>1 DEF OwnRoom
  <2>3. CASE t # NoArrays
    BY <1>6, <2>1, <2>3
  <2> QED
    BY <2>2, <2>3
<1>8. CASE \E i : Added(i)
  <2>1. Insert
    <3>1. pc = "insert" /\ sparse_buckets' # sparse_buckets /\ pc' = "return"
      BY <1>1, <1>8, AddedChanges
    <3> QED
      BY <3>1 DEF OpenNext, Step, AskKey, AskWhole, StartOnKey, StartOnWhole, Finish, HasherPanics, Find,
                  FindNoBuckets, FindNoArrays, FindHit, FindMiss, FindAdvance, Drain,
                  DrainNext, SwapIn, SwapNested, Place, PlaceHere, PlaceAdvance,
                  PlaceExhausted, Placing, WholeTable, Resize, Clear, EraseAll, Retain,
                  PopFront, EraseRange, SetMaxLoadFactor, Whole, vars
  <2> QED
    BY <1>3, <2>1
<1> QED
  BY <1>1, <1>2, <1>4, <1>5, <1>7, <1>8, Effects

-----------------------------------------------------------------------------
(* What rehash and reserve leave behind. *)

LEMMA PromiseStep ==
  ASSUME KeyInv, ResizeRoom, ResizeKeepsPromise, [OpenNext]_vars
  PROVE  ResizeKeepsPromise'
<1> SUFFICES ASSUME pc' = "return", req'.op \in ResizeOps, res' # Panicked
             PROVE  ResizeKeepsPromise'
  BY DEF ResizeKeepsPromise
<1>1. CASE SwapIn
  <2> DEFINE n == new_count
             load == max_load_factor
             card == Cardinality(Entries)
  <2>1. /\ Rehashing /\ req' = req /\ nb_elements' = new_elements
        /\ nb_deleted_buckets' = 0 /\ bucket_count' = n
        /\ load_threshold_rehash' = ThresholdRehash(n, load)
    BY <1>1 DEF SwapIn, Return, ProbeFrom, Rehashing
  <2>2. /\ n \in Nat /\ load \in 1 .. 8 /\ new_buckets \in Table(n)
        /\ new_elements = Cardinality(Occupied(new_buckets)) /\ new_elements \in Nat
    BY <2>1, RehashingFacts
    DEF KeyInv, ProbeInv, Inv, TypeOK, TypesOK, CountersAgree
  <2>3. new_elements <= card /\ card \in Nat
    BY <2>2, BuiltCount, EntriesFinite
  <2>4. /\ 10 * card <= n * load
        /\ req.op = "reserve" => 10 * req.count <= n * load
        /\ req.op = "rehash" => req.count <= n
    BY <2>1 DEF ResizeRoom
  <2>5. req.count \in Nat
    <3>1. req \in WholeRequests
      BY <2>1, RehashingFacts, OnAPair DEF MayRehash, KeyInv, ProbeInv
    <3> QED
      BY <2>1, <3>1, OnTheWhole, SizesAreNat
  <2> HIDE DEF n, load, card
  <2>6. n * load \in Nat
    BY <2>2, NatProduct
  <2>7. 10 * new_elements <= n * load
    BY <2>2, <2>3, <2>4, <2>6
  <2>8. /\ new_elements <= ThresholdRehash(n, load)
        /\ req.op = "reserve" => req.count <= ThresholdRehash(n, load)
    BY <2>2, <2>4, <2>5, <2>7, BelowRehash
  <2> QED
    BY <2>1, <2>4, <2>8 DEF ResizeKeepsPromise
<1>2. CASE UNCHANGED vars
  BY <1>2 DEF vars, table, limits, ResizeKeepsPromise
<1>3. CASE AskKey \/ AskWhole \/ Finish \/ HasherPanics
  BY <1>3 DEF AskKey, AskWhole, StartOnKey, StartOnWhole, Finish, HasherPanics, LoseArrays, Return
<1>4. CASE Find \/ Insert
  <2>1. pc \in {"find", "insert"} /\ req' = req
    BY <1>4 DEF Find, FindNoBuckets, FindNoArrays, FindHit, FindMiss, FindAdvance,
                Absent, ProbeFrom, Insert, InsertNoArrays, InsertExhausted, InsertHit,
                InsertAdvance, InsertEmpty, Inserting, Put, PutAt, Grow, Rehash, Return,
                Advance
  <2>2. req \in KeyRequests \cup PairRequests
    BY <2>1 DEF KeyInv, ProbeInv, Inv, TypeOK, CallOK
  <2> QED
    BY <2>1, <2>2 DEF KeyRequests, PairRequests, ResizeOps
<1>5. CASE DrainNext \/ SwapNested \/ Place
  BY <1>5 DEF DrainNext, SwapNested, Place, PlaceHere, PlaceAdvance, PlaceExhausted,
              Placing, LoseArrays, Return, ProbeFrom, Advance
<1>6. CASE WholeTable
  BY <1>6 DEF WholeTable, Resize, Rehash, Clear, EraseAll, Retain, PopFront, EraseRange,
              SetMaxLoadFactor, Whole, Return, ResizeOps
<1> QED
  BY <1>1, <1>2, <1>3, <1>4, <1>5, <1>6 DEF OpenNext, Step, Drain

LEMMA RoomInitOK ==
  ASSUME Init
  PROVE  RoomForAll /\ OwnRoom /\ ResizeRoom /\ ResizeKeepsPromise
<1>1. pc = "idle" /\ sparse_buckets = FreshBuckets(bucket_count)
  BY DEF Init
<1>2. bucket_count \in Nat
  BY KeyInitOK, SizesAreNat DEF KeyInv, ProbeInv, Inv, TypeOK, TypesOK
<1>3. OwnRoom
  BY <1>1, <1>2 DEF OwnRoom, NoArrays, FreshBuckets
<1> QED
  BY <1>1, <1>3 DEF RoomForAll, ResizeRoom, ResizeKeepsPromise, Rehashing

LEMMA RoomStep ==
  ASSUME RoomInv, [OpenNext]_vars
  PROVE  RoomInv'
<1>1. KeyInv'
  BY NextStep, RestStep, FindableStep, TrailStep, UniqueStep, KindsStep, AbsentKnownStep
  DEF RoomInv, KeyInv, ProbeInv
<1>2. RoomForAll' /\ ResizeRoom' /\ OwnRoom' /\ ResizeKeepsPromise' /\ ThresholdsFresh'
  BY RoomForAllStep, OwnRoomStep, PromiseStep, FreshStep DEF RoomInv
<1> QED
  BY <1>1, <1>2 DEF RoomInv

LEMMA RoomInvHolds == OpenSpec => []RoomInv
<1>1. Init => RoomInv
  BY RoomInitOK, KeyInitOK DEF Init, ThresholdsFresh, RoomInv
<1>2. RoomInv /\ [OpenNext]_vars => RoomInv'
  BY RoomStep
<1> QED
  BY <1>1, <1>2, PTL DEF OpenSpec

(* Every table, the one a rehash builds included, keeps an empty slot,     *)
(* whatever growth policy, hash function, load factor and sequence of      *)
(* calls: the two thresholds leave one, tombstones are cleaned up in time, *)
(* and the sizes computed for a rehash exceed what it has to move.         *)
THEOREM RoomKept == Spec => []RoomLeft
<1>1. RoomInv => RoomLeft
  BY BuiltRoom DEF RoomInv, RoomLeft, OwnRoom
<1> QED
  BY <1>1, RunIsOpen, RoomInvHolds, PTL

(* After rehash(n) and reserve(n) the table takes what was asked for, and  *)
(* its own elements, without reaching the grow threshold.                  *)
THEOREM PromisesKept == Spec => []ResizeKeepsPromise
<1>1. RoomInv => ResizeKeepsPromise
  BY DEF RoomInv
<1> QED
  BY <1>1, RunIsOpen, RoomInvHolds, PTL

-----------------------------------------------------------------------------
(* Tables of a power of two of buckets. *)

(* A probe path of such a table visits every slot: its first n slots       *)
(* differ, and there are no more than n.                                   *)
LEMMA PathCovers ==
  ASSUME OnlyPowersOfTwo, NEW n \in SettledCounts, n > 0, NEW k \in Key
  PROVE  \A i \in 0 .. n - 1 : \E j \in 0 .. n - 1 : Path(n, k, j) = i
<1> DEFINE f == [j \in 0 .. n - 1 |-> Path(n, k, j)]
           b == BucketForHash(n, k)
<1>1. n \in Nat \ {0} /\ b \in Nat
  BY SizesAreNat, BucketOK
<1>2. \A d \in 1 .. n : n % d = 0 => d = 1 \/ d % 2 = 0
  BY DEF OnlyPowersOfTwo
<1>3. \A j \in 0 .. n - 1 : Path(n, k, j) = (b + Triangle(j)) % n
  BY DEF Path, Triangle
<1> HIDE DEF b
<1>4. ASSUME NEW i \in 0 .. n - 1, NEW j \in 0 .. n - 1, i < j
      PROVE  Path(n, k, i) # Path(n, k, j)
  BY <1>1, <1>2, <1>3, <1>4, TrianglesApart
<1>5. \A j \in 0 .. n - 1 : Path(n, k, j) \in 0 .. n - 1
  BY <1>1, PathOK
<1>6. \A i, j \in 0 .. n - 1 : Path(n, k, i) = Path(n, k, j) => i = j
  <2> SUFFICES ASSUME NEW i \in 0 .. n - 1, NEW j \in 0 .. n - 1, i # j
               PROVE  Path(n, k, i) # Path(n, k, j)
    OBVIOUS
  <2>1. i < j \/ j < i
    BY <1>1
  <2> QED
    BY <1>4, <2>1
<1>7. f \in Injection(0 .. n - 1, 0 .. n - 1)
  BY <1>5, <1>6 DEF Injection, IsInjective
<1>8. IsFiniteSet(0 .. n - 1)
  BY <1>1, FS_Interval
<1> HIDE DEF f
<1>9. f \in Surjection(0 .. n - 1, 0 .. n - 1)
  BY <1>7, <1>8, FS_Injection
<1> QED
  BY <1>9 DEF Surjection, f

(* While a value waits to be placed, an empty slot lies ahead on its path. *)
LEMMA PlaceEnds ==
  ASSUME OnlyPowersOfTwo, RoomInv, pc = "place"
  PROVE  probe < new_count
<1> DEFINE n == new_count
           k == InFlight[1]
<1>1. /\ Rehashing /\ n \in SettledCounts /\ n \in Nat /\ new_buckets \in Table(n)
      /\ probe \in Nat
  BY RehashingFacts, SizesAreNat
  DEF Rehashing, RoomInv, KeyInv, ProbeInv, Inv, TypeOK, TypesOK
<1>2. k \in Key /\ Entries # {}
  <2>1. /\ draining \in Seq(ValueTable) /\ draining # <<>>
        /\ Occupied(Head(draining)) # {}
    BY <1>1 DEF RoomInv, KeyInv, ProbeInv, Inv, TypeOK, TypesOK, RehashOK
  <2>2. 1 \in DOMAIN draining /\ draining[1] = Head(draining)
    BY <2>1
  <2>3. draining[1] \in ValueTable
    BY <2>1, <2>2
  <2>4. DOMAIN draining[1] \subseteq Nat
    BY <2>3, SizesAreNat DEF ValueTable
  <2>5. First(draining[1]) \in Occupied(draining[1])
    BY <2>1, <2>2, <2>4, FirstOccupied
  <2>6. InFlight \in Pair
    BY <2>2, <2>3, <2>5 DEF InFlight, ValueTable, Occupied
  <2>7. InFlight \in Entries
    BY <2>2, <2>5 DEF InFlight, Entries, Areas, Area
  <2> QED
    BY <2>6, <2>7 DEF Pair
<1> HIDE DEF n, k
<1>3. n > 0
  <2>1. Cardinality(Entries) < n /\ Cardinality(Entries) \in Nat
    BY <1>1, <1>2, EntriesFinite DEF RoomInv, RoomForAll, n
  <2> QED
    BY <1>1, <2>1
<1>4. SUFFICES ASSUME probe >= n
               PROVE  FALSE
  BY <1>1 DEF n
<1>5. \A j \in 0 .. n - 1 : Path(n, k, j) \in Occupied(new_buckets)
  <2>1. \A j \in 0 .. probe - 1 : Path(n, k, j) \in Occupied(new_buckets)
    BY <1>3, PlaceTrail DEF RoomInv, KeyInv, ProbeInv, n, k
  <2> QED
    BY <1>1, <1>4, <2>1
<1>6. \A i \in 0 .. n - 1 : i \in Occupied(new_buckets)
  BY <1>1, <1>2, <1>3, <1>5, PathCovers
<1>7. \E i \in 0 .. n - 1 : new_buckets[i] = Empty
  <2>1. new_buckets # NoArrays
    BY <1>1, <1>3, ArraysIffSlots
  <2>2. DOMAIN new_buckets = 0 .. n - 1
    BY <1>1 DEF Table
  <2> QED
    BY <2>1, <2>2, BuiltRoom DEF RoomInv
<1> QED
  BY <1>6, <1>7 DEF Occupied

(* A lookup or an insertion meets an empty slot in time: neither probes    *)
(* bucket_count slots.                                                     *)
SearchesEnd ==
  pc \in {"find", "insert"} /\ sparse_buckets # NoArrays => probe < bucket_count

LEMMA SearchEnds ==
  ASSUME OnlyPowersOfTwo, RoomInv
  PROVE  SearchesEnd
<1> DEFINE n == bucket_count
           k == req.key
           t == sparse_buckets
<1> SUFFICES ASSUME pc \in {"find", "insert"}, t # NoArrays
             PROVE  probe < n
  BY DEF SearchesEnd
<1>1. n \in SettledCounts /\ n \in Nat /\ t \in Table(n) /\ probe \in Nat
  BY SizesAreNat DEF RoomInv, KeyInv, ProbeInv, Inv, TypeOK, TypesOK
<1>2. k \in Key
  BY OnAPair DEF RoomInv, KeyInv, ProbeInv, Inv, TypeOK, CallOK, KeyRequests
<1>3. n > 0
  BY <1>1, ArraysIffSlots
<1> HIDE DEF n, k, t
<1>4. SUFFICES ASSUME probe >= n
               PROVE  FALSE
  BY <1>1
<1>5. \A j \in 0 .. n - 1 : t[Path(n, k, j)] # Empty
  <2>1. \A j \in 0 .. Min2(probe, n) - 1 : t[Path(n, k, j)] # Empty
    BY SearchTrail DEF RoomInv, KeyInv, ProbeInv, n, k, t
  <2>2. Min2(probe, n) = n
    BY <1>1, <1>4 DEF Min2
  <2> QED
    BY <2>1, <2>2
<1>6. \A i \in 0 .. n - 1 : t[i] # Empty
  BY <1>1, <1>2, <1>3, <1>5, PathCovers
<1>7. \E i \in 0 .. n - 1 : t[i] = Empty
  <2>1. DOMAIN t = 0 .. n - 1
    BY <1>1 DEF Table
  <2> QED
    BY <2>1 DEF RoomInv, OwnRoom, t
<1> QED
  BY <1>6, <1>7

(* Only a rehash that runs out of slots nests.                             *)
LEMMA NestStep ==
  ASSUME Inv, NeverNests, [OpenNext]_vars
  PROVE  Len(draining') <= 1
<1>1. draining \in Seq(ValueTable) /\ (~Rehashing => draining = <<>>)
  BY DEF Inv, TypeOK, TypesOK, RehashOK
<1>2. CASE UNCHANGED build
  BY <1>2 DEF build, NeverNests
<1>3. CASE LoseArrays \/ SwapIn
  BY <1>3 DEF LoseArrays, SwapIn
<1>4. CASE SwapNested
  BY <1>4, <1>1 DEF SwapNested, NeverNests
<1>5. CASE PlaceHere
  BY <1>5, <1>1 DEF PlaceHere, NeverNests
<1>6. CASE \E c : Rehash(c)
  <2>1. UNCHANGED build \/ draining' = <<Values(sparse_buckets)>>
    BY <1>6 DEF Rehash
  <2>2. ASSUME NEW x, draining' = <<x>>
        PROVE  Len(draining') <= 1
    BY <2>2
  <2> QED
    BY <1>2, <2>1, <2>2
<1>7. CASE PlaceExhausted
  <2>1. probe \in Nat /\ new_count \in Nat
    BY SizesAreNat DEF Inv, TypeOK, TypesOK
  <2> QED
    BY <1>7, <2>1 DEF PlaceExhausted, NeverNests
<1>8. CASE Grow
  BY <1>6, <1>8, <1>2 DEF Grow
<1> QED
  BY <1>2, <1>3, <1>4, <1>5, <1>6, <1>7, <1>8
  DEF OpenNext, Step, AskKey, AskWhole, StartOnKey, StartOnWhole, Finish, HasherPanics, Find, FindNoBuckets,
      FindNoArrays, FindHit, FindMiss, FindAdvance, Absent, Drain, DrainNext, Place,
      PlaceAdvance, Insert, InsertNoArrays, InsertExhausted, InsertHit, InsertAdvance,
      InsertEmpty, Put, PutAt, WholeTable, Resize, Clear, EraseAll, Retain, PopFront,
      EraseRange, SetMaxLoadFactor, Bury, vars

(* A new element goes to an empty slot below the grow threshold: the other *)
(* way to store one is an exhausted path.                                  *)
LEMMA LoadStep ==
  ASSUME Inv, SearchesEnd, [OpenNext]_vars, pc = "insert", nb_elements' > nb_elements
  PROVE  nb_elements < load_threshold_rehash
<1>1. nb_elements \in Nat /\ load_threshold_rehash \in Nat /\ bucket_count \in Nat
      /\ probe \in Nat
  BY SizesAreNat DEF Inv, TypeOK, TypesOK
<1>2. ~Grow /\ \A c : ~Rehash(c)
  BY <1>1 DEF Grow, Rehash, table
<1>3. CASE Insert
  <2>1. ~InsertNoArrays
    BY <1>2 DEF InsertNoArrays
  <2>2. ~InsertExhausted
    BY <1>1 DEF InsertExhausted, SearchesEnd
  <2>3. ~InsertHit /\ ~InsertAdvance
    <3>1. UNCHANGED table => nb_elements' = nb_elements
      BY DEF table
    <3>2. InsertHit \/ InsertAdvance => UNCHANGED table
      BY DEF InsertHit, InsertAdvance
    <3>3. nb_elements' # nb_elements
      BY <1>1
    <3> QED
      BY <3>1, <3>2, <3>3
  <2>4. InsertEmpty
    BY <1>3, <2>1, <2>2, <2>3 DEF Insert
  <2> QED
    BY <1>1, <1>2, <2>4 DEF InsertEmpty
<1>4. CASE ~Insert
  BY <1>1, <1>4
  DEF OpenNext, Step, AskKey, AskWhole, StartOnKey, StartOnWhole, Finish, HasherPanics, Find, FindNoBuckets,
      FindNoArrays, FindHit, FindMiss, FindAdvance, Drain, DrainNext, SwapIn, SwapNested,
      Place, PlaceHere, PlaceAdvance, PlaceExhausted, Placing, WholeTable, Resize, Clear,
      EraseAll, Retain, PopFront, EraseRange, SetMaxLoadFactor, Whole, vars, table
<1> QED
  BY <1>3, <1>4

(* On power-of-two tables a lookup or an insertion comes to an end before  *)
(* it has probed bucket_count slots, whatever the hash function: the       *)
(* triangular probe visits every slot and one of them is empty.            *)
THEOREM SearchesStop == OnlyPowersOfTwo => (Spec => []SearchesEnd)
<1> SUFFICES ASSUME OnlyPowersOfTwo
             PROVE  Spec => []SearchesEnd
  OBVIOUS
<1>1. RoomInv => SearchesEnd
  BY SearchEnds
<1> QED
  BY <1>1, RunIsOpen, RoomInvHolds, PTL

LEMMA NestHolds == OnlyPowersOfTwo => (OpenSpec => []NeverNests)
<1> SUFFICES ASSUME OnlyPowersOfTwo
             PROVE  OpenSpec => []NeverNests
  OBVIOUS
<1> DEFINE L == Len(draining) <= 1
<1>1. RoomInv => (pc = "place" => probe < new_count)
  BY PlaceEnds
<1>2. Init => L
  BY DEF Init
<1>3. RoomInv /\ L /\ [OpenNext]_vars => L'
  <2> SUFFICES ASSUME RoomInv, L, [OpenNext]_vars
               PROVE  L'
    OBVIOUS
  <2>1. Inv /\ NeverNests
    BY <1>1 DEF RoomInv, KeyInv, ProbeInv, NeverNests
  <2> QED
    BY <2>1, NestStep
<1>4. RoomInv /\ L => NeverNests
  BY <1>1 DEF NeverNests
<1> HIDE DEF L
<1> QED
  BY <1>2, <1>3, <1>4, RoomInvHolds, PTL DEF OpenSpec

(* On power-of-two tables rehash_impl finds a slot on the path of every    *)
(* value it moves.  It never has to grow again with values in hand.        *)
THEOREM NestsNever == OnlyPowersOfTwo => (Spec => []NeverNests)
<1> SUFFICES ASSUME OnlyPowersOfTwo
             PROVE  Spec => []NeverNests
  OBVIOUS
<1> QED
  BY RunIsOpen, NestHolds, PTL

(* On power-of-two tables an insertion stores a new element only while the *)
(* table is below its grow threshold.                                      *)
THEOREM LoadRespected == OnlyPowersOfTwo => (Spec => InsertRespectsLoad)
<1> SUFFICES ASSUME OnlyPowersOfTwo
             PROVE  Spec => InsertRespectsLoad
  OBVIOUS
<1>1. RoomInv => Inv /\ SearchesEnd
  BY SearchEnds DEF RoomInv, KeyInv, ProbeInv
<1>2. Inv /\ SearchesEnd /\ [OpenNext]_vars =>
        (pc = "insert" /\ nb_elements' > nb_elements =>
           nb_elements < load_threshold_rehash)
  BY LoadStep
<1> QED
  BY <1>1, <1>2, RunIsOpen, RoomInvHolds, PTL DEF OpenSpec, InsertRespectsLoad

-----------------------------------------------------------------------------
(* What a client that makes several calls needs to know of the engine. *)

(* The pairs that are left are pairs.                                      *)
LEMMA NextPair ==
  ASSUME NEW s \in Seq(Pair), s # <<>>
  PROVE  /\ Head(s) \in Pair /\ Tail(s) \in Seq(Pair)
         /\ Head(s)[1] \in Key /\ Head(s)[2] \in Val /\ Head(s) = <<Head(s)[1], Head(s)[2]>>
<1>1. Head(s) \in Pair /\ Tail(s) \in Seq(Pair)
  OBVIOUS
<1> QED
  BY <1>1 DEF Pair

(* The calls that the operations make are requests of the engine.          *)
LEMMA RequestsOK ==
  /\ \A k \in Key : [op |-> "get", key |-> k] \in KeyRequests \cup PairRequests
  /\ \A k \in Key, v \in Val :
       [op |-> "insert", key |-> k, val |-> v] \in KeyRequests \cup PairRequests
  /\ \A n \in Nat : [op |-> "reserve", count |-> n] \in WholeRequests
BY DEF KeyRequests, PairRequests, WholeRequests

(* What the table holds are pairs of a key and a value.                    *)
LEMMA EntriesArePairs ==
  ASSUME Inv
  PROVE  Entries \subseteq Pair
BY AreaOK DEF Entries

(* A call that runs has been made before.                                  *)
LEMMA StepsRun ==
  ASSUME Step \/ HasherPanics
  PROVE  pc # "idle"
BY DEF HasherPanics, Step, Find, FindNoBuckets, FindNoArrays, FindHit, FindMiss,
       FindAdvance, Drain, DrainNext, SwapIn, SwapNested, Place, PlaceHere,
       PlaceAdvance, PlaceExhausted, Placing, Insert, InsertNoArrays, InsertExhausted,
       InsertHit, InsertAdvance, InsertEmpty, Inserting, WholeTable, Resize, Clear,
       EraseAll, Retain, PopFront, EraseRange, SetMaxLoadFactor, Whole, Finish

(* What the map does while the engine runs for an extension.               *)
LEMMA PhaseIs ==
  /\ Phase = "idle" <=> pc = "idle"
  /\ Phase = "done" <=> pc = "return"
  /\ Phase = "working" <=> Working
BY DEF Phase, Working

(* The same after a step.                                                  *)
LEMMA PhaseIsNext ==
  /\ Phase' = "idle" <=> pc' = "idle"
  /\ Phase' = "done" <=> pc' = "return"
  /\ Phase' = "working" <=> Working'
BY DEF Phase, Working

(* A reservation leaves the entries alone, unless it panics.               *)
LEMMA ReserveRuns ==
  ASSUME MapStep, Working, req.op = "reserve"
  PROVE  /\ req' = req /\ (Working' \/ pc' = "return")
         /\ Entries' = Entries \/ (pc' = "return" /\ res' = Panicked)
BY PhaseIs, PhaseIsNext
DEF MapStep, Map!Next, Map!mapVars, Map!Call, Map!Finish, Map!Get, Map!Remove,
    Map!GetMut, Map!AddNew, Map!KeepOld, Map!Overwrite, Map!Configure,
    Map!EraseEverything, Map!Retain, Map!PopFront, Map!EraseRange, Map!Panic,
    Map!Asked, Map!Respond

(* An insertion adds its pair as it answers, if the key is new.            *)
LEMMA InsertRuns ==
  ASSUME MapStep, Working, req.op = "insert"
  PROVE  /\ req' = req
         /\ \/ Working' /\ Entries' = Entries
            \/ /\ pc' = "return"
               /\ \/ res' = Panicked
                  \/ Entries' = IF Map!Has(req.key) THEN Entries
                                ELSE Entries \cup {<<req.key, req.val>>}
BY PhaseIs, PhaseIsNext
DEF MapStep, Map!Next, Map!mapVars, Map!Call, Map!Finish, Map!Get, Map!Remove,
    Map!GetMut, Map!AddNew, Map!KeepOld, Map!Overwrite, Map!Configure,
    Map!EraseEverything, Map!Retain, Map!PopFront, Map!EraseRange, Map!Panic,
    Map!Asked, Map!Respond

(* The abstract map has a key when an entry carries it.                    *)
LEMMA HasByKey ==
  ASSUME Entries \subseteq Pair, NEW k
  PROVE  (\E o \in Entries : o[1] = k) <=> Map!Has(k)
<1>1. \A o \in Entries : o = <<o[1], o[2]>> /\ o[2] \in Val
  BY DEF Pair
<1> QED
  BY <1>1 DEF Map!Has

(* A call leaves the entries to its answer.                                *)
LEMMA AskingKeeps ==
  ASSUME KeyInv, NEW r, StartOnKey(r) \/ StartOnWhole(r)
  PROVE  Entries' = Entries /\ req' = r /\ pc = "idle"
<1>1. TablesKept /\ req' = r /\ pc = "idle"
  BY DEF StartOnKey, StartOnWhole, TablesKept, table
<1> QED
  BY <1>1, KeptMoves DEF KeyInv

(* A table is cleaned up no sooner than it grows.                          *)
LEMMA CleanupAfterGrowth ==
  ASSUME NEW n \in Nat, NEW load \in 1 .. 8
  PROVE  /\ ThresholdRehash(n, load) \in Nat
         /\ ThresholdRehash(n, load) <= ThresholdClear(n, load)
         /\ n = 0 => ThresholdRehash(n, load) = 0
<1> DEFINE a == n * load
           b == n * (10 + load)
           d == n * (10 - load)
<1>1. a \in Nat /\ d \in Nat
  BY NatProduct
<1>2. b = 2 * a + d
  OBVIOUS
<1>3. n = 0 => a = 0
  OBVIOUS
<1> HIDE DEF a, b, d
<1>4. a \div 10 \in Nat /\ a \div 10 <= b \div 20 /\ (a = 0 => a \div 10 = 0)
  BY <1>1, <1>2
<1> QED
  BY <1>3, <1>4 DEF ThresholdRehash, ThresholdClear, a, b

(* A reservation that succeeds ends by taking the new table over.          *)
LEMMA ReserveEnds ==
  ASSUME Inv, Step \/ HasherPanics, Working, req.op = "reserve",
         pc' = "return", res' # Panicked
  PROVE  SwapIn
<1>1. pc \notin {"find", "insert"}
  BY DEF Inv, TypeOK, CallOK, KeyRequests, PairRequests
<1>2. ~Find /\ ~Insert
  BY <1>1 DEF Find, FindNoBuckets, FindNoArrays, FindHit, FindMiss, FindAdvance, Insert,
              InsertNoArrays, InsertExhausted, InsertHit, InsertAdvance, InsertEmpty,
              Inserting
<1>3. ~HasherPanics /\ ~Finish /\ ~Place
  BY DEF HasherPanics, LoseArrays, Finish, Working, Place, PlaceHere, PlaceAdvance,
         PlaceExhausted, Placing, Return, Advance
<1>4. ~WholeTable
  BY DEF WholeTable, Resize, Rehash, Clear, EraseAll, Retain, PopFront, EraseRange,
         SetMaxLoadFactor, Whole, Return
<1>5. ~DrainNext /\ ~SwapNested
  BY DEF DrainNext, SwapNested, ProbeFrom
<1> QED
  BY <1>2, <1>3, <1>4, <1>5 DEF Step, Drain

(* Outside a rehash there are as many entries as occupied slots.           *)
LEMMA OwnCounted ==
  RoomInv /\ ~Rehashing => Cardinality(Entries) = Cardinality(Occupied(sparse_buckets))
BY OwnCount DEF RoomInv


-----------------------------------------------------------------------------
(* An end to every call.  Each step of a call lowers a variant of six      *)
(* numbers, the ones in front counting for more: how far the call is, how  *)
(* much the table that is worked on can still grow, which loop runs, how   *)
(* many rehashes are under way, how many values the innermost one has to   *)
(* place, and how many probes its loop has left.  An insertion that meets  *)
(* tombstones may clean them up and start again, but the second time there *)
(* are none.                                                               *)
Stage ==
  CASE pc = "idle" -> 0
    [] pc = "return" -> 1
    [] pc = "whole" -> 3
    [] OTHER -> 2

CountAtWork == IF Rehashing THEN new_count ELSE bucket_count
Growable == MaxBucketCount - CountAtWork

LoopAhead ==
  CASE pc = "find" -> 4
    [] pc = "insert" /\ nb_deleted_buckets > 0 -> 3
    [] Rehashing -> 2
    [] OTHER -> 1

Unplaced == IF Rehashing THEN Cardinality(Occupied(Head(draining))) ELSE 0

ProbesLeft ==
  CASE pc = "drain" -> new_count + 1
    [] pc = "place" -> Max2(new_count - probe, 0)
    [] OTHER -> Max2(bucket_count - probe, 0)

Variant == <<Stage, Growable, LoopAhead, Len(draining), Unplaced, ProbesLeft>>

(* The first numbers that differ decide.                                   *)
Lower(v, w) == \E i \in 1 .. 6 : v[i] < w[i] /\ \A j \in 1 .. i - 1 : v[j] = w[j]
Descends(f) == \A m \in Nat : Lower(f[m + 1], f[m])

(* A sequence of naturals that never rises comes to rest.                  *)
LEMMA NeverRising ==
  ASSUME NEW f \in [Nat -> Nat], NEW n \in Nat,
         \A m \in Nat : m >= n => f[m + 1] <= f[m]
  PROVE  \E k \in Nat : k >= n /\ \A m \in Nat : m >= k => f[m] = f[k]
<1> DEFINE S == { f[m] : m \in { m \in Nat : m >= n } }
<1>1. PICK x \in S : \A y \in S : x <= y
  <2>1. S \subseteq Nat /\ f[n] \in S
    OBVIOUS
  <2> QED
    BY <2>1, LeastNatural
<1>2. PICK k \in Nat : k >= n /\ f[k] = x
  BY <1>1
<1>3. \A m \in Nat : m >= k => f[k] <= f[m]
  BY <1>1, <1>2
<1> DEFINE Bad == { m \in Nat : m >= k /\ f[m] # f[k] }
<1>4. Bad = {}
  <2> SUFFICES ASSUME Bad # {}
               PROVE  FALSE
    OBVIOUS
  <2>1. PICK m \in Bad : \A j \in Bad : m <= j
    BY LeastNatural
  <2>2. m \in Nat /\ m > k /\ m - 1 \in Nat /\ m - 1 >= k /\ (m - 1) + 1 = m
    BY <2>1, <1>2
  <2>3. m - 1 \notin Bad
    BY <2>1, <2>2
  <2>4. f[m - 1] = f[k]
    BY <2>2, <2>3
  <2>5. f[(m - 1) + 1] <= f[m - 1]
    BY <1>2, <2>2
  <2>6. f[m] <= f[k] /\ f[k] <= f[m] /\ f[m] \in Nat /\ f[k] \in Nat
    BY <1>3, <2>2, <2>4, <2>5
  <2>7. f[m] # f[k]
    BY <2>1
  <2> QED
    BY <2>6, <2>7
<1> QED
  BY <1>2, <1>4

(* The first numbers that may differ do not rise.                          *)
LEMMA LowerAt ==
  ASSUME NEW v \in [1 .. 6 -> Nat], NEW w \in [1 .. 6 -> Nat], Lower(v, w),
         NEW i \in 1 .. 6, \A j \in 1 .. i - 1 : v[j] = w[j]
  PROVE  v[i] <= w[i]
<1>1. PICK l \in 1 .. 6 : v[l] < w[l] /\ \A j \in 1 .. l - 1 : v[j] = w[j]
  BY DEF Lower
<1>2. v[i] \in Nat /\ w[i] \in Nat /\ v[l] \in Nat /\ w[l] \in Nat
  OBVIOUS
<1>3. l >= i
  <2>1. v[l] # w[l]
    BY <1>1, <1>2
  <2> QED
    BY <2>1
<1>4. CASE l = i
  BY <1>1, <1>2, <1>4
<1>5. CASE l # i
  <2>1. i \in 1 .. l - 1
    BY <1>3, <1>5
  <2>2. v[i] = w[i]
    BY <1>1, <2>1
  <2> QED
    BY <1>2, <2>2
<1> QED
  BY <1>4, <1>5

(* What is equal is not lower.                                             *)
LEMMA LowerDiffers ==
  ASSUME NEW v \in [1 .. 6 -> Nat], NEW w \in [1 .. 6 -> Nat], Lower(v, w)
  PROVE  \E i \in 1 .. 6 : v[i] # w[i]
<1>1. PICK l \in 1 .. 6 : v[l] < w[l]
  BY DEF Lower
<1>2. v[l] \in Nat /\ w[l] \in Nat
  OBVIOUS
<1> QED
  BY <1>1, <1>2

(* When the numbers before the i-th rest, the i-th never rises.            *)
LEMMA NextRests ==
  ASSUME NEW f \in [Nat -> [1 .. 6 -> Nat]], Descends(f),
         NEW i \in 1 .. 6, NEW n \in Nat,
         \A m \in Nat : m >= n => \A j \in 1 .. i - 1 : f[m][j] = f[n][j]
  PROVE  \E k \in Nat : \A m \in Nat : m >= k => \A j \in 1 .. i : f[m][j] = f[k][j]
<1> DEFINE g == [m \in Nat |-> f[m][i]]
<1>1. g \in [Nat -> Nat]
  OBVIOUS
<1>2. ASSUME NEW m \in Nat, m >= n
      PROVE  g[m + 1] <= g[m]
  <2>1. /\ m + 1 \in Nat /\ m + 1 >= n
        /\ f[m + 1] \in [1 .. 6 -> Nat] /\ f[m] \in [1 .. 6 -> Nat]
        /\ Lower(f[m + 1], f[m])
        /\ \A j \in 1 .. i - 1 : f[m + 1][j] = f[m][j]
    BY <1>2 DEF Descends
  <2>2. f[m + 1][i] <= f[m][i]
    BY <2>1, LowerAt
  <2> QED
    BY <2>1, <2>2
<1> HIDE DEF g
<1>3. PICK k \in Nat : k >= n /\ \A m \in Nat : m >= k => g[m] = g[k]
  BY <1>1, <1>2, NeverRising
<1>4. ASSUME NEW m \in Nat, m >= k, NEW j \in 1 .. i
      PROVE  f[m][j] = f[k][j]
  <2>1. CASE j = i
    BY <1>3, <1>4, <2>1 DEF g
  <2>2. CASE j # i
    <3>1. j \in 1 .. i - 1 /\ m >= n
      BY <1>3, <1>4, <2>2
    <3> QED
      BY <1>3, <3>1
  <2> QED
    BY <2>1, <2>2
<1> QED
  BY <1>4

(* The order has no infinite descent: one number after the other comes to  *)
(* rest, and when all do nothing is lower.                                 *)
LEMMA LowerEnds ==
  ASSUME NEW f \in [Nat -> [1 .. 6 -> Nat]], Descends(f)
  PROVE  FALSE
<1> DEFINE Rests(i) ==
             \E k \in Nat : \A m \in Nat : m >= k => \A j \in 1 .. i : f[m][j] = f[k][j]
<1>1. ASSUME NEW i \in 1 .. 6, Rests(i - 1)
      PROVE  Rests(i)
  <2>1. PICK n \in Nat :
          \A m \in Nat : m >= n => \A j \in 1 .. i - 1 : f[m][j] = f[n][j]
    BY <1>1
  <2> QED
    BY <2>1, NextRests
<1>2. Rests(0)
  OBVIOUS
<1> HIDE DEF Rests
<1>4. Rests(1)
  BY <1>1, <1>2
<1>5. Rests(2)
  BY <1>1, <1>4
<1>6. Rests(3)
  BY <1>1, <1>5
<1>7. Rests(4)
  BY <1>1, <1>6
<1>8. Rests(5)
  BY <1>1, <1>7
<1>9. Rests(6)
  BY <1>1, <1>8
<1>10. PICK k \in Nat : \A m \in Nat : m >= k => \A j \in 1 .. 6 : f[m][j] = f[k][j]
  BY <1>9 DEF Rests
<1> DEFINE v == f[k + 1]
           w == f[k]
<1>11. /\ v \in [1 .. 6 -> Nat] /\ w \in [1 .. 6 -> Nat] /\ Lower(v, w)
       /\ \A j \in 1 .. 6 : v[j] = w[j]
  BY <1>10 DEF Descends
<1> HIDE DEF v, w
<1> QED
  BY <1>11, LowerDiffers


(* The numbers of the variant are natural numbers.                         *)
LEMMA UnplacedOK ==
  ASSUME NEW d \in ValueTable
  PROVE  IsFiniteSet(Occupied(d)) /\ Cardinality(Occupied(d)) \in Nat
<1>1. Occupied(d) \in SUBSET (0 .. MaxBucketCount - 1)
  BY DEF ValueTable, Occupied
<1>2. IsFiniteSet(0 .. MaxBucketCount - 1)
  BY SizesAreNat, FS_Interval
<1> QED
  BY <1>1, <1>2, FS_Subset, FS_CardinalityType

LEMMA VariantOK ==
  ASSUME Inv
  PROVE  /\ Stage \in Nat /\ Growable \in Nat /\ LoopAhead \in Nat
         /\ Len(draining) \in Nat /\ Unplaced \in Nat /\ ProbesLeft \in Nat
         /\ Variant \in [1 .. 6 -> Nat]
<1>1. /\ bucket_count \in 0 .. MaxBucketCount /\ new_count \in 0 .. MaxBucketCount
      /\ probe \in Nat /\ draining \in Seq(ValueTable) /\ MaxBucketCount \in Nat
  BY SizesAreNat DEF Inv, TypeOK, TypesOK
<1>2. Stage \in Nat /\ LoopAhead \in Nat
  BY DEF Stage, LoopAhead
<1>3. Growable \in Nat
  BY <1>1 DEF Growable, CountAtWork
<1>4. Unplaced \in Nat
  <2>1. CASE Rehashing
    <3>1. Head(draining) \in ValueTable
      BY <2>1, RehashingFacts
    <3> QED
      BY <2>1, <3>1, UnplacedOK DEF Unplaced
  <2> QED
    BY <2>1 DEF Unplaced
<1>5. ProbesLeft \in Nat
  BY <1>1 DEF ProbesLeft, Max2
<1>6. Len(draining) \in Nat
  BY <1>1
<1> HIDE DEF Stage, Growable, LoopAhead, Unplaced, ProbesLeft
<1> QED
  BY <1>2, <1>3, <1>4, <1>5, <1>6 DEF Variant

(* What it takes to lower the variant.                                     *)
LEMMA LowerWhen ==
  ASSUME NEW v, NEW w
  PROVE  /\ v[1] < w[1] => Lower(v, w)
         /\ v[1] = w[1] /\ v[2] < w[2] => Lower(v, w)
         /\ v[1] = w[1] /\ v[2] = w[2] /\ v[3] < w[3] => Lower(v, w)
         /\ v[1] = w[1] /\ v[2] = w[2] /\ v[3] = w[3] /\ v[4] < w[4] => Lower(v, w)
         /\ v[1] = w[1] /\ v[2] = w[2] /\ v[3] = w[3] /\ v[4] = w[4] /\ v[5] < w[5] =>
              Lower(v, w)
         /\ v[1] = w[1] /\ v[2] = w[2] /\ v[3] = w[3] /\ v[4] = w[4] /\ v[5] = w[5]
              /\ v[6] < w[6] => Lower(v, w)
<1> DEFINE Equal(j) == v[j] = w[j]
           Less(j) == v[j] < w[j]
<1>1. ASSUME NEW i \in 1 .. 6, Less(i), \A j \in 1 .. i - 1 : Equal(j)
      PROVE  Lower(v, w)
  BY <1>1 DEF Lower
<1> HIDE DEF Equal, Less
<1>2. Less(1) => Lower(v, w)
  BY <1>1
<1>3. Equal(1) /\ Less(2) => Lower(v, w)
  BY <1>1
<1>4. Equal(1) /\ Equal(2) /\ Less(3) => Lower(v, w)
  BY <1>1
<1>5. Equal(1) /\ Equal(2) /\ Equal(3) /\ Less(4) => Lower(v, w)
  BY <1>1
<1>6. Equal(1) /\ Equal(2) /\ Equal(3) /\ Equal(4) /\ Less(5) => Lower(v, w)
  BY <1>1
<1>7. Equal(1) /\ Equal(2) /\ Equal(3) /\ Equal(4) /\ Equal(5) /\ Less(6) => Lower(v, w)
  BY <1>1
<1> QED
  BY <1>2, <1>3, <1>4, <1>5, <1>6, <1>7 DEF Equal, Less

LEMMA Lowered ==
  ASSUME \/ Stage' < Stage
         \/ /\ Stage' = Stage
            /\ \/ Growable' < Growable
               \/ /\ Growable' = Growable
                  /\ \/ LoopAhead' < LoopAhead
                     \/ /\ LoopAhead' = LoopAhead
                        /\ \/ Len(draining') < Len(draining)
                           \/ /\ Len(draining') = Len(draining)
                              /\ \/ Unplaced' < Unplaced
                                 \/ Unplaced' = Unplaced /\ ProbesLeft' < ProbesLeft
  PROVE  Lower(Variant', Variant)
<1> DEFINE v == Variant'
           w == Variant
<1>1. /\ v[1] = Stage' /\ v[2] = Growable' /\ v[3] = LoopAhead'
      /\ v[4] = Len(draining') /\ v[5] = Unplaced' /\ v[6] = ProbesLeft'
  BY DEF Variant
<1>2. /\ w[1] = Stage /\ w[2] = Growable /\ w[3] = LoopAhead
      /\ w[4] = Len(draining) /\ w[5] = Unplaced /\ w[6] = ProbesLeft
  BY DEF Variant
<1> HIDE DEF v, w
<1>3. Lower(v, w)
  BY <1>1, <1>2, LowerWhen, Zenon
<1> QED
  BY <1>3 DEF v, w

LEMMA AnswerLowers ==
  ASSUME Working, pc' = "return"
  PROVE  Lower(Variant', Variant)
<1>1. Stage' < Stage
  BY DEF Stage, Working
<1> QED
  BY <1>1, Lowered

LEMMA FindLowers ==
  ASSUME Inv, Find, FindAdvance => probe < bucket_count
  PROVE  Lower(Variant', Variant)
<1>1. pc = "find" /\ Working /\ ~Rehashing /\ Stage = 2 /\ LoopAhead = 4
  BY DEF Find, FindNoBuckets, FindNoArrays, FindHit, FindMiss, FindAdvance, Working,
         Rehashing, Stage, LoopAhead
<1>2. CASE pc' = "return"
  BY <1>1, <1>2, AnswerLowers
<1>3. CASE pc' = "insert" /\ UNCHANGED bucket_count
  <2>1. Stage' = 2 /\ ~Rehashing' /\ LoopAhead' < 4
    BY <1>3 DEF Stage, LoopAhead, Rehashing
  <2>2. Growable' = Growable
    BY <1>1, <1>3, <2>1 DEF Growable, CountAtWork
  <2> QED
    BY <1>1, <2>1, <2>2, Lowered
<1>4. CASE FindAdvance
  <2>1. /\ bucket_count \in Nat /\ probe \in Nat /\ probe < bucket_count
        /\ UNCHANGED <<pc, table, draining>> /\ probe' = WrapProbe(probe + 1)
    BY <1>4, SizesAreNat DEF Inv, TypeOK, TypesOK, FindAdvance, build
  <2>2. probe' = probe + 1
    BY <2>1 DEF WrapProbe
  <2>3. /\ Stage' = Stage /\ Growable' = Growable /\ LoopAhead' = LoopAhead
        /\ Len(draining') = Len(draining) /\ Unplaced' = Unplaced
    BY <1>1, <2>1 DEF table, Stage, Growable, CountAtWork, LoopAhead, Unplaced, Rehashing
  <2>4. ProbesLeft' < ProbesLeft
    BY <1>1, <2>1, <2>2 DEF ProbesLeft, Max2, table
  <2> QED
    BY <2>3, <2>4, Lowered
<1>5. FindAdvance \/ pc' = "return" \/ (pc' = "insert" /\ UNCHANGED bucket_count)
  BY DEF Find, FindNoBuckets, FindNoArrays, FindHit, FindMiss, Absent, Return, ProbeFrom,
         table
<1> QED
  BY <1>2, <1>3, <1>4, <1>5

(* An insertion that rebuilds its table gets more buckets, or as many and  *)
(* is rid of its tombstones.                                               *)
LEMMA RehashLowers ==
  ASSUME Inv, pc = "insert", NEW c \in 0 .. UsizeMax, Rehash(c),
         c > bucket_count \/ (c = bucket_count /\ nb_deleted_buckets > 0)
  PROVE  Lower(Variant', Variant)
<1>1. Working /\ ~Rehashing /\ bucket_count \in 0 .. MaxBucketCount /\ MaxBucketCount \in Nat
  BY SizesAreNat DEF Working, Rehashing, Inv, TypeOK, TypesOK
<1>2. CASE Settle(c) = LengthError
  BY <1>1, <1>2, AnswerLowers DEF Rehash, Return
<1>3. CASE Settle(c) # LengthError
  <2> DEFINE n == Settle(c)
  <2>1. n \in 0 .. MaxBucketCount /\ n >= c
    BY <1>3, SettleOK, SizesAreNat
  <2>2. pc' = "drain" /\ new_count' = n
    BY <1>3 DEF Rehash
  <2> HIDE DEF n
  <2>3. Stage' = Stage /\ Rehashing' /\ LoopAhead' = 2
    BY <2>2 DEF Stage, Rehashing, LoopAhead
  <2>4. Growable = MaxBucketCount - bucket_count /\ Growable' = MaxBucketCount - n
    BY <1>1, <2>2, <2>3 DEF Growable, CountAtWork
  <2>5. c \in Nat
    BY SizesAreNat
  <2>6. CASE n > bucket_count
    <3>1. Growable' < Growable
      BY <1>1, <2>1, <2>4, <2>6
    <3> QED
      BY <2>3, <3>1, Lowered
  <2>7. CASE n = bucket_count /\ nb_deleted_buckets > 0
    <3>1. Growable' = Growable
      BY <2>4, <2>7
    <3>2. LoopAhead = 3
      BY <2>7 DEF LoopAhead, Rehashing
    <3> QED
      BY <2>3, <3>1, <3>2, Lowered
  <2> QED
    BY <1>1, <2>1, <2>5, <2>6, <2>7
<1> QED
  BY <1>2, <1>3

LEMMA GrowLowers ==
  ASSUME Inv, pc = "insert", Grow
  PROVE  Lower(Variant', Variant)
<1>1. CASE PolicyNext(bucket_count) = LengthError
  BY <1>1, AnswerLowers DEF Grow, Return, Working
<1>2. CASE PolicyNext(bucket_count) # LengthError
  <2>1. PolicyNext(bucket_count) \in 0 .. UsizeMax /\ PolicyNext(bucket_count) > bucket_count
    BY <1>2, NextOK DEF Inv, TypeOK, TypesOK
  <2> QED
    BY <1>2, <2>1, RehashLowers DEF Grow
<1> QED
  BY <1>1, <1>2

LEMMA InsertLowers ==
  ASSUME Inv, ThresholdsFresh, Insert
  PROVE  Lower(Variant', Variant)
<1>1. /\ pc = "insert" /\ Working /\ ~Rehashing
      /\ bucket_count \in Nat /\ probe \in Nat /\ nb_elements \in Nat
      /\ nb_deleted_buckets \in Nat /\ max_load_factor \in 1 .. 8
  <2>1. pc = "insert"
    BY DEF Insert, InsertNoArrays, InsertExhausted, InsertHit, InsertAdvance,
           InsertEmpty, Inserting
  <2> QED
    BY <2>1, SizesAreNat DEF Working, Rehashing, Inv, TypeOK, TypesOK
<1>2. CASE pc' = "return"
  BY <1>1, <1>2, AnswerLowers
<1>3. CASE Grow
  BY <1>1, <1>3, GrowLowers
<1>4. CASE InsertAdvance
  <2>1. probe < bucket_count /\ UNCHANGED <<pc, table, draining>> /\ probe' = probe + 1
    BY <1>4 DEF InsertAdvance, Inserting, Advance, build
  <2>2. /\ Stage' = Stage /\ Growable' = Growable /\ LoopAhead' = LoopAhead
        /\ Len(draining') = Len(draining) /\ Unplaced' = Unplaced
    BY <1>1, <2>1 DEF table, Stage, Growable, CountAtWork, LoopAhead, Unplaced, Rehashing
  <2>3. ProbesLeft' < ProbesLeft
    BY <1>1, <2>1 DEF ProbesLeft, Max2, table
  <2> QED
    BY <2>2, <2>3, Lowered
<1>5. CASE /\ nb_elements < load_threshold_rehash
           /\ nb_elements + nb_deleted_buckets >= load_threshold_clear_deleted
           /\ Rehash(bucket_count)
  <2>1. load_threshold_rehash <= load_threshold_clear_deleted /\ load_threshold_rehash \in Nat
        /\ load_threshold_clear_deleted \in Nat
    BY <1>1, CleanupAfterGrowth, ThresholdsOK DEF ThresholdsFresh
  <2>2. nb_deleted_buckets > 0
    BY <1>1, <1>5, <2>1
  <2>3. bucket_count \in 0 .. UsizeMax
    BY SizesAreNat DEF MaxBucketCount, Inv, TypeOK, TypesOK
  <2> QED
    BY <1>1, <1>5, <2>2, <2>3, RehashLowers
<1>6. InsertAdvance \/ pc' = "return" \/ Grow
        \/ /\ nb_elements < load_threshold_rehash
           /\ nb_elements + nb_deleted_buckets >= load_threshold_clear_deleted
           /\ Rehash(bucket_count)
  <2>1. CASE InsertEmpty
    BY <2>1 DEF InsertEmpty, Put, PutAt, Return
  <2> QED
    BY <2>1 DEF Insert, InsertNoArrays, InsertExhausted, InsertHit, PutAt, Return
<1> QED
  BY <1>2, <1>3, <1>4, <1>5, <1>6


LEMMA DrainLowers ==
  ASSUME Inv, Drain
  PROVE  Lower(Variant', Variant)
<1>1. /\ pc = "drain" /\ Rehashing /\ Working /\ Stage = 2 /\ LoopAhead = 2
      /\ CountAtWork = new_count
  BY DEF Drain, DrainNext, SwapIn, SwapNested, Rehashing, Working, Stage, LoopAhead,
         CountAtWork
<1>2. new_count \in Nat /\ draining \in Seq(ValueTable) /\ draining # <<>>
  BY <1>1, RehashingFacts
<1>3. CASE DrainNext
  <2>1. pc' = "place" /\ probe' = 0 /\ UNCHANGED <<draining, new_count>>
    BY <1>3 DEF DrainNext, ProbeFrom, build
  <2>2. /\ Stage' = 2 /\ Rehashing' /\ LoopAhead' = 2 /\ CountAtWork' = new_count
        /\ Unplaced' = Unplaced /\ Len(draining') = Len(draining)
    BY <1>1, <2>1 DEF Stage, Rehashing, LoopAhead, CountAtWork, Unplaced
  <2>3. ProbesLeft' < ProbesLeft
    BY <1>1, <1>2, <2>1 DEF ProbesLeft, Max2
  <2> QED
    BY <1>1, <2>2, <2>3, Lowered DEF Growable
<1>4. CASE SwapIn
  <2>1. CASE req.op \in ResizeOps
    BY <1>1, <1>4, <2>1, AnswerLowers DEF SwapIn, Return
  <2>2. CASE req.op \notin ResizeOps
    <3>1. pc' = "insert" /\ bucket_count' = new_count /\ nb_deleted_buckets' = 0
      BY <1>4, <2>2 DEF SwapIn, ProbeFrom
    <3>2. Stage' = 2 /\ LoopAhead' = 1 /\ CountAtWork' = new_count
      BY <3>1 DEF Stage, Rehashing, LoopAhead, CountAtWork
    <3> QED
      BY <1>1, <3>2, Lowered DEF Growable
  <2> QED
    BY <2>1, <2>2
<1>5. CASE SwapNested
  <2>1. draining' = Tail(draining) /\ UNCHANGED <<pc, new_count>>
    BY <1>5 DEF SwapNested
  <2>2. Stage' = 2 /\ Rehashing' /\ LoopAhead' = 2 /\ CountAtWork' = new_count
    BY <1>1, <2>1 DEF Stage, Rehashing, LoopAhead, CountAtWork
  <2>3. Len(draining') < Len(draining)
    BY <1>2, <2>1
  <2> QED
    BY <1>1, <2>2, <2>3, Lowered DEF Growable
<1> QED
  BY <1>3, <1>4, <1>5 DEF Drain

LEMMA PlaceLowers ==
  ASSUME Inv, Place
  PROVE  Lower(Variant', Variant)
<1>1. /\ pc = "place" /\ Rehashing /\ Working /\ Stage = 2 /\ LoopAhead = 2
      /\ CountAtWork = new_count
  BY DEF Place, PlaceHere, PlaceAdvance, PlaceExhausted, Placing, Rehashing, Working,
         Stage, LoopAhead, CountAtWork
<1>2. /\ new_count \in SettledCounts /\ new_count \in 0 .. MaxBucketCount
      /\ probe \in Nat /\ draining \in Seq(ValueTable) /\ draining # <<>>
      /\ MaxBucketCount \in Nat
  BY <1>1, RehashingFacts, SizesAreNat DEF Inv, TypeOK, TypesOK
<1>3. CASE PlaceHere
  <2> DEFINE d == Head(draining)
             f == First(d)
             e == [d EXCEPT ![f] = Empty]
  <2>1. /\ pc' = "drain" /\ UNCHANGED new_count
        /\ draining' = [draining EXCEPT ![1] = e]
    BY <1>2, <1>3 DEF PlaceHere
  <2>2. /\ d \in ValueTable /\ f \in Occupied(d) /\ IsFiniteSet(Occupied(d))
        /\ Cardinality(Occupied(d)) \in Nat
    <3>1. Occupied(d) # {}
      BY <1>1 DEF Inv, TypeOK, RehashOK
    <3> QED
      BY <1>2, <3>1, InFlightOK, UnplacedOK
  <2> HIDE DEF f
  <2>3. Occupied(e) = Occupied(d) \ {f}
    BY <2>2 DEF ValueTable, Occupied
  <2>4. draining' # <<>> /\ Head(draining') = e /\ Len(draining') = Len(draining)
    BY <1>2, <2>1
  <2>5. Cardinality(Occupied(d) \ {f}) = Cardinality(Occupied(d)) - 1
    BY <2>2, FS_RemoveElement
  <2> HIDE DEF e, d
  <2>6. Stage' = 2 /\ Rehashing' /\ LoopAhead' = 2 /\ CountAtWork' = new_count
    BY <2>1 DEF Stage, Rehashing, LoopAhead, CountAtWork
  <2>7. Unplaced' < Unplaced
    <3>1. Unplaced' = Cardinality(Occupied(e))
      BY <2>4, <2>6 DEF Unplaced
    <3>2. Unplaced = Cardinality(Occupied(d))
      BY <1>1 DEF Unplaced, d
    <3>3. Cardinality(Occupied(e)) = Cardinality(Occupied(d)) - 1
      BY <2>3, <2>5, Zenon
    <3> QED
      BY <2>2, <3>1, <3>2, <3>3
  <2> QED
    BY <1>1, <2>4, <2>6, <2>7, Lowered DEF Growable
<1>4. CASE PlaceAdvance
  <2>1. /\ probe < new_count /\ probe' = probe + 1 /\ UNCHANGED <<pc, draining, new_count>>
    BY <1>4 DEF PlaceAdvance, Placing, Advance, build
  <2>2. /\ Stage' = 2 /\ Rehashing' /\ LoopAhead' = 2 /\ CountAtWork' = new_count
        /\ Unplaced' = Unplaced /\ Len(draining') = Len(draining)
    BY <1>1, <2>1 DEF Stage, Rehashing, LoopAhead, CountAtWork, Unplaced
  <2>3. ProbesLeft' < ProbesLeft
    BY <1>1, <1>2, <2>1 DEF ProbesLeft, Max2
  <2> QED
    BY <1>1, <2>2, <2>3, Lowered DEF Growable
<1>5. CASE PlaceExhausted
  <2> DEFINE c == PolicyNext(new_count)
             next == IF c = LengthError THEN LengthError ELSE Settle(c)
  <2>1. CASE next = LengthError
    BY <1>1, <1>5, <2>1, AnswerLowers DEF PlaceExhausted, LoseArrays, Return
  <2>2. CASE next # LengthError
    <3>1. pc' = "drain" /\ new_count' = next
      BY <1>5, <2>2 DEF PlaceExhausted
    <3>2. /\ c \in 0 .. UsizeMax /\ c > new_count
          /\ next \in 0 .. MaxBucketCount /\ next >= c
      BY <1>2, <2>2, NextOK, SettleOK, SizesAreNat
    <3> HIDE DEF next, c
    <3>3. Stage' = 2 /\ Rehashing' /\ CountAtWork' = next
      BY <3>1 DEF Stage, Rehashing, CountAtWork
    <3>4. c \in Nat
      BY <3>2, SizesAreNat
    <3>5. Growable' < Growable
      BY <1>1, <1>2, <3>2, <3>3, <3>4 DEF Growable
    <3> QED
      BY <1>1, <3>3, <3>5, Lowered
  <2> QED
    BY <2>1, <2>2
<1> QED
  BY <1>3, <1>4, <1>5 DEF Place

LEMMA WholeLowers ==
  ASSUME WholeTable
  PROVE  Lower(Variant', Variant)
<1>1. pc = "whole" /\ pc' \in {"return", "drain"}
  BY DEF WholeTable, Resize, Rehash, Clear, EraseAll, Retain, PopFront, EraseRange,
         SetMaxLoadFactor, Whole, Return
<1>2. Stage' < Stage
  BY <1>1 DEF Stage
<1> QED
  BY <1>2, Lowered

(* Every step inside a call lowers the variant, but for the lookup that    *)
(* has probed bucket_count slots and goes on.                              *)
LEMMA StepLowers ==
  ASSUME Inv, ThresholdsFresh, Step \/ HasherPanics, FindAdvance => probe < bucket_count
  PROVE  Lower(Variant', Variant)
<1>1. CASE Finish
  <2>1. Stage' < Stage
    BY <1>1 DEF Finish, Stage
  <2> QED
    BY <2>1, Lowered
<1>2. CASE HasherPanics
  BY <1>2, AnswerLowers DEF HasherPanics, LoseArrays, Return, Working
<1> QED
  BY <1>1, <1>2, FindLowers, DrainLowers, PlaceLowers, InsertLowers, WholeLowers DEF Step

(* With every growth policy and hash function, every step inside a call    *)
(* lowers the variant, the steps of a lookup only until it has probed      *)
(* bucket_count slots.  The variant is six natural numbers, and LowerEnds  *)
(* has no sequence of those descend for ever: an insertion, with all its   *)
(* growing, cleaning up and starting again, or a rehash cannot loop.       *)
StepsDescend ==
  [][(Step \/ HasherPanics) /\ (FindAdvance => probe < bucket_count) =>
       Lower(Variant', Variant)]_vars

THEOREM InsertionsDescend ==
  Spec => [](Variant \in [1 .. 6 -> Nat]) /\ StepsDescend
<1>1. Inv => Variant \in [1 .. 6 -> Nat]
  BY VariantOK
<1>2. Inv /\ ThresholdsFresh /\ [OpenNext]_vars =>
        ((Step \/ HasherPanics) /\ (FindAdvance => probe < bucket_count) =>
           Lower(Variant', Variant))
  BY StepLowers
<1> QED
  BY <1>1, <1>2, RunIsOpen, InvHolds, FreshHolds, PTL DEF OpenSpec, StepsDescend

(* On power-of-two tables lookups end as well (SearchesStop), so every     *)
(* step of every call descends: no call can go on for ever.                *)
CallsDescend == [][Step \/ HasherPanics => Lower(Variant', Variant)]_vars

THEOREM EveryCallDescends == OnlyPowersOfTwo => (Spec => CallsDescend)
<1> SUFFICES ASSUME OnlyPowersOfTwo
             PROVE  Spec => CallsDescend
  OBVIOUS
<1>1. RoomInv => Inv /\ ThresholdsFresh /\ (FindAdvance => probe < bucket_count)
  BY SearchEnds DEF RoomInv, KeyInv, ProbeInv, SearchesEnd, FindAdvance
<1>2. RoomInv /\ [OpenNext]_vars => (Step \/ HasherPanics => Lower(Variant', Variant))
  BY <1>1, StepLowers
<1> QED
  BY <1>2, RunIsOpen, RoomInvHolds, PTL DEF OpenSpec, CallsDescend
=============================================================================
