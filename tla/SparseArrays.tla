---------------------------- MODULE SparseArrays ----------------------------
(***************************************************************************)
(* The bucket vector of src/sparse_hash.rs as it is stored: sparse arrays  *)
(* of Bits logical indices (SparseArray).                                  *)
(*                                                                         *)
(* The calls that walk over the values (erase_range, remove_nth, retain    *)
(* and the iterators) run one value per step, and the client writes        *)
(* through the references they lend.  The engine's other calls reach the   *)
(* vector one slot at a time.                                              *)
(***************************************************************************)
EXTENDS SparseArray

CONSTANTS
  BucketCount,   (* the bucket count of the table                           *)
  Value,
  Spans,         (* skip and count arguments, and values taken of a scan    *)
  Edits,         (* what a client may write through &mut T: old -> new      *)
  MayPanic,      (* whether the predicate of retain may panic               *)
  Empty, Deleted, Panicked, None

ASSUME SizeAssumption ==
  /\ BucketCount \in Nat /\ Spans \subseteq Nat /\ Edits \subseteq [Value -> Value]
  /\ MayPanic \in BOOLEAN
  /\ Empty \notin Value /\ Deleted \notin Value /\ Empty # Deleted

(* What exponentiation is, for the exponents of RoundUpToPowerOfTwo: the   *)
(* provers know it of numerals only.                                       *)
ASSUME PowerLaw == \A k \in 0 .. BucketCount + Bits : 2 ^ (k + 1) = 2 * 2 ^ k

VARIABLES
  sparse_buckets, nb_elements, nb_deleted_buckets,
  pc, req, answer,   (* the running call and its answer                     *)
  sib, offset, left, (* its cursor, and how many more values it wants       *)
  before             (* history: the flat table the call started on         *)

counters == <<nb_elements, nb_deleted_buckets>>
call == <<pc, req, answer, sib, offset, left, before>>
vars == <<sparse_buckets, counters, call>>

-----------------------------------------------------------------------------
Arrays == 0 .. NbSparseBuckets(BucketCount) - 1

(* The flat table: what has_value, has_deleted_value and value report.     *)

Slots == 0 .. BucketCount - 1

Flat ==
  [i \in Slots |->
     Report(sparse_buckets[SparseBucket(i)], IndexIn(i), Empty, Deleted)]

IsStored(i) == HasValue(sparse_buckets[SparseBucket(i)], IndexIn(i))

Requests ==
  [op : {"erase_range"}, skip : Spans, count : Spans]
    \cup [op : {"remove_nth"}, skip : Spans]
    \cup [op : {"retain"}, keep : SUBSET Value, edit : Edits]
    \cup [op : {"iter"}]
    \cup [op : {"iter_mut"}, take : Spans, edit : Edits]
    \cup [op : {"into_values"}, take : Spans]

Init ==
  /\ sparse_buckets = [s \in Arrays |-> NewArray]
  /\ nb_elements = 0 /\ nb_deleted_buckets = 0
  /\ pc = "idle" /\ req = None /\ answer = None
  /\ sib = 0 /\ offset = 0 /\ left = 0 /\ before = None

-----------------------------------------------------------------------------
(* One slot, as insert_with_hash, get_mut, remove and erase reach it.      *)

Idle == pc = "idle" /\ UNCHANGED call

(* insert_in_bucket, in an empty slot or in a tombstone the probe found.   *)
InsertInBucket ==
  /\ Idle
  /\ \E i \in Slots, v \in Value :
       LET s == SparseBucket(i) IN
       /\ ~IsStored(i)
       /\ sparse_buckets' = [sparse_buckets EXCEPT ![s] = Set(@, IndexIn(i), v)]
       /\ nb_elements' = nb_elements + 1
       /\ nb_deleted_buckets' =
            IF HasDeletedValue(sparse_buckets[s], IndexIn(i))
            THEN nb_deleted_buckets - 1 ELSE nb_deleted_buckets

ValueMut ==
  /\ Idle
  /\ \E i \in Slots, v \in Value :
       LET s == SparseBucket(i)
           off == IndexToOffset(sparse_buckets[s], IndexIn(i))
       IN /\ IsStored(i)
          /\ sparse_buckets' = [sparse_buckets EXCEPT ![s].values[off + 1] = v]
  /\ UNCHANGED counters

(* Mutant: the tombstone is not counted.                                   *)
RemoveUncounted(s, off, index) ==
  /\ sparse_buckets' = [sparse_buckets EXCEPT ![s] = RemoveValue(@, off, index)]
  /\ nb_elements' = nb_elements - 1
  /\ UNCHANGED nb_deleted_buckets

RemoveFrom(s, off, index) ==
  /\ sparse_buckets' = [sparse_buckets EXCEPT ![s] = RemoveValue(@, off, index)]
  /\ nb_elements' = nb_elements - 1
  /\ nb_deleted_buckets' = nb_deleted_buckets + 1

EraseSlot ==
  /\ Idle
  /\ \E i \in Slots :
       LET s == SparseBucket(i) IN
       /\ IsStored(i)
       /\ RemoveFrom(s, IndexToOffset(sparse_buckets[s], IndexIn(i)), IndexIn(i))

Clear ==
  /\ Idle
  /\ sparse_buckets' = [s \in Arrays |-> NewArray]
  /\ nb_elements' = 0 /\ nb_deleted_buckets' = 0

Size(s) == Len(sparse_buckets[s].values)

(* The sum of the sizes: the places of all blocks, counted.                *)
SizeSum == Cardinality(UNION { {s} \X (1 .. Size(s)) : s \in Arrays })

EraseAll ==
  /\ Idle
  /\ sparse_buckets' = [s \in Arrays |-> EraseArray(sparse_buckets[s])]
  /\ nb_deleted_buckets' = nb_deleted_buckets + SizeSum
  /\ nb_elements' = 0

-----------------------------------------------------------------------------
(* Positions.  End stands for the None of the code.                        *)

End == NbSparseBuckets(BucketCount)

(* Mutant: empty arrays are not passed over.                               *)
FirstArray(from) == from

FirstNonEmpty(from) ==
  CHOOSE n \in from .. End :
    /\ n = End \/ Size(n) > 0
    /\ \A m \in from .. n - 1 : Size(m) = 0

MoveTo(s, off) == sib' = s /\ offset' = off

(* first_position and next_position.                                       *)
ToFirst == MoveTo(FirstNonEmpty(0), 0)
ToNext ==
  IF offset + 1 < Size(sib) THEN MoveTo(sib, offset + 1)
  ELSE MoveTo(FirstNonEmpty(sib + 1), 0)

Return(a) ==
  /\ pc' = "return" /\ answer' = a
  /\ sib' = 0 /\ offset' = 0 /\ left' = 0 /\ before' = None
  /\ UNCHANGED req

Call ==
  /\ pc = "idle"
  /\ req' \in Requests
  /\ before' = Flat
  /\ CASE req'.op = "retain" -> pc' = "retain" /\ MoveTo(0, 0) /\ left' = 0
       [] req'.op \in {"iter_mut", "into_values"} ->
            pc' = "scan" /\ MoveTo(0, 0) /\ left' = req'.take
       [] req'.op = "iter" -> pc' = "iter" /\ ToFirst /\ left' = 0
       [] req'.op = "remove_nth" -> pc' = "skip" /\ ToFirst /\ left' = req'.skip
       [] OTHER -> pc' = "start" /\ UNCHANGED <<sib, offset, left>>
  /\ answer' = IF req'.op \in {"iter", "into_values"} THEN <<>> ELSE None
  /\ UNCHANGED <<sparse_buckets, counters>>

Finish ==
  /\ pc = "return" /\ pc' = "idle"
  /\ req' = None /\ answer' = None
  /\ UNCHANGED <<sparse_buckets, counters, sib, offset, left, before>>

Kept == UNCHANGED <<sparse_buckets, counters, req, before>>

(* erase_range: a range of no values returns at once.                      *)
EmptyRange ==
  /\ pc = "start" /\ req.count = 0 /\ Return(None)
  /\ UNCHANGED <<sparse_buckets, counters>>

StartRange ==
  /\ pc = "start" /\ req.count > 0
  /\ pc' = "skip" /\ ToFirst /\ left' = req.skip
  /\ UNCHANGED answer /\ Kept

(* The cursor of remove_nth and erase_range goes to position skip.         *)
SkipEnds ==
  /\ pc = "skip" /\ sib = End /\ Return(None)
  /\ UNCHANGED <<sparse_buckets, counters>>

SkipOne ==
  /\ pc = "skip" /\ sib # End /\ left > 0
  /\ ToNext /\ left' = left - 1
  /\ UNCHANGED <<pc, answer>> /\ Kept

(* Remove the value under the cursor, and return it or keep erasing.       *)
RemoveHere ==
  /\ pc = "skip" /\ sib # End /\ left = 0 /\ req.op = "remove_nth"
  /\ LET a == sparse_buckets[sib] IN
       /\ RemoveFrom(sib, offset, OffsetToIndex(a, offset))
       /\ Return(Dense(a, offset))

StartErase ==
  /\ pc = "skip" /\ sib # End /\ left = 0 /\ req.op = "erase_range"
  /\ pc' = "erase" /\ left' = req.count
  /\ UNCHANGED <<answer, sib, offset>> /\ Kept

(* Mutant: the cursor moves on although the tail has moved down to it.     *)
EraseHereAndAdvance ==
  /\ pc = "erase" /\ left > 0 /\ offset < Size(sib)
  /\ RemoveFrom(sib, offset, OffsetToIndex(sparse_buckets[sib], offset))
  /\ left' = left - 1 /\ offset' = offset + 1
  /\ UNCHANGED <<pc, req, answer, sib, before>>

(* The tail of the array has moved down to the cursor.                     *)
EraseHere ==
  /\ pc = "erase" /\ left > 0 /\ offset < Size(sib)
  /\ RemoveFrom(sib, offset, OffsetToIndex(sparse_buckets[sib], offset))
  /\ left' = left - 1
  /\ UNCHANGED <<pc, req, answer, sib, offset, before>>

EraseNextArray ==
  /\ pc = "erase" /\ left > 0 /\ offset >= Size(sib)
  /\ FirstNonEmpty(sib + 1) # End /\ MoveTo(FirstNonEmpty(sib + 1), 0)
  /\ UNCHANGED <<pc, answer, left>> /\ Kept

EraseEnds ==
  /\ pc = "erase"
  /\ left = 0 \/ (offset >= Size(sib) /\ FirstNonEmpty(sib + 1) = End)
  /\ Return(None)
  /\ UNCHANGED <<sparse_buckets, counters>>

WithValue(s, off, v) == [sparse_buckets EXCEPT ![s].values[off + 1] = v]

(* Mutant: the scan stays on a value it keeps.                             *)
RetainHereStuck ==
  /\ pc = "retain" /\ sib # End /\ offset < Size(sib)
  /\ LET v == Dense(sparse_buckets[sib], offset) IN
       IF v \in req.keep
       THEN sparse_buckets' = WithValue(sib, offset, req.edit[v]) /\ UNCHANGED counters
       ELSE RemoveFrom(sib, offset, OffsetToIndex(sparse_buckets[sib], offset))
  /\ UNCHANGED <<pc, req, answer, sib, offset, left, before>>

(* The predicate writes through the &mut it is given, then decides.        *)
RetainHere ==
  /\ pc = "retain" /\ sib # End /\ offset < Size(sib)
  /\ LET v == Dense(sparse_buckets[sib], offset) IN
       IF v \in req.keep
       THEN /\ sparse_buckets' = WithValue(sib, offset, req.edit[v])
            /\ offset' = offset + 1
            /\ UNCHANGED counters
       ELSE /\ RemoveFrom(sib, offset, OffsetToIndex(sparse_buckets[sib], offset))
            /\ UNCHANGED offset
  /\ UNCHANGED <<pc, req, answer, sib, left, before>>

RetainNextArray ==
  /\ pc = "retain" /\ sib # End /\ offset >= Size(sib)
  /\ MoveTo(sib + 1, 0)
  /\ UNCHANGED <<pc, answer, left>> /\ Kept

(* ... or panics, before or after it has written.                          *)
RetainPanics ==
  /\ MayPanic
  /\ pc = "retain" /\ sib # End /\ offset < Size(sib)
  /\ LET v == Dense(sparse_buckets[sib], offset) IN
       \E w \in {v, req.edit[v]} : sparse_buckets' = WithValue(sib, offset, w)
  /\ Return(Panicked)
  /\ UNCHANGED counters

RetainEnds ==
  /\ pc = "retain" /\ sib = End /\ Return(None)
  /\ UNCHANGED <<sparse_buckets, counters>>

(* Iter::next                                                              *)
IterNext ==
  /\ pc = "iter" /\ sib # End
  /\ answer' = Append(answer, Dense(sparse_buckets[sib], offset))
  /\ ToNext
  /\ UNCHANGED <<pc, left>> /\ Kept

IterEnds ==
  /\ pc = "iter" /\ sib = End /\ Return(answer)
  /\ UNCHANGED <<sparse_buckets, counters>>

(* IterMut::next and IntoIter::next: the block of one array after another. *)
(* The client may drop the iterator after any number of values.            *)
Scanning == pc = "scan" /\ left > 0 /\ sib # End

ScanHere ==
  /\ Scanning /\ offset < Size(sib)
  /\ left' = left - 1 /\ offset' = offset + 1
  /\ LET v == Dense(sparse_buckets[sib], offset) IN
       IF req.op = "iter_mut"
       THEN /\ sparse_buckets' = WithValue(sib, offset, req.edit[v])
            /\ UNCHANGED answer
       ELSE answer' = Append(answer, v) /\ UNCHANGED sparse_buckets
  /\ UNCHANGED <<counters, pc, req, sib, before>>

ScanNextArray ==
  /\ Scanning /\ offset >= Size(sib)
  /\ MoveTo(sib + 1, 0)
  /\ UNCHANGED <<pc, answer, left>> /\ Kept

(* into_values has consumed the table; the client's next one is new.       *)
ScanEnds ==
  /\ pc = "scan" /\ (left = 0 \/ sib = End)
  /\ IF req.op = "iter_mut"
     THEN UNCHANGED <<sparse_buckets, counters>>
     ELSE /\ sparse_buckets' = [s \in Arrays |-> NewArray]
          /\ nb_elements' = 0 /\ nb_deleted_buckets' = 0
  /\ Return(answer)

-----------------------------------------------------------------------------
OneSlot == InsertInBucket \/ ValueMut \/ EraseSlot \/ Clear \/ EraseAll
Walk ==
  \/ EmptyRange \/ StartRange \/ SkipEnds \/ SkipOne \/ RemoveHere
  \/ StartErase \/ EraseHere \/ EraseNextArray \/ EraseEnds
  \/ RetainHere \/ RetainNextArray \/ RetainEnds \/ IterNext \/ IterEnds
  \/ ScanHere \/ ScanNextArray \/ ScanEnds

Next == OneSlot \/ Call \/ Walk \/ RetainPanics \/ Finish

Spec == Init /\ [][Next]_vars

(* A walk goes on; nothing makes the predicate panic.                      *)
FairSpec == Spec /\ WF_vars(Walk \/ Finish)

-----------------------------------------------------------------------------
(* Properties *)

TypeOK ==
  /\ sparse_buckets \in
       [Arrays -> [values : Seq(Value), bitmap_vals : SUBSET (0 .. Bits - 1),
                   bitmap_deleted_vals : SUBSET (0 .. Bits - 1)]]
  /\ nb_elements \in Nat /\ nb_deleted_buckets \in Nat
  /\ pc \in {"idle", "start", "skip", "erase", "retain", "iter", "scan", "return"}
  /\ req \in Requests \cup {None}
  /\ sib \in 0 .. End /\ offset \in 0 .. Bits /\ left \in Nat

(* Every array is packed: as many dense values as bits, no slot both a     *)
(* value and a tombstone, and nothing in the slots that pad the last       *)
(* arrays beyond the bucket count.                                         *)
Packed ==
  \A s \in Arrays :
    LET a == sparse_buckets[s] IN
    /\ Len(a.values) = Cardinality(a.bitmap_vals)
    /\ a.bitmap_vals \cap a.bitmap_deleted_vals = {}
    /\ \A b \in a.bitmap_vals \cup a.bitmap_deleted_vals :
         s * Bits + b < BucketCount

(* The engine's counters count the bits, also in the middle of a walk.     *)
CountersAgree ==
  /\ nb_elements = Cardinality({ i \in Slots : Flat[i] \in Value })
  /\ nb_deleted_buckets = Cardinality({ i \in Slots : Flat[i] = Deleted })

(* The cursor of a walk is on a value whenever the walk reads or removes   *)
(* one, although the removals of the walk itself move the values about.    *)
CursorOnValue ==
  /\ pc \in {"skip", "iter"} /\ sib # End => offset < Size(sib)
  /\ pc \in {"erase", "retain"} /\ sib # End => offset <= Size(sib)

(* A walk ends.                                                            *)
WalkReturns == pc # "idle" ~> pc = "idle"

(* The vector implements the flat table the engine is modelled with.       *)
Table == INSTANCE FlatTable WITH
  SlotCount <- BucketCount,
  slots <- IF pc \in {"idle", "return"} THEN Flat ELSE before,
  phase <- CASE pc = "idle" -> "idle" [] pc = "return" -> "done" [] OTHER -> "working",
  answer <- IF pc \in {"iter", "scan"} THEN None ELSE answer
IsFlatTable == Table!FlatSpec
=============================================================================
