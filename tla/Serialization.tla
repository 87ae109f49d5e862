---------------------------- MODULE Serialization ----------------------------
(***************************************************************************)
(* Writing a table to a file and reading it back in a later process, as    *)
(* serialize and deserialize of src/sparse_hash.rs do, in both modes.      *)
(*                                                                         *)
(* The process that writes the file ends, and nothing but the file is left *)
(* of its table.  A hash-compatible read restores the arrays in one step,  *)
(* or refuses the file; the other mode inserts the values one by one with  *)
(* the engine's own steps.  The storage may change one field in between.   *)
(* The Serializer and Deserializer are the user's: a file is a record of   *)
(* what was written, and an array of it is a sparse array with its size.   *)
(***************************************************************************)
EXTENDS SparseHash, SparseArray

CONSTANTS
  DefaultLoad,   (* DEFAULT_MAX_LOAD_FACTOR, in tenths                      *)
  ForeignFiles   (* files of writers with another hasher or policy          *)

ASSUME LoadAssumption == DefaultLoad \in 1 .. 8

(* P::new(0) settles on no buckets, whatever the policy.                   *)
ASSUME NoBucketsAssumption == PolicyNew(0) = 0

(* Arithmetic, for the proofs: what 2 ^ k is.                              *)
ASSUME PowerLaw ==
  \A k \in 0 .. MaxBucketCount + Bits - 1 : 2 ^ (k + 1) = 2 * 2 ^ k

VARIABLES
  stage,    (* "running" a table, "stored" in a file, "reserving" and      *)
            (* "reading" with rehashing, "read"                           *)
  file,     (* the file, or None                                          *)
  origin,   (* "own", "foreign", "damaged_header" or "damaged_array"      *)
  verdict,  (* how the last read of it ended                              *)
  unread    (* the values a rehashing read of it has yet to insert        *)

storage == <<stage, file, origin, verdict, unread>>
allVars == <<vars, storage>>

Version == 1
Damaged == origin \in {"damaged_header", "damaged_array"}

-----------------------------------------------------------------------------
(* serialize *)

InArray(s) == { b \in 0 .. Bits - 1 : s * Bits + b < bucket_count }
CellOf(s, b) == sparse_buckets[s * Bits + b]

WrittenArray(s) ==
  LET vals == { b \in InArray(s) : CellOf(s, b) \notin {Empty, Deleted} }
      gone == { b \in InArray(s) : CellOf(s, b) = Deleted }
      bare == FromParts(vals, gone, <<>>)
      packed == [p \in 1 .. Cardinality(vals) |->
                   CellOf(s, OffsetToIndex(bare, p - 1))]
  IN [size |-> Cardinality(vals), array |-> FromParts(vals, gone, packed)]

ArrayCount ==
  IF sparse_buckets = NoArrays THEN 0 ELSE NbSparseBuckets(bucket_count)

Written ==
  [version |-> Version, bucket_count |-> bucket_count, nb_sparse |-> ArrayCount,
   nb_elements |-> nb_elements, nb_deleted |-> nb_deleted_buckets,
   load |-> max_load_factor,
   arrays |-> [s \in 1 .. ArrayCount |-> WrittenArray(s - 1)]]

FileValues(f) ==
  FlattenSeq([s \in DOMAIN f.arrays |-> f.arrays[s].array.values])
FileEntries(f) == { FileValues(f)[p] : p \in DOMAIN FileValues(f) }

(* The files of other writers hold every key once, too, and count their    *)
(* values.                                                                 *)
ASSUME ForeignAssumption ==
  \A f \in ForeignFiles :
    /\ f.arrays \in Seq([size : Nat,
                         array : [values : Seq(Pair), bitmap_vals : SUBSET (0 .. Bits - 1),
                                  bitmap_deleted_vals : SUBSET (0 .. Bits - 1)]])
    /\ f.nb_sparse = Len(f.arrays) /\ f.nb_elements = Len(FileValues(f))
    /\ f.load \in Nat
    /\ \A p, q \in DOMAIN FileValues(f) :
         FileValues(f)[p][1] = FileValues(f)[q][1] => p = q

(* SparseHash::new(0, ...): the table a rehashing read starts from.  It    *)
(* also stands for the table a process without one does not have.          *)
NewTable ==
  /\ sparse_buckets' = NoArrays /\ bucket_count' = 0
  /\ nb_elements' = 0 /\ nb_deleted_buckets' = 0
  /\ max_load_factor' = DefaultLoad
  /\ load_threshold_rehash' = 0 /\ load_threshold_clear_deleted' = 0
  /\ UNCHANGED <<pc, req, res, cursor, build>>

Save ==
  /\ stage = "running" /\ pc = "idle"
  /\ stage' = "stored" /\ file' = Written /\ origin' = "own"
  /\ NewTable
  /\ UNCHANGED <<verdict, unread>>

-----------------------------------------------------------------------------
(* Damage to one field.                                                    *)

OffByOne(n) == { m \in {n - 1, n + 1} : m >= 0 }

(* One or two bits of a bitmap have changed.                               *)
Flipped(bits) ==
  { (bits \ {b, c}) \cup ({b, c} \ bits) : b, c \in 0 .. Bits - 1 }

DamagedArrays(written) ==
  { [written EXCEPT !.size = n] : n \in OffByOne(written.size) }
    \cup { [written EXCEPT !.array.bitmap_vals = bits] :
             bits \in Flipped(written.array.bitmap_vals) }
    \cup { [written EXCEPT !.array.bitmap_deleted_vals = bits] :
             bits \in Flipped(written.array.bitmap_deleted_vals) }

DamagedHeaders(f) ==
  { [f EXCEPT !.version = n] : n \in OffByOne(f.version) }
    \cup { [f EXCEPT !.bucket_count = n] : n \in OffByOne(f.bucket_count) }
    \cup { [f EXCEPT !.nb_sparse = n] : n \in OffByOne(f.nb_sparse) }
    \cup { [f EXCEPT !.nb_elements = n] : n \in OffByOne(f.nb_elements) }
    \cup { [f EXCEPT !.nb_deleted = n] : n \in OffByOne(f.nb_deleted) }

Damage ==
  /\ stage = "stored" /\ origin = "own" /\ verdict = None
  /\ \/ origin' = "damaged_header" /\ file' \in DamagedHeaders(file)
     \/ /\ origin' = "damaged_array"
        /\ \E s \in DOMAIN file.arrays :
             \E written \in DamagedArrays(file.arrays[s]) \ {file.arrays[s]} :
               file' = [file EXCEPT !.arrays[s] = written]
  /\ UNCHANGED <<vars, stage, verdict, unread>>

-----------------------------------------------------------------------------
(* deserialize with hash_compatible = false                                *)

(* The bitmaps are skipped.  What a stream with wrong lengths yields is up *)
(* to the Deserializer; such a read is left out.                           *)
Readable == origin # "damaged_array" /\ file.nb_sparse = Len(file.arrays)

Refuse ==
  /\ stage' = "stored" /\ verdict' = "refused" /\ unread' = <<>>
  /\ NewTable
  /\ UNCHANGED <<file, origin>>

RefuseVersion ==
  stage = "stored" /\ file.version # Version /\ Refuse

(* Mutant: the values of the last array are not read.                      *)
StartRehashingShort ==
  /\ stage = "stored" /\ file.version = Version /\ Readable
  /\ stage' = "reserving" /\ verdict' = None
  /\ max_load_factor' = Clamp(file.load)
  /\ unread' = FlattenSeq([s \in 1 .. file.nb_sparse - 1 |->
                                file.arrays[s].array.values])
  /\ UNCHANGED <<table, load_threshold_rehash, load_threshold_clear_deleted, pc,
                 req, res, cursor, build, file, origin>>

(* set_max_load_factor on the new table of no buckets.                     *)
StartRehashing ==
  /\ stage = "stored" /\ file.version = Version /\ Readable
  /\ stage' = "reserving" /\ verdict' = None
  /\ max_load_factor' = Clamp(file.load)
  /\ unread' = FileValues(file)
  /\ UNCHANGED <<table, load_threshold_rehash, load_threshold_clear_deleted, pc,
                 req, res, cursor, build, file, origin>>

CanReserve(count) == Settle(BucketsFor(count)) # LengthError

RefuseReserve ==
  stage = "reserving" /\ ~CanReserve(file.nb_elements) /\ Refuse

(* Mutant: the reservation is left out.                                    *)
ReserveNothing ==
  /\ stage = "reserving" /\ CanReserve(file.nb_elements)
  /\ stage' = "reading"
  /\ UNCHANGED <<vars, file, origin, verdict, unread>>

(* The engine's reserve, whatever a client may ask of it.                  *)
ReserveForFile ==
  /\ stage = "reserving" /\ CanReserve(file.nb_elements)
  /\ stage' = "reading"
  /\ StartOnWhole([op |-> "reserve", count |-> file.nb_elements])
  /\ UNCHANGED <<file, origin, verdict, unread>>

(* Mutant: the values are read again and again.                            *)
InsertSameValue ==
  /\ stage = "reading" /\ unread # <<>>
  /\ StartOnKey([op |-> "insert", key |-> Head(unread)[1], val |-> Head(unread)[2]])
  /\ UNCHANGED storage

InsertFromFile ==
  /\ stage = "reading" /\ unread # <<>>
  /\ StartOnKey([op |-> "insert", key |-> Head(unread)[1], val |-> Head(unread)[2]])
  /\ unread' = Tail(unread)
  /\ UNCHANGED <<stage, file, origin, verdict>>

FinishRehashing ==
  /\ stage = "reading" /\ pc = "idle" /\ unread = <<>>
  /\ stage' = "read" /\ verdict' = "rehashed"
  /\ UNCHANGED <<vars, file, origin, unread>>

(* The read unwinds, and the file is still there.                          *)
ReadPanics ==
  /\ stage = "reading" /\ pc = "return" /\ res = Panicked
  /\ stage' = "stored" /\ verdict' = Panicked /\ unread' = <<>>
  /\ sparse_buckets' = NoArrays /\ bucket_count' = 0
  /\ nb_elements' = 0 /\ nb_deleted_buckets' = 0
  /\ max_load_factor' = DefaultLoad
  /\ load_threshold_rehash' = 0 /\ load_threshold_clear_deleted' = 0
  /\ pc' = "idle" /\ req' = None /\ res' = None
  /\ UNCHANGED <<cursor, build, file, origin>>

-----------------------------------------------------------------------------
(* deserialize with hash_compatible = true                                 *)

PresentCount(f) == FoldLeft(LAMBDA total, w : total + w.size, 0, f.arrays)
DeletedCount(f) ==
  FoldLeft(LAMBDA total, w : total + Cardinality(w.array.bitmap_deleted_vals),
           0, f.arrays)

(* Mutant: a slot may be both present and a tombstone.                     *)
ArrayUnchecked(written) ==
  written.size <= Bits /\ Cardinality(written.array.bitmap_vals) = written.size

ArrayAccepted(written) ==
  /\ written.size <= Bits
  /\ Cardinality(written.array.bitmap_vals) = written.size
  /\ written.array.bitmap_vals \cap written.array.bitmap_deleted_vals = {}

(* Mutant: the header's tombstone count is believed.                       *)
CountsHalfChecked(f) == f.nb_elements = PresentCount(f)

CountsAccepted(f) ==
  /\ f.nb_elements = PresentCount(f)
  /\ f.nb_deleted = DeletedCount(f)

(* load_factor() > max_load_factor()                                       *)
Overloaded(f) == 10 * f.nb_elements > f.bucket_count * Clamp(f.load)

(* A file without all the arrays it announces gives no table: what its end *)
(* reads as is up to the Deserializer.                                     *)
FastAccepts(f) ==
  /\ f.version = Version
  /\ Settle(f.bucket_count) = f.bucket_count
  /\ f.nb_sparse = NbSparseBuckets(f.bucket_count) /\ f.nb_sparse <= Len(f.arrays)
  /\ \A s \in DOMAIN f.arrays : ArrayAccepted(f.arrays[s])
  /\ CountsAccepted(f)
  /\ ~Overloaded(f)

(* Mutant: the table keeps the load factor it was made with.               *)
FastReadByDefault ==
  /\ stage = "stored" /\ origin # "foreign" /\ FastAccepts(file)
  /\ stage' = "read" /\ verdict' = "restored"
  /\ bucket_count' = file.bucket_count
  /\ sparse_buckets' =
       [i \in 0 .. file.bucket_count - 1 |->
          Report(file.arrays[SparseBucket(i) + 1].array, IndexIn(i),
                    Empty, Deleted)]
  /\ nb_elements' = file.nb_elements /\ nb_deleted_buckets' = file.nb_deleted
  /\ max_load_factor' = DefaultLoad
  /\ UNCHANGED <<load_threshold_rehash, load_threshold_clear_deleted>>
  /\ UNCHANGED <<pc, req, res, cursor, build, file, origin, unread>>

FastRead ==
  /\ stage = "stored" /\ origin # "foreign" /\ FastAccepts(file)
  /\ stage' = "read" /\ verdict' = "restored"
  /\ bucket_count' = file.bucket_count
  /\ sparse_buckets' =
       [i \in 0 .. file.bucket_count - 1 |->
          Report(file.arrays[SparseBucket(i) + 1].array, IndexIn(i),
                    Empty, Deleted)]
  /\ nb_elements' = file.nb_elements /\ nb_deleted_buckets' = file.nb_deleted
  /\ max_load_factor' = Clamp(file.load)
  /\ load_threshold_rehash' = ThresholdRehash(file.bucket_count, Clamp(file.load))
  /\ load_threshold_clear_deleted' =
       ThresholdClear(file.bucket_count, Clamp(file.load))
  /\ UNCHANGED <<pc, req, res, cursor, build, file, origin, unread>>

FastRefuse ==
  stage = "stored" /\ origin # "foreign" /\ ~FastAccepts(file) /\ Refuse

-----------------------------------------------------------------------------
(* The process goes on with the table it has read; one that knows of the   *)
(* damage would not.                                                       *)
Open ==
  /\ stage = "read" /\ ~Damaged
  /\ stage' = "running" /\ file' = None /\ origin' = "own" /\ verdict' = None
  /\ UNCHANGED <<vars, unread>>

Discard ==
  /\ stage = "read" /\ Damaged
  /\ stage' = "stored" /\ NewTable
  /\ UNCHANGED <<file, origin, verdict, unread>>

StorageInit ==
  /\ verdict = None /\ unread = <<>>
  /\ \/ Init /\ stage = "running" /\ file = None /\ origin = "own"
     \/ /\ stage = "stored" /\ file \in ForeignFiles /\ origin = "foreign"
        /\ sparse_buckets = NoArrays /\ bucket_count = 0
        /\ nb_elements = 0 /\ nb_deleted_buckets = 0
        /\ max_load_factor = DefaultLoad
        /\ load_threshold_rehash = 0 /\ load_threshold_clear_deleted = 0
        /\ pc = "idle" /\ req = None /\ res = None
        /\ ibucket = 0 /\ probe = 0 /\ found_deleted = None
        /\ draining = <<>> /\ new_buckets = NoArrays
        /\ new_count = 0 /\ new_elements = 0

Client == stage = "running" /\ (CallOnKey \/ CallOnWhole) /\ UNCHANGED storage

Engine ==
  /\ stage \in {"running", "reading"}
  /\ ~ (stage = "reading" /\ res = Panicked)
  /\ Step
  /\ UNCHANGED storage

EnginePanics ==
  stage \in {"running", "reading"} /\ HasherPanics /\ UNCHANGED storage

Reading ==
  \/ RefuseReserve \/ ReserveForFile \/ InsertFromFile \/ FinishRehashing
  \/ ReadPanics

StorageNext ==
  \/ Client \/ Engine \/ EnginePanics \/ Save \/ Damage
  \/ RefuseVersion \/ StartRehashing \/ Reading \/ FastRead \/ FastRefuse
  \/ Open \/ Discard

StorageSpec == StorageInit /\ [][StorageNext]_allVars

(* A read that has started goes on.                                        *)
FairStorageSpec == StorageSpec /\ WF_allVars(Engine \/ Reading)

-----------------------------------------------------------------------------
(* Properties *)

(* Across any number of files, with either mode of reading, a refused file *)
(* and a panic while reading included, the container is one and the same   *)
(* map.  A panic in the process that wrote it may have emptied it before.  *)
Held == IF stage = "running" THEN Entries ELSE FileEntries(file)
Stored == INSTANCE AbstractMap WITH
  entries <- Held,
  phase <- IF stage = "running" THEN Phase ELSE "idle",
  req <- IF stage = "running" THEN req ELSE None,
  res <- IF stage = "running" THEN res ELSE None
Persists == [][Stored!Next]_(Stored!mapVars)

(* The table a read gives is in order: lookups find every value, and the   *)
(* counters, thresholds and load factor are those of its contents and of   *)
(* the file.                                                               *)
ReadBackWhole ==
  stage = "read" /\ ~Damaged =>
    /\ EveryValueFindable /\ CountersAgree /\ ThresholdsFresh
    /\ nb_elements = Len(FileValues(file)) /\ max_load_factor = Clamp(file.load)

(* The file's counts are "independent fields" (sparse_hash.rs): a restored *)
(* table has a dense value for every value bit, no slot of two kinds, an   *)
(* array for every slot and counters that count, whatever single field of  *)
(* the file was changed; a changed count never goes unnoticed.             *)
DamageCaught ==
  stage = "read" /\ verdict = "restored" =>
    /\ \A s \in DOMAIN file.arrays :
         LET array == file.arrays[s].array IN
         /\ Len(array.values) = Cardinality(array.bitmap_vals)
         /\ array.bitmap_vals \cap array.bitmap_deleted_vals = {}
    /\ \A i \in 0 .. bucket_count - 1 : SparseBucket(i) + 1 \in DOMAIN file.arrays
    /\ nb_elements = Len(FileValues(file))
    /\ nb_deleted_buckets = DeletedCount(file)

(* reserve has made room for every value of the file, in whatever order    *)
(* they come: while it is read the table is rebuilt only when a probe path *)
(* is exhausted, never at a threshold.                                     *)
ReadWithoutGrowth ==
  [][stage = "reading" /\ ~Damaged /\ pc = "insert" /\ pc' = "drain" =>
       probe >= bucket_count]_allVars

(* A rehashing read comes to an end.                                       *)
ReadReturns == stage \in {"reserving", "reading"} ~> stage \in {"read", "stored"}

(* "Read a table written by serialize", which "requires the same hasher    *)
(* and policy that wrote the file" (sparse_hash.rs): that is enough.       *)
OwnFileAccepted ==
  stage = "stored" /\ origin = "own" => file.nb_sparse = 0 \/ FastAccepts(file)
=============================================================================
