# A TLA+ model of sparse-hash-map

This directory holds TLA+ modules that model the open-addressing hash map and
set of this repository, the TLC configurations that check them on small
instances, and proofs that TLAPS checks for every value of the constants: of the
safety invariants of the engine, of `extend` and `eq`, of the growth chain, of the
sparse arrays, of the words and shifts they are made of and of serialization, and
that engine, compound operations, arrays, words and containers in files implement their
abstract specifications. All safety properties that the passing runs check are proved,
and of the engine's calls that their steps descend.

Everything is translated from `src/src/`. Line numbers below refer to the files
there; `PROJECT.json` gives, for each definition, the lines it stands for.

## 1. The system

The crate is sequential: one container, one owner, `&mut self` for every
operation that changes it. What makes it hard is not concurrency but the number
of steps a call takes, the state it reads early and uses late, and what a panic
in user code leaves behind.

| Component | Files | State | Operations |
|---|---|---|---|
| Hash table engine | `sparse_hash.rs` | `sparse_buckets`, `bucket_count`, `nb_elements`, `nb_deleted_buckets`, two cached thresholds, `max_load_factor`, the policy value | lookup, insert, erase, growth, tombstone cleanup, `rehash`, `reserve`, `clear`, `erase_all`, `retain`, `remove_nth`, `erase_range`, `set_max_load_factor`, iteration, serialization |
| Load factor arithmetic | `sparse_hash.rs` 157-178, 605-624 | none: `f32` expressions over the engine's fields | `set_max_load_factor`, `load_factor`, `rehash`, `reserve` |
| Sparse arrays | `sparse_array.rs` | per 64 slots: a bitmap of values, a bitmap of tombstones, the values packed in index order, the capacity of their block | `set`, `remove_value`, `erase_all`, index/offset conversion, `from_parts` |
| Growth policies | `growth_policy.rs`, `util.rs` | one number (`mask`, `modulo`, `iprime`) | `new`, `bucket_for_hash`, `next_bucket_count`, `max_bucket_count` |
| Map and set API | `map.rs`, `set.rs` | the engine | thin calls into the engine; `try_emplace`, `try_insert`, `insert_or_assign` and `entry_or_default` look the key up first and insert when it is absent; `extend` reserves and then inserts one by one; `eq` iterates one container and looks its entries up in the other |
| Iterators | `sparse_hash.rs`, wrappers | a position, or the rest of the arrays | `next` of the shared, the mutable and the consuming iterator |
| Serialization | `serialize.rs`, `sparse_hash.rs` 806-1000 | a file | write; read with re-hashing; read as stored, with its checks |
| Hashers, comparators | `hasher.rs` | none | user code |
| Popcount, sparsity, aliases | `popcount.rs`, `sparsity.rs`, `lib.rs` | none | |

**How they interact.** The API hashes the key with the user's hasher and calls
the engine. The engine asks its policy for the first slot and computes the
following ones itself (`next_bucket`). It reads and writes slots through the
sparse arrays. When an insertion meets an empty slot it compares its counters
with the cached thresholds and may rebuild the table with a count it gets from
the policy; the rebuild hashes every value again, so user code runs in the
middle of it. `extend`, `eq` and a re-hashing read are loops of such calls. What
`serialize` writes outlives the process and may come back altered.

**What is hard, and what makes each part correct.**

- *Probing.* The triangular probe covers a power-of-two table and only part of
  any other. A lookup must not stop before a value it is to find, and must stop.
- *Tombstones.* Insertion remembers the first one and goes on, to learn whether
  the key exists. Reuse must keep keys unique and both counters right.
- *Growth.* Thresholds are cached, checked only at an empty slot, and the loop
  starts over after every rebuild. It has to end.
- *Rebuild.* The arrays are moved out of `self` first. A panic loses them. In the
  new table a probe path may be exhausted as well, and the rebuild then nests.
- *Walks.* `retain`, `erase_range` and `remove_nth` remove values from dense
  blocks that shift under their cursor.
- *Numbers.* `f32` rounding of thresholds and reservations, two ceilings on the
  bucket count, arrays with slots beyond the bucket count, shifts at the ends of a
  word.
- *Files.* The sizes, bitmaps and counts of a file are independent fields, and
  what a read as stored lets through decides what every later lookup does. A read
  with re-hashing meets the values in another table's order and may unwind.
- *Compound operations.* `extend` reserves before it knows how many keys are new
  and may unwind half-way. `eq` looks keys up in one direction only.

## 2. The modules

| Module | Models |
|---|---|
| `GrowthPolicy` | the three policies, as operators on the bucket count |
| `LoadFactor` | the `f32` arithmetic of the thresholds and of `reserve` |
| `GrowthChain` | one table's bucket count and load factor through construction, rebuilds, reservations and growth |
| `SparseHash` | the engine under the map API, one step per probed slot |
| `AbstractMap` | what the map promises: a finite map, one call at a time |
| `MapApi` | the operations that make several engine calls: `extend` and `eq` |
| `SparseArray` | one sparse array, with sets for bitmaps |
| `BitmapWords` | one sparse array as the code computes it, with words and shifts; popcount and rounding helpers; block capacity |
| `SparseArrays` | the bucket vector as stored, one step per value of a walk |
| `FlatTable` | what the vector promises the engine: a flat table of slots |
| `Serialization` | files of tables: writing, both ways of reading, damage in between |
| `MCGrowthChain`, `MCPowerOfTwo`, `MCPrime`, `MCMod`, `MCMapApi`, `MCSparseArrays`, `MCSerialization` | constants for TLC |
| `Foundations` | lemmas on `%` and `\div`, triangular numbers, powers of two, the bits of a number, ranks in a set of numbers, insertion into and removal from a sequence |
| `SparseHash_proofs` | lemmas on tables of slots; the engine: types, counters, thresholds, who may shrink a table, what a probe finds and what it has seen; unique keys, that it implements `AbstractMap`, room in every table, power-of-two tables |
| `MapApi_proofs` | `extend` and `eq`; that they keep what holds of the engine |
| `GrowthChain_proofs` | policies and floating-point thresholds |
| `SparseArray_proofs` | one array: offsets and indices, slot numbers |
| `BitmapWords_proofs` | words: bits and sums of powers, masks, shifts, the scan, the rounding loop, the portable count; that they implement `SparseArray` |
| `SparseArrays_proofs` | the bucket vector, and that it implements `FlatTable` |
| `Serialization_proofs` | files: what is written, what each read makes of it, damage, and that a container stays one map |

How they build on each other:

```
GrowthPolicy --- LoadFactor --- GrowthChain
     :  (checked contract = assumption on the policy)
SparseHash ---+--- MapApi            implement AbstractMap
              +--- Serialization ----+
SparseArray --+--- SparseArrays      implements FlatTable
              +--- BitmapWords       implements SparseArray
```

`MapApi` and `Serialization` extend `SparseHash`: their loops take the engine's
own steps, so growth, nested rebuilds and panics happen in the middle of them.
`Serialization` also takes the arrays of a file from `SparseArray`.

There are five refinements. `SparseHash` implements `AbstractMap` (`IsMap`), and
so does it under `extend` and `eq` (`IsMapThroughout`) and across files
(`Persists`). `SparseArrays` implements `FlatTable` (`IsFlatTable`). The flat
table is the `sparse_buckets` of `SparseHash`: slot `i` of it is index `i % 64`
of array `i / 64`. So the engine is checked on a flat table and the packing apart
from it. `BitmapWords` takes only steps of `SparseArray` (`IsSparseArray`), so the
sets of bits of that module are right about the words of the code.

### SparseHash and the code

The variables of the struct keep their names. `pc` says in which loop the
thread is:

| `pc` | code |
|---|---|
| `idle`, `return` | outside a call; about to return with `res` |
| `find` | `find_position`, and the same loop in `erase` (247-277, 446-477) |
| `insert` | `insert_with_hash` (328-418) |
| `drain` | the `for value` loop of `rehash_impl` (558-575) |
| `place` | `insert_on_rehash` (577-603) |
| `whole` | the operations on the whole table |

`ibucket`, `probe` and `found_deleted` are the locals of these loops.
`draining` is the stack of old tables that nested `rehash_impl` calls still
drain, and `new_buckets`, `new_count`, `new_elements` are the innermost
`new_table`. `NoArrays` in `self.sparse_buckets` is an empty vector: a
zero-bucket table, or one whose arrays `mem::take` has removed. If a panic
unwinds through `rehash_impl` it stays that way (`LoseArrays`).

- `remove` stands for `remove`, `erase`, `take` and their `_precalc` forms. They
  probe alike and leave the same table.
- `try_emplace` stands for `try_insert` and `entry_or_default` too; the value
  its closure builds is the argument. `get` stands for every read by key.
- The set is the map with a single value.
- Panicking calls return `Panicked`: a refused growth (`expect` on a
  `LengthError`), the user's hasher in the middle of a rebuild, and indexing into
  a vector that a previous panic has emptied. A panic of the hasher at the start
  of a call, of the comparator, or of a value closure changes nothing and is not
  modelled apart.
- `retain`, `erase_range`, `pop_front` and `erase_all` are one step here.
  `SparseArrays` takes them apart.

`max_load_factor` counts tenths, so the products and quotients of the code are
exact integers, truncated or rounded up where the code does. The code computes
them in `f32`. For the table sizes the runs reach the two agree; in large tables,
and at loads that are no tenths, single precision can differ by one. `LoadFactor`
has the rounding.

`WrapProbe` bounds the probe count of a lookup, which has no bound in the code.
It folds probes from `2 * bucket_count` on by `bucket_count`. This loses nothing:
the code compares the probe with `bucket_count` and otherwise only adds it to a
slot number modulo `bucket_count`.

### GrowthPolicy and the code

A policy value is a function of the bucket count it was built for, so the policy
needs no state of its own (`clear()` of the trait is called nowhere in `src/`).
`Mod` multiplies by a rational here; at 64 bits the code's `f64` rounds it to 53
significant bits. The engine takes a policy as two constant operators and
assumes of them what the trait's documentation says (`PolicyAssumption`): `new`
settles on at least what was asked or fails, `next_bucket_count` asks for more
than there is or fails. The `Growth` run checks `MeetsContract`, which is that
assumption, for the three policies.

### LoadFactor, GrowthChain and the code

A float is its value in units of `1 / One` and has `Precision` significant bits
(`f32`: 24). `Nearest` rounds to the nearest float, and to an even mantissa on a
tie, as IEEE 754 does; each operation of the code rounds once. Conversions to
`usize` truncate and saturate. Infinities do not occur: the smallest divisor is
`MinLoad`. NaN, which `max` and `min` turn into a bound, is left out.

`GrowthChain` adds to the policy the bound of the bucket vector and the load
factor. It has no elements: they can only raise what `rehash` asks for, and any
request is allowed. `Reserve` goes through `BucketsFor`, any float is a load.

### MapApi and the code

`job` is the running `extend` or `eq`, `todo` what it has yet to insert or look
up. `Extend` reserves for the elements there are plus the lower bound of the
iterator's `size_hint`, as `map.rs` 722-727 does; the hint is exact or zero here.
`FromIterator` and `From` are the same on a new map. `eq` is modelled on either
side of the comparison: `EqualsOther` iterates the engine's table and looks its
entries up in another map, of which only the entries matter; `OtherEquals` iterates
the other map and probes the engine's table, step by step. An engine call that
panics unwinds through the job (`JobPanics`).

### SparseArrays and the code

A bitmap is the set of its bits. `Bits` is `BITMAP_NB_BITS`. One slot can be
written at a time, as lookups and insertions do; a walk (`pc` other than `idle`)
takes one step per value, with `sib` and `offset` as its cursor and `left` the
values it still skips or erases. `iter`, `iter_mut` and `into_values` are walks
too; the last two may be dropped after any number of values, and a client of
`iter_mut` or of `retain` may replace what it is lent (`Edits`). `before` is a
history variable: the flat table at the start of the call, which the refinement
shows until the call ends, because the abstract call takes effect at once. The
predicate of `retain` may panic at any value.

### BitmapWords and the code

The bitmaps are integers of `W` bits; masks, shifts and the wrapping subtraction of
`index_to_offset` are those of the code. `BitsOf` takes a word apart into its bits and
`WordOf` adds up the powers of two of given bits; `&`, `|` and `^^` are defined by them,
a shift is a division. The scan of `offset_to_index` and the doubling shifts of
`round_up_to_power_of_two` are recursive functions. The value stored at an index is
the index, so a value out of place is seen. `FallbackPopcount` is the portable count of `popcount.rs` on a word of
twice the width: the masks are written for any width, and the two bitmaps side by
side are its input.

### Serialization and the code

`stage` is where the container is: in a running process, in a file, or in between.
`Save` is `serialize` and the end of the process: nothing but the file is left. A
file is a record of the fields in protocol order, and each array in it keeps the
size that was written apart from its bitmaps and values. `FastRead` and `FastRefuse`
are the read as stored: one step, since nothing but the reader sees it; its checks
are the conjuncts of `FastAccepts`. The read with re-hashing is `StartRehashing`,
`ReserveForFile` and one `InsertFromFile` per value, each insertion taken by the
engine's steps.

*Faults.* `Damage` changes one field of an own file: a header count by one, an
array's size by one, or one or two bits of a bitmap. The hasher may panic while a
file is read; the read unwinds, the file is still there, and it may be read again. A
`foreign` file comes from a writer with another hasher or policy, with its values in
any order; it is only read with re-hashing, which is what the documentation asks.

## 3. The runs

| Run | Instance | Shows |
|---|---|---|
| `Growth` | 7-bit `usize`, floats of 5 bits, all three policies, any request, any load | the contract, that a settled count settles on itself, growth by a tenth at least or to the ceiling, the reach and the period of the probe sequence, thresholds that leave an empty slot, that growing ends in a refusal |
| `PowerOfTwo` | 4 keys (two collide, the paths of the others cross), up to 16 buckets, loads 0.2, 0.5, 0.8, every operation, panics | the safety properties of the engine |
| `MapApi` | `PowerOfTwo`, 3 keys, 2 values, every operation, `extend` with batches of none or two pairs, `eq` with other maps of as many | the engine is a map under the whole API, and every call returns |
| `Prime` | primes 1, 5, 17, 29; 4 keys that all collide | the same where a path misses slots and rebuilds nest; an insertion returns |
| `Arrays` | 5 slots in 4 arrays of 2, the last all padding | packing, counters, cursors, iteration; the vector is a flat table; walks end |
| `Words` | every pair of disjoint 8-bit bitmaps, two sparsity levels | words and shifts do what the sets say; a block keeps its slack |
| `ReadBack` | `Mod`, up to 15 buckets in arrays of 4, 4 colliding keys, loads 0.1 and 0.8; own, damaged and foreign files | across files the container is one map; damage is refused; reading ends |

Five runs check a sentence of the repository that the code does not keep:

- `ModLookup` (`CallReturns`). On a `Mod` or `Prime` table whose reachable slots
  are all full, the lookup of an absent key probes for ever: `find_position`
  (270) and `erase` (470) look at the probe count only in a slot without a value.
  `insert_with_hash` says why it need not go on: "Once we have probed
  bucket_count times the key is absent" (352). With five keys of one hash and a
  table of nine buckets, four are stored and the fifth is looked up. The
  counterexample is a cycle of `FindAdvance`.
- `ModLoad` (`InsertRespectsLoad`). An insertion that has exhausted its probe
  path takes the remembered tombstone without comparing the element count with
  the threshold (354-358), so the table goes above "the maximum load factor
  before a grow" (`map.rs` 209).
- `OwnFile` (`OwnFileAccepted`). Such a table writes a file that its own reader
  refuses as overloaded (980), though the documentation of `deserialize` asks only
  for "the same hasher and policy that wrote the file" (849). The run has no
  `set_max_load_factor`; lowering the load factor of a table below its present load
  ends the same way. Read with re-hashing, the file is accepted.
- `GrowthMax` (`MaxReachable`). The default policy reports `isize::MAX` as "the
  largest bucket count the table can reach" (133). No request reaches it: it
  rounds up to a power of two above the ceiling.
- `GrowthReserve` (`ReserveKeepsRoom`). `reserve` is to make room "without
  exceeding the load factor" (612). On sizes that are no powers of two the quotient
  and the product are both rounded, and the threshold may be one short: at load 0.21
  a `Mod` table that reserves for 63 elements gets 300 buckets and grows at 62.

The first three are why `Prime` has `InsertReturns` instead of `CallReturns`, no run
of `Mod` or `Prime` claims `InsertRespectsLoad`, and `ReadBack` does not claim that an
own file is accepted. On power-of-two tables lookups end (`ApiReturns`) and insertions
never exhaust a path with the threshold exceeded (`ThresholdsLeaveRoom` keeps an empty
slot, so paths end there). For the last one, `ThresholdsLeaveRoom` claims only of
power-of-two sizes that a table filled to its threshold is within its load factor.

### The properties

- `EveryValueFindable`: a probe for a stored key meets its value within
  `bucket_count` probes and before any empty slot, in the table and in the one a
  rebuild is filling.
- `ProbeTrail`: what a probe loop has established about the slots behind it.
- `UniqueKeys`: no key is stored twice, over the table and all tables a nested
  rebuild holds.
- `CountersAgree`: both counters count the slots; in an emptied table after a
  panic they may be stale.
- `RoomLeft`: an empty slot is left, so tombstones alone cannot fill a table.
- `ThresholdsFresh`, `ResizeKeepsPromise`, `InsertRespectsLoad`: cached
  thresholds, the rounding of reservations, growth in time.
- `OnlyResizeShrinks`: growth and cleanup never lose buckets.
- `NeverNests`: on power-of-two tables a rebuild never has to grow half-way, so
  nothing but the user's hasher can make it lose values.
- `InsertReturns` with every policy, `ApiReturns` with power-of-two tables: no endless
  loop. `CallReturns` asks it of every call, and a `Mod` table breaks it.
- `IsMap`: the contents and every answer are those of a map. A panic leaves the
  contents alone, or, if the call could have been rebuilding, leaves none.

Of the other modules:

- `IsMapThroughout`, `ExtendKeepsFirst`, `ExtendWithoutGrowth`, `EqualityIsContents`
  (`MapApi`): every call that `extend` and `eq` make is one of the same map; the first
  value of a key wins, within a batch too; with an exact hint the batch goes in
  without a rebuild; `eq` depends on the entries only. The counter that `eq` compares
  is stale in a table that a panic has emptied; such tables are left out there.
- `Persists`, `ReadBackWhole`, `ReadWithoutGrowth`, `ReadReturns` (`Serialization`):
  the container is one map across files, refused reads and panics; a table that was
  read is in order, with thresholds and load of its own; a re-hashing read grows only
  on an exhausted path.
- `DamageCaught`: what a read as stored lets through of a damaged file is
  consistent in all the ways that lookups rely on.
- `ThresholdsLeaveRoom`, `ProbesCover`, `Rebuildable`, `MeetsContract`,
  `GrowsGeometrically`, `GrowthEnds` (`GrowthChain`): what the engine and the file
  checks assume of numbers.
- `Packed`, `CountersAgree`, `CursorOnValue`, `IsFlatTable`, `WalkReturns`
  (`SparseArrays`): no value in the padding, no slot of two kinds, and a cursor that
  stands on a value at every step of every walk.
- `OffsetsInvert`, `FallbackAgrees`, `WordHelpersAgree`, `BlockBounded`,
  `IsSparseArray` (`BitmapWords`).

### Bounds

A bound is a constant of a `.cfg` or of an MC module.

- *Keys and hashes.* Colliding keys are what fills a probe path; crossing paths
  are what makes one key's tombstone lie on another's path. Two values are needed
  only to see an overwrite (`MapApi`).
- *Word width.* With 6 bits a vector has at most 31 entries, so the ceilings of
  policy and vector are within reach: with a `PowerOfTwo` table of 16 buckets
  `next_bucket_count` gives 32 and the vector refuses it.
- *Load factors.* 0.1 to 0.8 in tenths, as the code clamps. The low ones make
  growth frequent, the high ones let tombstones and values fill a table.
- *Counts.* Arguments of `rehash` and `reserve` are chosen below, at and above
  the sizes in use.
- *Floats.* Five significant bits and counts of seven: counts are rounded when they
  become floats, which with `f32` takes more than 2^24 buckets, and so is every
  product and quotient. Every float up to 1 is tried as a load.
- *Arrays.* Five slots in arrays of two give full, partial, empty and
  padding arrays; the spans 0, 1, 2 and 6 stop inside, across and past them.
- *Words.* Eight bits are all the cases of a mask: the first and the last bit, and
  every pattern between them. The runs of the portable count need 16.
- *Batches.* Two pairs may repeat a key or name one that is there.
- *Files.* Up to 15 buckets in arrays of 4 give up to four arrays, with padding, and
  up to four values in a foreign file are more than a probe path of the smallest table
  takes. One field is damaged at a time: two may cancel out, and the
  file has no checksum.

Symmetry sets permute keys with one hash. They are declared only in runs without
liveness properties. (`IsMap` is a safety property: the abstract specification
has no fairness.)

### Fairness

`FairSpec` assumes weak fairness of `Step`, what the thread inside a call does
next, and not of the two actions that start a call. The code is sequential: a
thread in a loop keeps executing, and nobody has to call. `HasherPanics` is
no part of `Step`, so no call ends because a panic was forced on it.
`FairApiSpec` assumes the same of the engine and the running `extend` or `eq`, and
`FairStorageSpec` of a read that has begun; nobody has to start one, or to save a
table. `SparseArrays` assumes the same of a walk, without the panic of the
predicate. `GrowthChain` assumes that a table is asked to grow for ever, and
`GrowthEnds` that in the end nothing else happens to it.

Every run checks deadlock: there is always a next call.

## 4. What is proved

Every theorem below holds for all values of the constants that satisfy the named
assumptions of its module. Six modules hold them; `Foundations` and `SparseArray_proofs`
hold the lemmas on numbers, sets and sequences and on single arrays that they share.

| Module | Theorem | States |
|---|---|---|
| `SparseHash_proofs` | `TypeCorrect` | `Spec => []TypeOK` |
| | `CountersCorrect` | `Spec => []CountersAgree` |
| | `ThresholdsCorrect` | `Spec => []ThresholdsFresh` |
| | `ShrinksOnlyOnRequest` | `Spec => OnlyResizeShrinks` |
| | `ValuesFindable` | `Spec => []EveryValueFindable` |
| | `TrailCorrect` | `Spec => []ProbeTrail` |
| | `KeysUnique` | `Spec => []UniqueKeys` |
| | `ImplementsMap` | `Spec => IsMap` |
| | `RoomKept` | `Spec => []RoomLeft` |
| | `PromisesKept` | `Spec => []ResizeKeepsPromise` |
| | `SearchesStop` | `OnlyPowersOfTwo => (Spec => []SearchesEnd)` |
| | `NestsNever` | `OnlyPowersOfTwo => (Spec => []NeverNests)` |
| | `LoadRespected` | `OnlyPowersOfTwo => (Spec => InsertRespectsLoad)` |
| | `InsertionsDescend` | `Spec => [](Variant \in [1 .. 6 -> Nat]) /\ StepsDescend` |
| | `EveryCallDescends` | `OnlyPowersOfTwo => (Spec => CallsDescend)` |
| `MapApi_proofs` | `MapThroughout` | `ApiSpec => IsMapThroughout` |
| | `EngineSound` | the engine's invariants under `ApiSpec` |
| | `FirstKept` | `ApiSpec => []ExtendKeepsFirst` |
| | `EqualityDecides` | `ApiSpec => []EqualityIsContents` |
| | `HintSuffices` | `OnlyPowersOfTwo => (ApiSpec => ExtendWithoutGrowth)` |
| `GrowthChain_proofs` | `PoliciesMeetContract`, `PowerOfTwoIsOne` | the contract of the trait for the three policies; the default one only settles on powers of two |
| | `GrowthTypes`, `ContractMet`, `SettlesOnItself` | `TypeOK`, `MeetsContract`, `Rebuildable` |
| | `GrowthIsGeometric` | `Spec => GrowsGeometrically` |
| | `ProbesReach` | `Spec => []ProbesCover` |
| | `ThresholdsKeepRoom` | `Spec => []ThresholdsLeaveRoom` |
| `SparseArrays_proofs` | `VectorTypes`, `ArraysPacked`, `CountersCorrect`, `CursorKept` | `TypeOK`, `Packed`, `CountersAgree`, `CursorOnValue` |
| | `ImplementsFlatTable` | `Spec => IsFlatTable` |
| `Serialization_proofs` | `MapPersists` | `StorageSpec => Persists` |
| | `ReadsWhole` | `StorageSpec => []ReadBackWhole` |
| | `DamageFound` | `StorageSpec => []DamageCaught` |
| | `ReadsInPlace` | `StorageSpec => ReadWithoutGrowth` |
| `BitmapWords_proofs` | `WordsImplementArray` | `Spec => IsSparseArray` |
| | `OffsetsAlwaysInvert`, `BlockAlwaysBounded` | `OffsetsInvert`, `BlockBounded` |
| | `WordHelpersAlwaysAgree` | `Spec => []WordHelpersAgree` |
| | `FallbackAlwaysAgrees` | `4 <= W /\ W <= 64` gives `Spec => []FallbackAgrees` |

### The engine

The first four parts of `SparseHash_proofs` each strengthen the invariant of the one
before:

| Invariant | Adds | Needed because |
|---|---|---|
| `Inv` | `TypeOK /\ CountersAgree` | Neither half is inductive alone. That `nb_elements - 1` is a natural number in `FindHit` needs the counter to equal the number of occupied slots, one of which is being buried; `nb_deleted_buckets - 1` in `PutAt` needs `found_deleted` to be a tombstone; and the counters agree after these steps only because the slot written was of the kind the step assumed. |
| `ProbeInv` | `CursorAtRest /\ EveryValueFindable /\ ProbeTrail` | A value stored at the slot a probe has reached is findable there because the slots behind it are the key's path and none is empty: that is the trail. The trail starts because between calls the probe stands at zero with no tombstone remembered (`CursorAtRest`). A remembered tombstone is stored to instead, so the trail also says that it lies on the path. |
| `KeyInv` | `UniqueKeys /\ CallKinds /\ KnownAbsent` | A key is stored where a trail has ended: at an empty slot, or after as many probes as there are buckets. In either case `EveryValueFindable` would have put a stored value behind the probe, so the key is absent. `try_emplace` and `insert_or_assign` look first and insert afterwards: `KnownAbsent` carries the absence over to the second loop, `CallKinds` says which call can be in which loop. |
| `RoomInv` | `RoomForAll /\ OwnRoom /\ ResizeRoom` | That a table keeps an empty slot is not inductive in the middle of a rehash: the new table fills up from the old ones. `RoomForAll` bounds all that has yet to be placed by the new count; `ResizeRoom` says the same of the threshold, for a rehash that was asked for. |

Each invariant is proved by a lemma per group of actions and under it a step per
action. To keep the proofs of the later invariants from repeating the case analysis,
`Effects` classifies every step by what it does to the slots: `TablesKept`,
`Replaced` (a value is overwritten), `Buried` (values become tombstones), `Cleared`,
`Added` (a pair is stored), `Begun` (a rehash moves the arrays away), `Nested`
and `Lost` (a panic), and the steps inside a rehash. The lemmas for
`EveryValueFindable`, `UniqueKeys` and the room go by these effects.

`ImplementsMap` needs the counting argument of `HeldCounts` and its followers: the
abstract map counts entries, the code counts slots, and the two agree as keys are unique.
`erase_range` and `pop_front` remove what stands at given ranks of the slot order, and
`RankCounts` relates ranks to the abstract choice of that many entries. One lemma per
group of actions shows that the step is one of `AbstractMap` or a stutter.

Least-counterexample arguments stand in for induction over numbers (`LeastNatural` of
`Foundations`). They are all over sets of naturals, never over data.

`OnlyPowersOfTwo` (no odd divisor but 1 in any bucket count the policy settles on) is a
hypothesis of five theorems. A `Mod` or `Prime` table breaks the first four: runs
`ModLookup`, `ModLoad` and the nested rebuilds of `Prime`. `HintSuffices` needs it for
the same reason: where a path may be exhausted, an insertion may grow the table with
room to spare. It is true of the instance
of run `PowerOfTwo`, where TLC evaluates it as an assumption, and `PowerOfTwoIsOne`
proves it of the default policy for every word width. Under it the triangular path
visits all slots (`PathCovers`), so with `RoomLeft` a probe meets an empty slot
(`SearchesStop`), an insertion never exhausts its path (`LoadRespected`), and a rehash
neither exhausts one nor, by `RoomForAll`, reaches a threshold (`NestsNever`).

The last part is the half of termination that is a safety property: every step of a call
lowers `Variant`, six natural numbers of which the first that differs decides.

| Number | Lowered by | Why it does not rise before |
|---|---|---|
| `Stage` | starting to work, answering, ending the call | A call never goes back. |
| `Growable`, from the bucket count at work to the bound of the vector | growth, a nested rehash | No insertion shrinks its table: it asks for as many buckets or more, and `Settle` gives at least what it is asked for. |
| `LoopAhead` | a lookup that goes on to insert; a cleanup; taking a new table over | A cleanup needs a tombstone, as the thresholds are fresh and the one for growth is the lower (`CleanupAfterGrowth`), and it leaves none. So an insertion is restarted by a cleanup at most once for each bucket count. |
| `Len(draining)` | the end of a nested rehash | A rehash nests only in a larger table. |
| `Unplaced`, the values of the innermost old table | a value placed | |
| `ProbesLeft` | a probe | |

`LowerEnds` proves that no sequence of such sextuples descends for ever: the numbers
come to rest one after another. `InsertionsDescend` has this of every policy, but for
a lookup that has probed `bucket_count` slots, which may go round for ever on a `Mod`
table (run `ModLookup`). `EveryCallDescends` has it of every step when the tables have a
power of two of buckets. TLC checked both on the instances of `Prime` and `PowerOfTwo`
before they were proved. That a thread in a call can always step, and does, is left
to TLC: `InsertReturns` under `FairSpec` and, for every call on power-of-two tables,
`ApiReturns` under `FairApiSpec`.

The lemmas speak of the *open engine* (`OpenSpec`): a client may ask anything of the
right type at any time, with any count and load, and may end a call whose answer is
there. `Spec`, whose clients keep to the arguments of a run, implies it (`RunIsOpen`),
and so does `ApiSpec`. So no lemma on the engine is proved twice.

### `extend` and `eq`

`ApiIsOpen` shows that every step of a container is a step of the open engine or leaves
it alone: the calls that a job makes are requests of the right types, and taking an
answer is the end of a call. With it the engine's invariants and the refinement hold
under `ApiSpec` (`EngineSound`, `MapThroughout`). What a job does with the answers is
argued over the abstract map alone: by the refinement an insertion that runs changes the
entries once, as it answers, and by its pair.

| Invariant | Says | Needed because |
|---|---|---|
| `JobOK` | what a job looks like while it waits, runs and has a verdict | an answer in flight belongs to the job, and a lookup has a pair to be compared with |
| `ExtendInv` | the entries are `Merged[Sent]`: those of before, and the first of each key among the pairs sent | while an insertion runs its pair is sent and not in yet, so the entries lag by one (`MergeNext` is the step from `n - 1` to `n` pairs) |
| `CompareInv` | the answer that is on its way is the right one, and what has been compared agreed | the sizes and one inclusion give equality only by counting (`SizesDecide`), and the counter that is compared counts the entries only where no panic has emptied the table |
| `HintInv` | the table has `Spare` room for all pairs that are left, and no tombstones to clean up (`NoWaste`) | a reservation leaves a table without tombstones and `ResizeKeepsPromise` of room; an insertion uses up one slot of it |

### Policies and thresholds

The proofs about the engine assume `PolicyAssumption`, the contract in the trait's
documentation. `PoliciesMeetContract` proves that contract of the three policies, for
every word width and all parameters that the asserts of the constructors let
through, so the assumption is discharged for the policies of the crate. (`Mod` is the
rational one of the model here too.)

`GrowthInv` is `TypeOK` and that the bucket count is one the policy settles on. The
latter gives `Rebuildable` and the growth by a tenth, which would fail from an
arbitrary count.

`ProbesReach`: on a power-of-two table triangular numbers below the count are apart
modulo the count (`TrianglesApart`), so as many probes as slots reach every slot. For
any other size two of them meet: the first and the last, for an odd size; for an even
one the odd factor is found by halving. And the sequence mirrors after `n` probes
(`TriangleMirror`), so going on adds no slot.

`ThresholdsKeepRoom` is about rounding to nearest, ties to even, with any precision
from 5 bits on (`PrecisionAssumption`; `f32` has 24). The facts used: rounding is
monotone and leaves floats alone (`NearestMonotone`, `NearestExact`), so rounding a
number below a float keeps it at or below that float. The load with tombstones is at
most 15/16 after rounding; a count converted to a float has a mantissa of 16 units at least, so a
sixteenth of it is at least one of its units in the last place, and the product stays
a float below the count. Four bits would not be enough: then the quotient may round up to 1.

### The bucket vector

`VectorInv == Counted /\ Control /\ CursorOnValue /\ (Walking => \E c : WalkAt(c))`.
`WalkAt(c)` says that the walk has dealt with all slots before `c` as the abstract
operation does with its first `c`, and with none from `c` on; that is what lets the
final step of a walk be the abstract call and all steps before it stutter. TLC has
checked it as an invariant of the `Arrays` instance before it was proved. For the
refinement there is a lemma per action that returns.

### Files

A file is a concatenation of blocks, so the first part is about `FlattenSeq` and
`FoldLeft` of the community modules, both of which are recursive functions: no induction
over sequences is at hand, but one over the number of blocks that are joined, and that
is `LeastNatural` again (`JoinExists`, `FlatHolds`, `SumTallies`). `WrittenOK` says what
`serialize` writes (`OwnFile`): every array is packed, the counts are right, and
reading the slots back array by array gives the table (`WrittenTable`), for every bucket
count and width.

`StorageInv` says for each `stage` what it takes:

| Part | Says | Needed because |
|---|---|---|
| `FileOK` | a file has blocks of pairs with no key twice; an own one restores the table that was saved (`OwnFile`); of one that was changed in a single field every array is right about one of its two counts (`HalfSound`) | `Save` leaves nothing but the file, so what `Persists` and `ReadBackWhole` need of the table has to be in it; and damage is caught only because a second field disagrees with the changed one |
| `BlankOK` | before a read there is an empty table and nobody works on it | a read with re-hashing starts from `RoomInv` of that table |
| `ReadingOK` | the engine keeps `RoomInv`; the entries are the first values of the file, one less while an insertion runs; the threshold has room for all of them and there are no tombstones | the map of the container is that of the file while the read goes on, and the two meet only when `unread` is empty; room and tombstones are what `ReadWithoutGrowth` is about |
| `ReadOK` | the table read is in order and has the entries of the file | the process that opens it starts with `RoomInv` |

TLC has checked it as an invariant of the `ReadBack` instance. A process and a read
with re-hashing take the steps of the open engine, so the engine's lemmas serve here as
they do for `extend`. A read as stored takes no engine step: `OwnTableBack` shows that
what it restores of an own file is the very table that was saved, with the load factor
clamped, so that `RoomInv` carries over. `MapPersists` hides the file behind the abstract
map: it is the engine's refinement while a table runs (`RunningMaps`) and a stutter
while it is stored, read, refused or lost in a panic (`FileMaps`).

### Words

`WordsInv == PackedWords /\ Roomy` is the invariant. `PackedWords` says that both
bitmaps are words and that the value of each set bit stands in the block at the rank of
that bit (`RankIn`, the number of set bits below it). Neither of `OffsetsInvert` and
`IsSparseArray` is inductive without it: `Set` puts a value at the popcount below its
index, and that the others are where they were, one place on if behind it, takes their
ranks before and after (`RankAdd`, `RankRemove`, `InsertShifts`, `RemoveShifts`).
`Roomy` adds to `BlockBounded` that the step of the level is positive.

The argument has three layers. A word is the sum of the powers of its bits and has no
other (`BitsOfWord`, `WordOfBits`), so words with the same bits are equal (`SameBits`);
what a mask, a shift, a remainder and a difference do to the bits follows (`Meets`,
`Joined`, `Shifted`, `LowBits`, `ClearMask`, `MaskBelow`). On sets of bits the mask of
`index_to_offset` is a rank (`OffsetIsRank`), the scan of `offset_to_index` comes to the
bit of that rank (`ScanEnds`), and writing a bit is adding it to the set or taking it out
(`SetClear`); that makes every action one of `SparseArray`. The helpers are bits too:
a word that is no power of two keeps its highest bit when one is subtracted
(`PowerTest`), and the doubling shifts spread the highest bit over all below it
(`SmearFills`).

The portable count is argued byte by byte. `MaskBits` finds the bits of `M1`, `M2` and
`M4`; two words whose bytes do not overflow are added byte by byte (`AddBytes`). So the
subtraction leaves in every pair of bits how many there were (`OnesCount`), the sums leave
it in every half byte (`PairsCount`) and in every byte (`BytesCount`). Let `y` be the word
of these counts. Its product with a one in each byte, cut to `2 * W` bits, is the `z` for
which `y + 255 * z` is `2^(2 * W)` times the sum of the bytes of `y`. `SumOfBytes` finds
`z` one byte at a time and shows that its highest byte is that sum, as long as the sum is
below 256. Hence `W <= 64`, which is 128 bits side by side; the code counts words of 64
(`W = 32`) and of 32 bits (`W = 16`).

A recursive function is a choice of one that satisfies its equation, so what it
computes is only known where such a function exists: `LowsExist`, `ScanExists` and
`SmearExists` build them, by the least number for which there were none.

### Assumptions

- `SparseHash`: `PolicyAssumption` (and that a word has room for a bucket),
  `ArgumentAssumption` (requests of the right types) and `MarkerAssumption` (the markers of slots are apart and no values).
- `MapApi`: `BatchAssumption` (pairs, and no key twice in another map) and
  `AnswerAssumption` (the markers of answers are apart).
- `GrowthChain`: the asserts of the constructors (`FactorAssumption`,
  `PrimesAssumption`), a word of two bits at least (`WordAssumption`) and a precision
  of five (`PrecisionAssumption`).
- `SparseArrays`: a number of bits that is a power of two (`BitsAssumption`), and
  arguments of the right types (`SizeAssumption`).
- `Serialization`: `P::new(0)` settles on no buckets (`NoBucketsAssumption`, the first
  branch of all three policies), the default load factor is within the clamp
  (`LoadAssumption`), and files of other writers hold every key once and count their
  values (`ForeignAssumption`), as any file that `serialize` wrote does.
- `BitmapWords`: a width that is a power of two (`WidthAssumption`) and steps of the
  levels the code has (`LevelsAssumption`).
- `PowerLaw`, in the last four (for `GrowthChain` in `LoadFactor`): `2^(k+1) = 2 * 2^k` for the exponents that occur.
  The provers know exponentiation of numerals only; `Foundations` derives from this law
  that powers are positive, divide one another and grow.

TLC evaluates each of them in the run of its module.

### Only model-checked

- Liveness: `InsertReturns`, `ApiReturns`, `GrowthEnds`, `WalkReturns`, `ReadReturns`.
  The prover has no rule for fairness here. Of the calls of the engine it proves that
  their steps descend (`EveryCallDescends`, `InsertionsDescend`).

## 5. Not modelled

- The wire format. How a value becomes bytes is up to the user's `Serializer` and
  `Serialize` impls; `serialize.rs` has traits and fixed-width integers. What a
  re-hashing read makes of a stream whose array lengths are wrong depends on the
  `Deserializer`, so it is left out (`Readable`). The check that a bitmap of the file
  fits the platform's word is vacuous at 64 bits.
- `Clone`, which copies every field; `Debug`, the accessors, the range and key
  iterators and the conversions, which are reads of what is modelled or loops over it.
- The `last_array` flag, which is written and copied but decides nothing.
- Hashers. Any function from keys to numbers is allowed, if equal keys have equal
  hashes. A hasher that answers differently for one key is outside the contract.
- Allocation failure, and NaN as a load factor.

## 6. Plan

1. *Done*: the policies, the engine with its abstract map, the sparse arrays with
   the flat table, type correctness and counting proved.
2. *Done*: load factor arithmetic with rounding, `extend` and `eq`, the consuming and
   mutable iterators, words and shifts against sets, serialization in both modes with
   damage and panics. Two questions that had runs of their own are asked by others
   now: the engine with the map API alone by `MapApi`, the engine on `Mod` by
   `ReadBack`, where it is the engine that fills tables before they are saved, and by
   `Prime`.
3. *Done*: the proofs of section 4.
4. *Done*: the proofs about files.
5. *Done*: the proofs about words. With that every safety property that a passing run
   checks is stated by a theorem.
6. *Done*: a variant for the calls of the engine.
7. *Open*: a variant for the jobs of `MapApi`, whose outer loop counts the items that
   are left. And the wire format, for a `Serializer` that is fixed.
