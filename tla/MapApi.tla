------------------------------- MODULE MapApi -------------------------------
(***************************************************************************)
(* The operations of SparseMap and SparseSet that take several calls of    *)
(* the engine: Extend, which FromIterator and From use on a new map, and   *)
(* PartialEq.  The user's hasher may panic in any of them.                 *)
(*                                                                         *)
(* Equality compares the table of the engine with another map, of which    *)
(* only the entries matter: eq reads the one it is called on by iteration  *)
(* and the other by lookups, so both sides are tried.                      *)
(***************************************************************************)
EXTENDS SparseHash

CONSTANTS
  Batches,      (* what an iterator given to extend yields                 *)
  OtherMaps     (* the entries of another map, in iteration order          *)

ASSUME BatchAssumption ==
  /\ Batches \subseteq Seq(Pair) /\ OtherMaps \subseteq Seq(Pair)
  /\ \A other \in OtherMaps : \A i, j \in DOMAIN other :
       other[i][1] = other[j][1] => i = j

Jobs ==
  [op : {"extend"}, pairs : Batches, lower : Nat] \cup [op : {"eq"}, pairs : OtherMaps]

ASSUME AnswerAssumption ==
  None \notin Jobs \cup BOOLEAN \cup {Panicked} /\ Panicked \notin BOOLEAN

VARIABLES
  job,       (* the running operation, or None                             *)
  todo,      (* the pairs it has yet to insert or to compare               *)
  verdict,   (* its answer, when it has one                                *)
  before     (* the entries when extend began: for the properties only     *)

api == <<job, todo, verdict, before>>
apiVars == <<vars, api>>

PairsOf(s) == { s[i] : i \in DOMAIN s }

Answered(answer) == verdict' = answer /\ todo' = <<>> /\ UNCHANGED <<job, before>>

(* The engine call that has returned is over.                              *)
EngineIdle == pc' = "idle" /\ req' = None /\ res' = None

-----------------------------------------------------------------------------
(* extend *)

(* Mutant: the size hint is left out.                                      *)
RoomWithoutHint(hint) == nb_elements

RoomFor(hint) == nb_elements + hint

(* lower is the lower bound of the iterator's size_hint: exact, or none.   *)
Extend ==
  /\ job = None
  /\ \E batch \in Batches : \E lower \in {0, Len(batch)} :
       /\ job' = [op |-> "extend", pairs |-> batch, lower |-> lower]
       /\ todo' = batch
       /\ StartOnWhole([op |-> "reserve", count |-> RoomFor(lower)])
  /\ before' = Entries
  /\ UNCHANGED verdict

(* Mutant: the new value replaces the old one.                             *)
ExtendOverwriting ==
  /\ job # None /\ job.op = "extend" /\ todo # <<>>
  /\ StartOnKey([op |-> "insert_or_assign", key |-> Head(todo)[1], val |-> Head(todo)[2]])
  /\ todo' = Tail(todo)
  /\ UNCHANGED <<job, verdict, before>>

ExtendInserts ==
  /\ job # None /\ job.op = "extend" /\ todo # <<>>
  /\ StartOnKey([op |-> "insert", key |-> Head(todo)[1], val |-> Head(todo)[2]])
  /\ todo' = Tail(todo)
  /\ UNCHANGED <<job, verdict, before>>

ExtendEnds ==
  /\ pc = "idle" /\ job # None /\ job.op = "extend" /\ verdict = None /\ todo = <<>>
  /\ Answered(TRUE)
  /\ UNCHANGED vars

-----------------------------------------------------------------------------
(* eq *)

(* Mutant: the sizes are not compared.                                     *)
SameSizeIgnored(other) == TRUE

SameSize(other) == nb_elements = Len(other)

(* The engine's table is iterated, and the other map looks its keys up.    *)
EqualsOther ==
  /\ pc = "idle" /\ job = None
  /\ \E other \in OtherMaps :
       /\ job' = [op |-> "eq", pairs |-> other]
       /\ verdict' = ( /\ SameSize(other)
                       /\ \A i \in Occupied(sparse_buckets) :
                            sparse_buckets[i] \in PairsOf(other) )
  /\ UNCHANGED <<vars, todo, before>>

(* The other map is iterated, and the engine looks its keys up.            *)
OtherEquals ==
  /\ pc = "idle" /\ job = None
  /\ \E other \in OtherMaps :
       /\ job' = [op |-> "eq", pairs |-> other]
       /\ IF SameSize(other)
          THEN todo' = other /\ UNCHANGED verdict
          ELSE verdict' = FALSE /\ UNCHANGED todo
  /\ UNCHANGED <<vars, before>>

Comparing == job # None /\ job.op = "eq" /\ verdict = None

CompareLooksUp ==
  /\ Comparing /\ todo # <<>>
  /\ StartOnKey([op |-> "get", key |-> Head(todo)[1]])
  /\ UNCHANGED api

ComparePair ==
  /\ Comparing /\ pc = "return" /\ res # Panicked
  /\ EngineIdle
  /\ IF res.hit /\ res.entry = Head(todo)
     THEN todo' = Tail(todo) /\ UNCHANGED <<job, verdict, before>>
     ELSE Answered(FALSE)
  /\ UNCHANGED <<table, limits, cursor, build>>

CompareEnds ==
  /\ Comparing /\ pc = "idle" /\ todo = <<>>
  /\ Answered(TRUE)
  /\ UNCHANGED vars

-----------------------------------------------------------------------------
(* The panic of an engine call unwinds through the operation.              *)
JobPanics ==
  /\ job # None /\ pc = "return" /\ res = Panicked
  /\ EngineIdle /\ Answered(Panicked)
  /\ UNCHANGED <<table, limits, cursor, build>>

JobEnds ==
  /\ verdict # None
  /\ job' = None /\ verdict' = None /\ before' = {}
  /\ UNCHANGED <<vars, todo>>

ApiInit == Init /\ job = None /\ todo = <<>> /\ verdict = None /\ before = {}

Client == job = None /\ (CallOnKey \/ CallOnWhole) /\ UNCHANGED api

(* An answer an operation waits for is its own to take.                    *)
Engine ==
  /\ Step
  /\ pc = "return" => ~Comparing /\ (job # None => res # Panicked)
  /\ UNCHANGED api

EnginePanics == HasherPanics /\ UNCHANGED api

Job ==
  \/ ExtendInserts \/ ExtendEnds \/ CompareLooksUp \/ ComparePair \/ CompareEnds
  \/ JobPanics \/ JobEnds

ApiNext == Client \/ Engine \/ EnginePanics \/ Extend \/ EqualsOther \/ OtherEquals \/ Job

ApiSpec == ApiInit /\ [][ApiNext]_apiVars

(* A thread that is in a call keeps executing.                             *)
FairApiSpec == ApiSpec /\ WF_apiVars(Engine \/ Job)

-----------------------------------------------------------------------------
(* Properties *)

(* The calls an operation makes and those of the clients, together, are    *)
(* those of one map: an extension that unwinds half-way has inserted what  *)
(* came before or, in a rehash, lost all, and a comparison changes nothing.*)
IsMapThroughout == Map!MapSpec

(* "Insert every pair. A key already present keeps its value" (map.rs):    *)
(* also one that a pair before it in the batch has brought.                *)
FirstOf(pairs) ==
  { pairs[i] : i \in { i \in DOMAIN pairs :
                         \A j \in 1 .. i - 1 : pairs[j][1] # pairs[i][1] } }
ExtendKeepsFirst ==
  verdict = TRUE /\ job.op = "extend" =>
    Entries = before \cup { e \in FirstOf(job.pairs) : \A o \in before : o[1] # e[1] }

(* With an exact size_hint the table is rebuilt once, by the reservation,  *)
(* and never while the batch goes in, however many tombstones there were.  *)
ExtendWithoutGrowth ==
  [][pc = "insert" /\ pc' # "insert" /\ job # None /\ job.lower = Len(job.pairs)
       => pc' = "return"]_apiVars

(* Two maps are equal when they hold the same entries, whichever of them   *)
(* eq is called on, whatever tombstones, bucket counts and probe paths     *)
(* they have.  The counter of a table that a panic has emptied does not    *)
(* count its entries; those are not compared.                              *)
EqualityIsContents ==
  verdict \in BOOLEAN /\ job.op = "eq" /\ ~Torn =>
    (verdict <=> Entries = PairsOf(job.pairs))

(* Every call and every operation returns.                                 *)
ApiReturns == (pc # "idle" \/ job # None) ~> (pc = "idle" /\ job = None)
=============================================================================
