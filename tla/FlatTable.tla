----------------------------- MODULE FlatTable -----------------------------
(***************************************************************************)
(* What the vector of sparse arrays promises the engine: a flat table of   *)
(* slots.  The calls that walk over the values take effect in one step,    *)
(* on slots chosen by the table as it was when the call was made.          *)
(***************************************************************************)
EXTENDS Integers, FiniteSets, Sequences

CONSTANTS Value, SlotCount, Requests, Empty, Deleted, Panicked, None

VARIABLES
  slots,     (* slot -> Empty, Deleted or a value                           *)
  phase,     (* "idle", "working" on req, or "done" with the answer         *)
  req, answer

flatVars == <<slots, phase, req, answer>>

SlotNumbers == 0 .. SlotCount - 1
Stored == { i \in SlotNumbers : slots[i] \in Value }

(* Iteration order is slot order.                                          *)
Position(i) == Cardinality({ j \in Stored : j < i })
InOrder ==
  [p \in 1 .. Cardinality(Stored) |->
     slots[CHOOSE i \in Stored : Position(i) = p - 1]]

WithTombstones(gone) ==
  [i \in SlotNumbers |-> IF i \in gone THEN Deleted ELSE slots[i]]

Init ==
  /\ slots = [i \in SlotNumbers |-> Empty]
  /\ phase = "idle" /\ req = None /\ answer = None

(* One slot at a time, as lookups and insertions do.                       *)
Write(i, v) == slots' = [slots EXCEPT ![i] = v]

Put == \E i \in SlotNumbers \ Stored, v \in Value : Write(i, v)
Overwrite == \E i \in Stored, v \in Value : Write(i, v)
Remove == \E i \in Stored : Write(i, Deleted)
Clear == slots' = [i \in SlotNumbers |-> Empty]
EraseAll == slots' = WithTombstones(Stored)

OneStep ==
  /\ phase = "idle"
  /\ Put \/ Overwrite \/ Remove \/ Clear \/ EraseAll
  /\ UNCHANGED <<phase, req, answer>>

Call ==
  /\ phase = "idle" /\ phase' = "working" /\ req' \in Requests
  /\ UNCHANGED <<slots, answer>>

Finish ==
  /\ phase = "done" /\ phase' = "idle"
  /\ req' = None /\ answer' = None
  /\ UNCHANGED slots

Respond(a) == phase' = "done" /\ answer' = a /\ UNCHANGED req
Asked(op) == phase = "working" /\ req.op = op

EraseRange ==
  /\ Asked("erase_range") /\ Respond(None)
  /\ slots' = WithTombstones(
       { i \in Stored : Position(i) \in req.skip .. req.skip + req.count - 1 })

RemoveNth ==
  /\ Asked("remove_nth")
  /\ IF req.skip < Cardinality(Stored)
     THEN LET i == CHOOSE j \in Stored : Position(j) = req.skip
          IN Respond(slots[i]) /\ slots' = WithTombstones({i})
     ELSE Respond(None) /\ UNCHANGED slots

Unwanted == { i \in Stored : slots[i] \notin req.keep }

(* The predicate may write to what it keeps.                               *)
Retain ==
  /\ Asked("retain") /\ Respond(None)
  /\ slots' = [i \in SlotNumbers |->
                 IF i \in Unwanted THEN Deleted
                 ELSE IF i \in Stored THEN req.edit[slots[i]] ELSE slots[i]]

(* It panics at some value, which it may have written to: the slots before *)
(* that one are done, those behind it are not.                             *)
RetainPanics ==
  /\ Asked("retain") /\ Respond(Panicked)
  /\ \E at \in Stored : \E w \in {slots[at], req.edit[slots[at]]} :
       slots' = [i \in SlotNumbers |->
                   CASE i \in Unwanted /\ i < at -> Deleted
                     [] i \in Stored \ Unwanted /\ i < at -> req.edit[slots[i]]
                     [] i = at -> w
                     [] OTHER -> slots[i]]

Iterate == Asked("iter") /\ Respond(InOrder) /\ UNCHANGED slots

(* The first req.take values, in order, written to or moved out; the table *)
(* a client goes on with after moving its values out is a new one.         *)
Taken == { i \in Stored : Position(i) < req.take }

IterateMut ==
  /\ Asked("iter_mut") /\ Respond(None)
  /\ slots' = [i \in SlotNumbers |->
                 IF i \in Taken THEN req.edit[slots[i]] ELSE slots[i]]

IntoValues ==
  /\ Asked("into_values") /\ Respond(SubSeq(InOrder, 1, Cardinality(Taken)))
  /\ Clear

Next ==
  \/ OneStep \/ Call \/ Finish
  \/ EraseRange \/ RemoveNth \/ Retain \/ RetainPanics
  \/ Iterate \/ IterateMut \/ IntoValues

FlatSpec == Init /\ [][Next]_flatVars
=============================================================================
