---------------------------- MODULE AbstractMap ----------------------------
(***************************************************************************)
(* What the map API promises: a finite map with one call at a time.  A     *)
(* call takes effect in one step, or panics: then it has changed nothing,  *)
(* or, when it could have moved the entries to a larger table, lost all.   *)
(***************************************************************************)
EXTENDS FiniteSets, Integers

CONSTANTS Key, Val, Requests, Panicked, None

VARIABLES
  entries,   (* the stored pairs                                            *)
  phase,     (* "idle", "working" on req, or "done" with the answer res     *)
  req, res

mapVars == <<entries, phase, req, res>>

Has(k) == \E v \in Val : <<k, v>> \in entries
EntryOf(k) == CHOOSE e \in entries : e[1] = k
Others(k) == { e \in entries : e[1] # k }

Answer(hit, entry) == [hit |-> hit, entry |-> entry]
Done == Answer(FALSE, None)
Lookup(k) == IF Has(k) THEN Answer(TRUE, EntryOf(k)) ELSE Done

Init ==
  /\ entries = {} /\ phase = "idle" /\ req = None /\ res = None

Call ==
  /\ phase = "idle" /\ phase' = "working"
  /\ req' \in Requests
  /\ UNCHANGED <<entries, res>>

Finish ==
  /\ phase = "done" /\ phase' = "idle"
  /\ req' = None /\ res' = None
  /\ UNCHANGED entries

Respond(answer) == phase' = "done" /\ res' = answer /\ UNCHANGED req

Asked(ops) == phase = "working" /\ req.op \in ops

Get == Asked({"get"}) /\ Respond(Lookup(req.key)) /\ UNCHANGED entries

Remove ==
  /\ Asked({"remove"}) /\ Respond(Lookup(req.key))
  /\ entries' = Others(req.key)

(* A stored value is written only through the reference a lookup returned. *)
GetMut ==
  /\ Asked({"get_mut"}) /\ Respond(Lookup(req.key))
  /\ entries' = IF Has(req.key)
                THEN Others(req.key) \cup {<<req.key, req.val>>}
                ELSE entries

AddNew ==
  /\ Asked({"insert", "try_emplace", "insert_or_assign"}) /\ ~Has(req.key)
  /\ Respond(Answer(FALSE, <<req.key, req.val>>))
  /\ entries' = entries \cup {<<req.key, req.val>>}

KeepOld ==
  /\ Asked({"insert", "try_emplace"}) /\ Has(req.key)
  /\ Respond(Lookup(req.key)) /\ UNCHANGED entries

Overwrite ==
  /\ Asked({"insert_or_assign"}) /\ Has(req.key)
  /\ Respond(Lookup(req.key))
  /\ entries' = Others(req.key) \cup {<<req.key, req.val>>}

Configure ==
  /\ Asked({"rehash", "reserve", "set_max_load_factor"})
  /\ Respond(Done) /\ UNCHANGED entries

EraseEverything == Asked({"clear", "erase_all"}) /\ Respond(Done) /\ entries' = {}

Retain ==
  /\ Asked({"retain"}) /\ Respond(Done)
  /\ entries' = { e \in entries : e[1] \in req.keep }

(* Iteration order is not promised: some entry, some range of entries.     *)
PopFront ==
  /\ Asked({"pop_front"})
  /\ IF entries = {}
     THEN Respond(Done) /\ UNCHANGED entries
     ELSE \E e \in entries : Respond(Answer(TRUE, e)) /\ entries' = entries \ {e}

EraseRange ==
  /\ Asked({"erase_range"}) /\ Respond(Done)
  /\ LET n    == Cardinality(entries)
         from == IF req.skip < n THEN req.skip ELSE n
         gone == IF req.count < n - from THEN req.count ELSE n - from
     IN \E kept \in SUBSET entries :
          Cardinality(kept) = n - gone /\ entries' = kept

Panic ==
  /\ phase = "working" /\ Respond(Panicked)
  /\ \/ UNCHANGED entries
     \/ /\ req.op \in {"insert", "try_emplace", "insert_or_assign", "rehash", "reserve"}
        /\ entries' = {}

Next ==
  \/ Call \/ Finish \/ Get \/ Remove \/ GetMut \/ AddNew \/ KeepOld \/ Overwrite
  \/ Configure \/ EraseEverything \/ Retain \/ PopFront \/ EraseRange \/ Panic

MapSpec == Init /\ [][Next]_mapVars
=============================================================================
