---------------------------- MODULE MapApi_proofs ----------------------------
(* extend and eq: they are clients of the engine, so all that is proved of *)
(* the engine holds in the middle of them; what they do to the map and     *)
(* what they answer.                                                       *)
EXTENDS MapApi, SparseHash_proofs

-----------------------------------------------------------------------------
(* The operations only make calls that the engine knows. *)

(* An operation that has its answer has no call running, and a comparison  *)
(* makes one only for a pair.                                              *)
JobOK ==
  /\ todo \in Seq(Pair) /\ before \subseteq Pair
  /\ job \in Jobs \cup {None}
  /\ job = None => verdict = None
  /\ job = None \/ verdict # None => todo = <<>>
  /\ verdict # None => pc = "idle"
  /\ Comparing /\ pc # "idle" => todo # <<>>

(* What kinds of jobs there are, and that None is none of them nor an      *)
(* answer.                                                                 *)
LEMMA JobsOK ==
  ASSUME NEW j \in Jobs
  PROVE  /\ j # None /\ j.pairs \in Seq(Pair) /\ j.op \in {"extend", "eq"}
         /\ j.op = "extend" => j.pairs \in Batches /\ j.lower \in Nat
         /\ j.op = "eq" => j.pairs \in OtherMaps
BY BatchAssumption, AnswerAssumption DEF Jobs

(* Room is asked for as many elements as there are, and the hint.          *)
LEMMA HintOK ==
  ASSUME Inv, NEW n \in Nat
  PROVE  RoomFor(n) \in Nat
BY DEF RoomFor, Inv, TypeOK, TypesOK

(* An operation that takes an answer ends the engine's call.               *)
LEMMA EngineFinishes ==
  ASSUME pc = "return", EngineIdle, UNCHANGED <<table, limits, cursor, build>>
  PROVE  Finish
BY DEF EngineIdle, Finish

(* Every step of a container is one of its engine, or none.                *)
LEMMA ApiOpens ==
  ASSUME Inv, JobOK, [ApiNext]_apiVars
  PROVE  [OpenNext]_vars
<1>1. CASE Client
  BY <1>1, CallsOK DEF Client, CallOnKey, CallOnWhole, OpenNext, AskKey, AskWhole
<1>2. CASE Engine \/ EnginePanics
  BY <1>2 DEF Engine, EnginePanics, OpenNext
<1>3. CASE Extend
  <2>1. PICK batch \in Batches : \E lower \in {0, Len(batch)} :
          StartOnWhole([op |-> "reserve", count |-> RoomFor(lower)])
    BY <1>3 DEF Extend
  <2>2. batch \in Seq(Pair)
    BY BatchAssumption
  <2>3. \A lower \in {0, Len(batch)} :
          [op |-> "reserve", count |-> RoomFor(lower)] \in WholeRequests
    BY <2>2, HintOK, RequestsOK
  <2> QED
    BY <2>1, <2>3 DEF OpenNext, AskWhole
<1>4. CASE ExtendInserts \/ CompareLooksUp
  <2>1. todo \in Seq(Pair) /\ todo # <<>>
    BY <1>4 DEF JobOK, ExtendInserts, CompareLooksUp
  <2>2. Head(todo)[1] \in Key /\ Head(todo)[2] \in Val
    BY <2>1, NextPair
  <2> QED
    BY <1>4, <2>2, RequestsOK DEF ExtendInserts, CompareLooksUp, OpenNext, AskKey
<1>5. CASE EqualsOther \/ OtherEquals \/ ExtendEnds \/ CompareEnds \/ JobEnds
  BY <1>5 DEF EqualsOther, OtherEquals, ExtendEnds, CompareEnds, JobEnds
<1>6. CASE ComparePair \/ JobPanics
  BY <1>6, EngineFinishes DEF ComparePair, JobPanics, OpenNext, Step
<1>7. CASE UNCHANGED apiVars
  BY <1>7 DEF apiVars
<1> QED
  BY <1>1, <1>2, <1>3, <1>4, <1>5, <1>6, <1>7 DEF ApiNext, Job

(* A verdict comes between engine calls, and a lookup of eq has its pair.  *)
LEMMA JobStep ==
  ASSUME Inv, JobOK, [ApiNext]_apiVars
  PROVE  JobOK'
<1>1. CASE Client
  <2>1. UNCHANGED api /\ job = None
    BY <1>1 DEF Client
  <2> QED
    BY <2>1 DEF JobOK, api, Comparing
<1>2. CASE Engine \/ EnginePanics
  <2>1. UNCHANGED api /\ pc # "idle"
    BY <1>2, StepsRun DEF Engine, EnginePanics
  <2> QED
    BY <2>1 DEF JobOK, api, Comparing
<1>3. CASE Extend
  <2>1. PICK batch \in Batches : \E lower \in {0, Len(batch)} :
          /\ job' = [op |-> "extend", pairs |-> batch, lower |-> lower]
          /\ todo' = batch
    BY <1>3 DEF Extend
  <2>2. batch \in Seq(Pair) /\ Len(batch) \in Nat
    BY BatchAssumption
  <2>3. job' \in Jobs
    BY <2>1, <2>2 DEF Jobs
  <2>4. before' = Entries /\ verdict' = verdict /\ verdict = None
    BY <1>3 DEF Extend, JobOK
  <2>5. job' # None
    BY <2>3, JobsOK
  <2> QED
    BY <2>1, <2>2, <2>3, <2>4, <2>5, EntriesArePairs DEF JobOK, Comparing
<1>4. CASE ExtendInserts
  <2>1. /\ job' = job /\ verdict' = verdict /\ before' = before /\ todo # <<>>
        /\ todo' = Tail(todo) /\ job # None /\ job.op = "extend"
    BY <1>4 DEF ExtendInserts
  <2>2. todo' \in Seq(Pair) /\ verdict = None
    BY <2>1, NextPair DEF JobOK
  <2> QED
    BY <2>1, <2>2 DEF JobOK, Comparing
<1>5. CASE CompareLooksUp
  BY <1>5 DEF CompareLooksUp, api, Comparing, JobOK
<1>6. CASE EqualsOther \/ OtherEquals
  <2>1. PICK other \in OtherMaps :
          /\ job' = [op |-> "eq", pairs |-> other]
          /\ todo' = todo \/ (todo' = other /\ verdict' = verdict)
          /\ pc' = "idle" /\ before' = before /\ job = None
    BY <1>6 DEF EqualsOther, OtherEquals, vars
  <2>2. other \in Seq(Pair) /\ job' \in Jobs
    BY <2>1, BatchAssumption DEF Jobs
  <2>3. job' # None
    BY <2>2, JobsOK
  <2> QED
    BY <2>1, <2>2, <2>3 DEF JobOK
<1>7. CASE ExtendEnds \/ CompareEnds \/ ComparePair \/ JobPanics
  <2>1. /\ job' = job /\ job # None /\ before' = before /\ pc' = "idle"
        /\ \/ todo' = <<>>
           \/ /\ todo' = Tail(todo) /\ verdict' = verdict /\ Comparing
              /\ pc = "return"
    BY <1>7 DEF ExtendEnds, CompareEnds, ComparePair, JobPanics, Answered, vars,
                Comparing, EngineIdle
  <2>2. CASE todo' = <<>>
    BY <2>1, <2>2 DEF JobOK
  <2>3. CASE Comparing /\ todo' = Tail(todo) /\ verdict' = verdict /\ pc = "return"
    <3>1. todo' \in Seq(Pair)
      BY <2>3, NextPair DEF JobOK
    <3> QED
      BY <2>1, <2>3, <3>1 DEF JobOK, Comparing
  <2> QED
    BY <2>1, <2>2, <2>3
<1>8. CASE JobEnds
  <2>1. job' = None /\ verdict' = None /\ before' = {} /\ todo' = todo /\ todo = <<>>
    BY <1>8 DEF JobEnds, JobOK
  <2> QED
    BY <2>1 DEF JobOK, Comparing
<1>9. CASE UNCHANGED apiVars
  BY <1>9 DEF apiVars, api, vars, JobOK, Comparing
<1> QED
  BY <1>1, <1>2, <1>3, <1>4, <1>5, <1>6, <1>7, <1>8, <1>9 DEF ApiNext, Job

(* So an execution of a container is one of the engine under some client.  *)
LEMMA ApiIsOpen == ApiSpec => OpenSpec /\ []JobOK
<1>1. ApiInit => Init /\ Inv /\ JobOK
  BY InitOK DEF ApiInit, JobOK, Comparing
<1>2. Inv /\ JobOK /\ [ApiNext]_apiVars => [OpenNext]_vars /\ JobOK'
  BY ApiOpens, JobStep
<1>3. Inv /\ [OpenNext]_vars => Inv'
  BY NextStep
<1> QED
  BY <1>1, <1>2, <1>3, PTL DEF ApiSpec, OpenSpec

(* The calls that extend and eq make, those of the clients and all panics  *)
(* in between are, together, steps of one map.                             *)
THEOREM MapThroughout == ApiSpec => IsMapThroughout
BY ApiIsOpen, MapHolds, PTL DEF IsMapThroughout

-----------------------------------------------------------------------------
(* extend *)

Extending == job # None /\ job.op = "extend" /\ verdict = None

(* How many pairs of the batch have gone to the engine.                    *)
Sent == Len(job.pairs) - Len(todo)

(* The first pair of each key among the first n of the batch.              *)
FirstUpTo(pairs, n) ==
  { pairs[i] : i \in { i \in 1 .. n : \A j \in 1 .. i - 1 : pairs[j][1] # pairs[i][1] } }

Merged ==
  [n \in Nat |-> before \cup
     { e \in FirstUpTo(job.pairs, n) : \A o \in before : o[1] # e[1] }]

(* The entries are those of before and what was sent since; while an       *)
(* insertion runs, its pair is not in yet.                                 *)
ExtendInv ==
  /\ Extending =>
       /\ Len(todo) <= Len(job.pairs)
       /\ \A i \in 1 .. Len(todo) : todo[i] = job.pairs[Sent + i]
       /\ pc = "idle" \/ (pc = "return" /\ res # Panicked) => Entries = Merged[Sent]
       /\ Working =>
            \/ req.op = "reserve" /\ Sent = 0 /\ Entries = Merged[0]
            \/ /\ req.op = "insert" /\ Sent > 0 /\ Entries = Merged[Sent - 1]
               /\ <<req.key, req.val>> = job.pairs[Sent]
  /\ verdict = TRUE /\ job.op = "extend" => Entries = Merged[Len(job.pairs)]

(* The batch adds a pair when its key is new, and nothing otherwise.       *)
LEMMA MergeNext ==
  ASSUME job.pairs \in Seq(Pair), NEW n \in 1 .. Len(job.pairs)
  PROVE  LET e == job.pairs[n]
         IN Merged[n] = IF \E o \in Merged[n - 1] : o[1] = e[1]
                        THEN Merged[n - 1] ELSE Merged[n - 1] \cup {e}
<1> DEFINE s == job.pairs
           e == s[n]
           New(i) == \A j \in 1 .. i - 1 : s[j][1] # s[i][1]
<1>1. n \in Nat \ {0} /\ n - 1 \in Nat
  OBVIOUS
<1>2. FirstUpTo(s, n) = FirstUpTo(s, n - 1) \cup (IF New(n) THEN {e} ELSE {})
  <2> HIDE DEF s
  <2>1. \A i \in 1 .. n : i = n \/ i \in 1 .. n - 1
    BY <1>1
  <2>2. \A i \in 1 .. n - 1 : i \in 1 .. n
    BY <1>1
  <2>3. n \in 1 .. n /\ n \notin 1 .. n - 1
    BY <1>1
  <2>4. \A x : x \in FirstUpTo(s, n) <=> \E i \in 1 .. n : New(i) /\ x = s[i]
    BY DEF FirstUpTo
  <2>5. \A x : x \in FirstUpTo(s, n - 1) <=> \E i \in 1 .. n - 1 : New(i) /\ x = s[i]
    BY DEF FirstUpTo
  <2> HIDE DEF New
  <2> QED
    BY <2>1, <2>2, <2>3, <2>4, <2>5
<1>3. \A m \in Nat :
        Merged[m] = before \cup { d \in FirstUpTo(s, m) : \A o \in before : o[1] # d[1] }
  BY DEF Merged
<1>4. /\ Merged[n - 1] =
          before \cup { d \in FirstUpTo(s, n - 1) : \A o \in before : o[1] # d[1] }
      /\ Merged[n] =
          before \cup { d \in FirstUpTo(s, n - 1) \cup (IF New(n) THEN {e} ELSE {}) :
                          \A o \in before : o[1] # d[1] }
  BY <1>3, <1>1, <1>2
<1> HIDE DEF s, e, New
<1>5. CASE \E o \in before : o[1] = e[1]
  <2>1. Merged[n] = Merged[n - 1]
    BY <1>5, <1>4
  <2> QED
    BY <1>5, <1>4, <2>1 DEF e, s
<1>6. CASE (\A o \in before : o[1] # e[1]) /\ New(n)
  <2>1. Merged[n] = Merged[n - 1] \cup {e}
    BY <1>6, <1>4
  <2>2. \A o \in FirstUpTo(s, n - 1) : o[1] # e[1]
    BY <1>6 DEF FirstUpTo, New, e
  <2> QED
    BY <1>6, <1>4, <2>1, <2>2 DEF e, s
<1>7. CASE (\A o \in before : o[1] # e[1]) /\ ~New(n)
  <2>1. Merged[n] = Merged[n - 1]
    BY <1>7, <1>4
  <2> DEFINE Earlier == { j \in Nat : j \in 1 .. n - 1 /\ s[j][1] = e[1] }
  <2>2. Earlier \in SUBSET Nat /\ Earlier # {}
    BY <1>1, <1>7 DEF New, e
  <2>3. PICK i \in Earlier : \A j \in Earlier : i <= j
    BY <2>2, LeastNatural
  <2>4. i \in 1 .. n - 1 /\ s[i][1] = e[1] /\ New(i)
    BY <1>1, <2>3 DEF New
  <2>5. s[i] \in FirstUpTo(s, n - 1)
    BY <2>4 DEF FirstUpTo, New
  <2>6. s[i] \in Merged[n - 1]
    BY <1>7, <1>4, <2>4, <2>5
  <2> QED
    BY <2>1, <2>4, <2>6 DEF e, s
<1> QED
  BY <1>5, <1>6, <1>7

(* What an operation leaves alone.                                         *)
LEMMA MergedKept ==
  ASSUME UNCHANGED <<job, before>>
  PROVE  Merged' = Merged
BY DEF Merged, FirstUpTo

(* Every step of the container keeps the invariant of extend.              *)
LEMMA ExtendStep ==
  ASSUME KeyInv, KeyInv', JobOK, ExtendInv, [ApiNext]_apiVars
  PROVE  ExtendInv'
<1>1. Inv /\ [OpenNext]_vars
  BY ApiOpens DEF KeyInv, ProbeInv
<1>2. MapStep
  BY <1>1, EngineMaps
<1>3. CASE UNCHANGED <<pc, req, res, api>> /\ Entries' = Entries
  BY <1>3, MergedKept DEF ExtendInv, Extending, Sent, Working, api
<1>4. CASE Client
  BY <1>4, AnswerAssumption DEF Client, api, ExtendInv, Extending, JobOK
<1>5. CASE (Engine \/ EnginePanics) /\ Extending
  <2>1. UNCHANGED api /\ pc # "idle" /\ Extending'
    BY <1>5, StepsRun DEF Engine, EnginePanics, api, Extending
  <2>2. Sent' = Sent /\ Merged' = Merged
    BY <2>1, MergedKept DEF Sent, api
  <2>3. CASE Working /\ req.op = "reserve"
    <3>1. /\ req' = req /\ (Working' \/ pc' = "return")
          /\ Entries' = Entries \/ (pc' = "return" /\ res' = Panicked)
      BY <1>2, <2>3, ReserveRuns
    <3>2. Sent = 0 /\ Entries = Merged[0] /\ Working
      BY <1>5, <2>3 DEF ExtendInv
    <3>3. /\ UNCHANGED <<job, todo, verdict>> /\ verdict = None
          /\ Len(todo) <= Len(job.pairs)
          /\ \A i \in 1 .. Len(todo) : todo[i] = job.pairs[Sent + i]
      BY <1>5, <2>1 DEF ExtendInv, Extending, api
    <3> QED
      BY <2>1, <2>2, <2>3, <3>1, <3>2, <3>3, AnswerAssumption DEF ExtendInv, Working
  <2>4. CASE Working /\ req.op = "insert"
    <3>1. /\ Sent > 0 /\ Entries = Merged[Sent - 1] /\ Len(todo) <= Len(job.pairs)
          /\ <<req.key, req.val>> = job.pairs[Sent]
      BY <1>5, <2>4 DEF ExtendInv
    <3>2. job.pairs \in Seq(Pair) /\ Sent \in 1 .. Len(job.pairs)
      BY <1>5, <3>1, JobsOK DEF Extending, JobOK, Sent
    <3>3. job.pairs[Sent][1] = req.key
      BY <3>1
    <3>4. Merged[Sent] = IF \E o \in Entries : o[1] = req.key
                         THEN Entries ELSE Entries \cup {<<req.key, req.val>>}
      <4> DEFINE m == Sent
      <4>1. m \in 1 .. Len(job.pairs)
        BY <3>2
      <4> HIDE DEF m
      <4>2. LET e == job.pairs[m]
            IN Merged[m] = IF \E o \in Merged[m - 1] : o[1] = e[1]
                           THEN Merged[m - 1] ELSE Merged[m - 1] \cup {e}
        BY <3>2, <4>1, MergeNext
      <4> QED
        BY <3>1, <3>3, <4>2 DEF m
    <3>5. (\E o \in Entries : o[1] = req.key) <=> Map!Has(req.key)
      BY <1>1, EntriesArePairs, HasByKey
    <3>6. pc' = "return" => res' = Panicked \/ Entries' = Merged[Sent]
      BY <1>2, <2>4, <3>4, <3>5, InsertRuns DEF Working
    <3>7. Working' => Entries' = Entries
      BY <1>2, <2>4, InsertRuns DEF Working
    <3>8. req' = req /\ (Working' \/ pc' = "return")
      BY <1>2, <2>4, InsertRuns
    <3>9. /\ UNCHANGED <<job, todo, verdict>> /\ verdict = None
          /\ \A i \in 1 .. Len(todo) : todo[i] = job.pairs[Sent + i]
      BY <1>5, <2>1 DEF ExtendInv, Extending, api
    <3> QED
      BY <2>1, <2>2, <2>4, <3>1, <3>6, <3>7, <3>8, <3>9, AnswerAssumption
      DEF ExtendInv, Working
  <2>5. CASE pc = "return"
    <3>1. res # Panicked /\ pc' = "idle" /\ TablesKept
      BY <1>5, <2>5
      DEF Engine, EnginePanics, HasherPanics, Extending, Step, Find, FindNoBuckets,
          FindNoArrays, FindHit, FindMiss, FindAdvance, Drain, DrainNext, SwapIn,
          SwapNested, Place, PlaceHere, PlaceAdvance, PlaceExhausted, Placing, Insert,
          InsertNoArrays, InsertExhausted, InsertHit, InsertAdvance, InsertEmpty,
          Inserting, WholeTable, Resize, Clear, EraseAll, Retain, PopFront, EraseRange,
          SetMaxLoadFactor, Whole, Finish, TablesKept, table
    <3>2. Entries' = Entries
      BY <3>1, KeptMoves DEF KeyInv
    <3> QED
      BY <1>5, <2>1, <2>2, <2>5, <3>1, <3>2, AnswerAssumption
      DEF ExtendInv, Working, Extending, api
  <2> QED
    BY <1>5, <2>1, <2>3, <2>4, <2>5 DEF ExtendInv, Working
<1>6. CASE (Engine \/ EnginePanics) /\ ~Extending
  <2>1. UNCHANGED api /\ pc # "idle"
    BY <1>6, StepsRun DEF Engine, EnginePanics
  <2> QED
    BY <1>6, <2>1, AnswerAssumption DEF ExtendInv, Extending, JobOK, api
<1>7. CASE Extend
  <2>1. PICK batch \in Batches : \E lower \in {0, Len(batch)} :
          /\ job' = [op |-> "extend", pairs |-> batch, lower |-> lower]
          /\ todo' = batch
          /\ StartOnWhole([op |-> "reserve", count |-> RoomFor(lower)])
    BY <1>7 DEF Extend
  <2>2. Entries' = Entries /\ req'.op = "reserve" /\ pc' = "whole"
    BY <2>1, AskingKeeps DEF StartOnWhole
  <2>3. before' = Entries /\ verdict' = None
    BY <1>7 DEF Extend, JobOK
  <2>4. batch \in Seq(Pair) /\ job'.pairs = batch /\ todo' = batch
    BY <2>1, BatchAssumption
  <2>5. Sent' = 0 /\ Len(todo') \in Nat
    BY <2>4 DEF Sent
  <2>6. Merged'[0] = before'
    BY DEF Merged, FirstUpTo
  <2>7. \A i \in 1 .. Len(todo') : todo'[i] = job'.pairs[Sent' + i]
    BY <2>4, <2>5
  <2>8. Len(todo') <= Len(job'.pairs)
    BY <2>4
  <2> QED
    BY <2>2, <2>3, <2>5, <2>6, <2>7, <2>8, AnswerAssumption DEF ExtendInv, Working
<1>8. CASE ExtendInserts
  <2>1. /\ Extending /\ Extending' /\ UNCHANGED <<job, before, verdict>>
        /\ todo # <<>> /\ todo' = Tail(todo)
    BY <1>8 DEF ExtendInserts, Extending, JobOK
  <2>2. /\ todo \in Seq(Pair) /\ job.pairs \in Seq(Pair)
        /\ Head(todo) = <<Head(todo)[1], Head(todo)[2]>>
    BY <2>1, NextPair, JobsOK DEF JobOK, Extending
  <2>3. /\ StartOnKey([op |-> "insert", key |-> Head(todo)[1], val |-> Head(todo)[2]])
    BY <1>8 DEF ExtendInserts
  <2>4. /\ Entries' = Entries /\ pc = "idle" /\ pc' = "insert" /\ req'.op = "insert"
        /\ <<req'.key, req'.val>> = Head(todo)
    BY <2>2, <2>3, AskingKeeps DEF StartOnKey
  <2>5. /\ Len(todo') = Len(todo) - 1 /\ Len(todo) \in Nat \ {0}
        /\ Len(job.pairs) \in Nat
        /\ \A i \in 1 .. Len(todo) - 1 : todo'[i] = todo[i + 1]
        /\ Head(todo) = todo[1]
    BY <2>1, <2>2
  <2>6. Sent' = Sent + 1 /\ Sent \in Nat
    BY <2>1, <2>5 DEF Sent, ExtendInv
  <2>7. Head(todo) = job.pairs[Sent + 1] /\ Entries = Merged[Sent]
    BY <2>1, <2>4, <2>5 DEF ExtendInv
  <2>8. \A i \in 1 .. Len(todo') : todo'[i] = job'.pairs[Sent' + i]
    <3> SUFFICES ASSUME NEW i \in 1 .. Len(todo')
                 PROVE  todo'[i] = job'.pairs[Sent' + i]
      OBVIOUS
    <3>1. i + 1 \in 1 .. Len(todo) /\ todo'[i] = todo[i + 1]
      BY <2>5
    <3>2. todo[i + 1] = job.pairs[Sent + (i + 1)]
      BY <2>1, <3>1 DEF ExtendInv
    <3>3. Sent + (i + 1) = Sent' + i
      BY <2>6
    <3> QED
      BY <2>1, <3>1, <3>2, <3>3
  <2>9. Len(todo') <= Len(job'.pairs)
    BY <2>1, <2>5 DEF ExtendInv
  <2>10. Sent' - 1 = Sent /\ Sent' > 0 /\ Merged' = Merged
    BY <2>1, <2>6, MergedKept
  <2>11. verdict' = None
    BY <2>1 DEF Extending
  <2> QED
    BY <2>1, <2>4, <2>6, <2>7, <2>8, <2>9, <2>10, <2>11, AnswerAssumption
    DEF ExtendInv, Working
<1>9. CASE ExtendEnds
  <2>1. /\ Extending /\ pc = "idle" /\ todo = <<>> /\ UNCHANGED <<vars, job, before>>
        /\ verdict' = TRUE
    BY <1>9 DEF ExtendEnds, Extending, Answered
  <2>2. Entries' = Entries
    BY <2>1, KeptMoves DEF KeyInv, vars, table, TablesKept
  <2>3. Sent = Len(job.pairs) /\ Entries = Merged[Sent]
    <3>1. job.pairs \in Seq(Pair)
      BY <2>1, JobsOK DEF JobOK, Extending
    <3> QED
      BY <2>1, <3>1 DEF Sent, ExtendInv
  <2>4. Merged' = Merged
    BY <2>1, MergedKept
  <2> QED
    BY <2>1, <2>2, <2>3, <2>4, AnswerAssumption DEF ExtendInv, Extending
<1>10. CASE EqualsOther \/ OtherEquals
  <2>1. PICK other \in OtherMaps : job' = [op |-> "eq", pairs |-> other]
    BY <1>10 DEF EqualsOther, OtherEquals
  <2> QED
    BY <2>1 DEF ExtendInv, Extending
<1>11. CASE CompareLooksUp \/ ComparePair \/ CompareEnds
  <2>1. job' = job /\ job.op = "eq"
    BY <1>11 DEF CompareLooksUp, ComparePair, CompareEnds, Comparing, Answered, api
  <2> QED
    BY <2>1 DEF ExtendInv, Extending
<1>12. CASE JobPanics
  BY <1>12, AnswerAssumption DEF JobPanics, Answered, ExtendInv, Extending
<1>13. CASE JobEnds
  BY <1>13, AnswerAssumption DEF JobEnds, ExtendInv, Extending
<1>14. CASE UNCHANGED apiVars
  <2>1. Entries' = Entries
    BY <1>14, KeptMoves DEF KeyInv, apiVars, vars, table, TablesKept
  <2> QED
    BY <1>3, <1>14, <2>1 DEF apiVars, vars
<1> QED
  BY <1>4, <1>5, <1>6, <1>7, <1>8, <1>9, <1>10, <1>11, <1>12, <1>13, <1>14
  DEF ApiNext, Job

(* So it holds throughout.                                                 *)
LEMMA ExtendInvHolds == ApiSpec => []ExtendInv
<1>1. ApiInit => ExtendInv
  BY AnswerAssumption DEF ApiInit, ExtendInv, Extending
<1>2. KeyInv /\ KeyInv' /\ JobOK /\ ExtendInv /\ [ApiNext]_apiVars => ExtendInv'
  BY ExtendStep
<1> QED
  BY <1>1, <1>2, ApiIsOpen, KeyInvHolds, PTL DEF ApiSpec

(* An extension that comes to its end has added exactly the first pair of  *)
(* each key that the map did not have, however the table grew, was cleaned *)
(* up or rebuilt meanwhile, and with whatever hint its reservation was     *)
(* made.                                                                   *)
THEOREM FirstKept == ApiSpec => []ExtendKeepsFirst
<1>1. JobOK /\ ExtendInv => ExtendKeepsFirst
  <2> SUFFICES ASSUME JobOK, ExtendInv, verdict = TRUE, job.op = "extend"
               PROVE  Entries = before \cup
                        { e \in FirstOf(job.pairs) : \A o \in before : o[1] # e[1] }
    BY DEF ExtendKeepsFirst
  <2>1. Entries = Merged[Len(job.pairs)]
    BY DEF ExtendInv
  <2>2. job.pairs \in Seq(Pair)
    BY AnswerAssumption, JobsOK DEF JobOK
  <2>3. FirstOf(job.pairs) = FirstUpTo(job.pairs, Len(job.pairs))
    BY <2>2 DEF FirstOf, FirstUpTo
  <2> QED
    BY <2>1, <2>3 DEF Merged
<1> QED
  BY <1>1, ApiIsOpen, ExtendInvHolds, PTL

-----------------------------------------------------------------------------
(* eq *)

AnswerFor == Map!Lookup(req.key)

(* The pairs that were compared are in the map; a lookup that has returned *)
(* has the map's answer for the next one.                                  *)
CompareInv ==
  /\ Comparing =>
       /\ nb_elements = Len(job.pairs) /\ Len(todo) <= Len(job.pairs)
       /\ \A i \in 1 .. Len(todo) : todo[i] = job.pairs[Sent + i]
       /\ \A i \in 1 .. Sent : job.pairs[i] \in Entries
       /\ pc \in {"idle", "find", "return"}
       /\ pc # "idle" => req.op = "get" /\ req.key = Head(todo)[1]
       /\ pc = "return" => res = Panicked \/ res = AnswerFor
  /\ job # None /\ job.op = "eq" /\ ~Torn =>
       /\ verdict = TRUE => Entries = PairsOf(job.pairs)
       /\ verdict = FALSE => Entries # PairsOf(job.pairs)

(* Of two maps of the same size none holds all of the other and more.      *)
LEMMA SizesDecide ==
  ASSUME KeyInv, ~Rehashing, ~Torn, NEW s \in OtherMaps
  PROVE  /\ (SameSize(s) /\ Entries \subseteq PairsOf(s)) <=> Entries = PairsOf(s)
         /\ (SameSize(s) /\ PairsOf(s) \subseteq Entries) <=> Entries = PairsOf(s)
<1>1. s \in Seq(Pair) /\ \A i, j \in DOMAIN s : s[i][1] = s[j][1] => i = j
  BY BatchAssumption
<1> DEFINE m == Len(s)
           P == PairsOf(s)
           f == [i \in 1 .. m |-> s[i]]
<1>2. m \in Nat /\ DOMAIN s = 1 .. m
  BY <1>1
<1>3. f \in Surjection(1 .. m, P)
  BY <1>2 DEF PairsOf, Surjection
<1>4. f \in Injection(1 .. m, P)
  BY <1>1, <1>2 DEF PairsOf, Injection, IsInjective
<1> HIDE DEF f, P, m
<1>5. IsFiniteSet(1 .. m) /\ Cardinality(1 .. m) = m
  BY <1>2, FS_Interval
<1>6. IsFiniteSet(P) /\ Cardinality(P) = m
  BY <1>3, <1>4, <1>5, FS_Surjection
<1>7. nb_elements = Cardinality(Entries)
  BY OwnCount DEF KeyInv, ProbeInv, Inv, CountersAgree
<1>8. IsFiniteSet(Entries) /\ Cardinality(Entries) \in Nat
  BY EntriesFinite
<1>9. Cardinality(Entries) = Cardinality(P) /\ Entries \subseteq P => Entries = P
  BY <1>6, FS_Subset
<1>10. Cardinality(Entries) = Cardinality(P) /\ P \subseteq Entries => Entries = P
  BY <1>8, FS_Subset
<1> QED
  BY <1>6, <1>7, <1>9, <1>10 DEF SameSize, P, m

(* What the engine finds for a key is the pair that is compared, or else   *)
(* the map does not hold that pair.                                        *)
LEMMA LookupDecides ==
  ASSUME KeyInv, ~Rehashing, NEW e \in Pair
  PROVE  LET r == Map!Lookup(e[1]) IN (r.hit /\ r.entry = e) <=> e \in Entries
<1> DEFINE r == Map!Lookup(e[1])
<1>1. Entries = HeldIn(sparse_buckets)
  BY OwnTable
<1>2. CASE \E i \in Occupied(sparse_buckets) : sparse_buckets[i][1] = e[1]
  <2>1. PICK i \in Occupied(sparse_buckets) : sparse_buckets[i][1] = e[1]
    BY <1>2
  <2>2. r = Answer(TRUE, sparse_buckets[i])
    BY <2>1, MapHit
  <2>3. r.hit /\ r.entry = sparse_buckets[i] /\ sparse_buckets[i] \in Entries
    BY <1>1, <2>2 DEF Answer, HeldIn
  <2>4. e \in Entries => e = sparse_buckets[i]
    BY <1>1, <2>1, OwnTable DEF HeldIn, KeysApart
  <2> QED
    BY <2>3, <2>4
<1>3. CASE \A i \in Occupied(sparse_buckets) : sparse_buckets[i][1] # e[1]
  <2>1. r = Done
    BY <1>3, MapMiss
  <2>2. ~r.hit
    BY <2>1 DEF Done, Answer
  <2>3. e \notin Entries
    BY <1>1, <1>3 DEF HeldIn
  <2> QED
    BY <2>2, <2>3
<1> QED
  BY <1>2, <1>3

(* A lookup changes nothing on its way.                                    *)
LEMMA GetKeeps ==
  ASSUME Step \/ HasherPanics, pc = "find", req.op = "get"
  PROVE  UNCHANGED <<table, build, req>> /\ pc' \in {"find", "return"}
<1>1. CASE FindHit
  <2>1. UNCHANGED <<sparse_buckets, nb_elements, nb_deleted_buckets, bucket_count>>
    BY <1>1 DEF FindHit
  <2> QED
    BY <1>1, <2>1 DEF FindHit, Return, table
<1>2. CASE ~FindHit
  BY <1>2
  DEF Step, HasherPanics, Find, FindNoBuckets, FindNoArrays, FindMiss, FindAdvance,
      Absent, Return, Drain, DrainNext, SwapIn, SwapNested, Place, PlaceHere,
      PlaceAdvance, PlaceExhausted, Placing, Insert, InsertNoArrays, InsertExhausted,
      InsertHit, InsertAdvance, InsertEmpty, Inserting, WholeTable, Resize, Clear,
      EraseAll, Retain, PopFront, EraseRange, SetMaxLoadFactor, Whole, Finish
<1> QED
  BY <1>1, <1>2

(* A lookup that has answered did so from the entries there are.           *)
LEMMA GetAnswers ==
  ASSUME MapStep, Working, req.op = "get", pc' = "return"
  PROVE  res' = Panicked \/ res' = AnswerFor
BY PhaseIs, PhaseIsNext
DEF MapStep, Map!Next, Map!mapVars, Map!Call, Map!Finish, Map!Get, Map!Remove,
    Map!GetMut, Map!AddNew, Map!KeepOld, Map!Overwrite, Map!Configure,
    Map!EraseEverything, Map!Retain, Map!PopFront, Map!EraseRange, Map!Panic,
    Map!Asked, Map!Respond, AnswerFor

(* The right answer depends on the entries and the request only.           *)
LEMMA AnswerKept ==
  ASSUME Entries' = Entries, req' = req
  PROVE  AnswerFor' = AnswerFor
BY DEF AnswerFor, Map!Lookup, Map!Has, Map!EntryOf, Map!Answer, Map!Done

(* A step that keeps the tables keeps the entries, and a torn table torn.  *)
LEMMA TablesKeep ==
  ASSUME KeyInv, UNCHANGED <<table, build>>, ~Rehashing, ~Rehashing'
  PROVE  Entries' = Entries /\ nb_elements' = nb_elements /\ Torn' = Torn
<1>1. TablesKept
  BY DEF TablesKept, table
<1> QED
  BY <1>1, KeptMoves DEF KeyInv, table, Torn

(* Every step of the container keeps the invariant of eq.                  *)
LEMMA CompareStep ==
  ASSUME KeyInv, KeyInv', JobOK, CompareInv, [ApiNext]_apiVars
  PROVE  CompareInv'
<1>1. Inv /\ [OpenNext]_vars
  BY ApiOpens DEF KeyInv, ProbeInv
<1>2. MapStep
  BY <1>1, EngineMaps
<1>3. CASE Client
  BY <1>3 DEF Client, api, CompareInv, Comparing
<1>4. CASE (Engine \/ EnginePanics) /\ Comparing
  <2>1. /\ UNCHANGED api /\ pc # "idle" /\ pc # "return" /\ Comparing'
        /\ Step \/ HasherPanics
    BY <1>4, StepsRun DEF Engine, EnginePanics, HasherPanics, api, Comparing
  <2>2. pc = "find" /\ req.op = "get" /\ req.key = Head(todo)[1]
    BY <1>4, <2>1 DEF CompareInv
  <2>3. UNCHANGED <<table, build, req>> /\ pc' \in {"find", "return"}
    BY <2>1, <2>2, GetKeeps
  <2>4. Entries' = Entries /\ nb_elements' = nb_elements /\ Torn' = Torn
    BY <2>2, <2>3, TablesKeep DEF Rehashing
  <2>5. pc' = "return" => res' = Panicked \/ res' = AnswerFor'
    BY <1>2, <2>2, <2>3, <2>4, GetAnswers, AnswerKept DEF Working
  <2>6. Sent' = Sent /\ verdict' = None /\ UNCHANGED <<job, todo>>
    BY <1>4, <2>1 DEF api, Sent, Comparing
  <2> QED
    BY <1>4, <2>1, <2>2, <2>3, <2>4, <2>5, <2>6, AnswerAssumption DEF CompareInv
<1>5. CASE (Engine \/ EnginePanics) /\ ~Comparing
  <2>1. UNCHANGED api /\ pc # "idle"
    BY <1>5, StepsRun DEF Engine, EnginePanics
  <2> QED
    BY <1>5, <2>1, AnswerAssumption DEF CompareInv, Comparing, JobOK, api
<1>6. CASE Extend
  <2>1. PICK batch \in Batches : \E lower \in {0, Len(batch)} :
          job' = [op |-> "extend", pairs |-> batch, lower |-> lower]
    BY <1>6 DEF Extend
  <2> QED
    BY <2>1 DEF CompareInv, Comparing
<1>7. CASE ExtendInserts \/ ExtendEnds
  <2>1. job' = job /\ job.op = "extend"
    BY <1>7 DEF ExtendInserts, ExtendEnds, Answered
  <2> QED
    BY <2>1 DEF CompareInv, Comparing
<1>8. CASE EqualsOther \/ OtherEquals
  <2>1. /\ UNCHANGED vars /\ pc = "idle" /\ verdict = None
        /\ ~Rehashing /\ ~Rehashing'
    BY <1>8 DEF EqualsOther, OtherEquals, JobOK, Rehashing, vars
  <2>2. Entries' = Entries /\ nb_elements' = nb_elements /\ Torn' = Torn
    BY <2>1, TablesKeep DEF vars
  <2>3. PICK other \in OtherMaps :
          /\ job' = [op |-> "eq", pairs |-> other]
          /\ \/ verdict' = ( /\ SameSize(other)
                             /\ \A i \in Occupied(sparse_buckets) :
                                  sparse_buckets[i] \in PairsOf(other) )
             \/ ~SameSize(other) /\ verdict' = FALSE
             \/ SameSize(other) /\ todo' = other /\ verdict' = verdict
    BY <1>8 DEF EqualsOther, OtherEquals
  <2>4. job'.pairs = other /\ other \in Seq(Pair) /\ Len(other) \in Nat
    BY <2>3, BatchAssumption
  <2>5. (\A i \in Occupied(sparse_buckets) : sparse_buckets[i] \in PairsOf(other))
          <=> Entries \subseteq PairsOf(other)
    BY <2>1, OwnTable DEF HeldIn
  <2>6. ~Torn => ((SameSize(other) /\ Entries \subseteq PairsOf(other))
                    <=> Entries = PairsOf(other))
    BY <2>1, SizesDecide
  <2>7. CASE verdict' \in BOOLEAN
    <3>1. verdict' = TRUE => SameSize(other) /\ Entries \subseteq PairsOf(other)
      BY <2>1, <2>3, <2>5, AnswerAssumption
    <3>2. verdict' = FALSE => ~(SameSize(other) /\ Entries \subseteq PairsOf(other))
      BY <2>1, <2>3, <2>5, AnswerAssumption
    <3>3. ~Comparing'
      BY <2>7, AnswerAssumption DEF Comparing
    <3>4. ~Torn' => /\ verdict' = TRUE => Entries' = PairsOf(job.pairs)'
                    /\ verdict' = FALSE => Entries' # PairsOf(job.pairs)'
      BY <2>2, <2>4, <2>6, <3>1, <3>2 DEF PairsOf
    <3> QED
      BY <3>3, <3>4 DEF CompareInv
  <2>8. CASE SameSize(other) /\ todo' = other /\ verdict' = verdict
    <3>1. Sent' = 0 /\ Len(todo') <= Len(job'.pairs)
      BY <2>4, <2>8 DEF Sent
    <3>2. nb_elements' = Len(job'.pairs) /\ pc' = "idle"
      BY <2>1, <2>2, <2>4, <2>8 DEF SameSize, vars
    <3>3. /\ \A i \in 1 .. Len(todo') : todo'[i] = job'.pairs[Sent' + i]
          /\ \A i \in 1 .. Sent' : job'.pairs[i] \in Entries'
      BY <2>4, <2>8, <3>1
    <3>4. verdict' \notin BOOLEAN
      BY <2>1, <2>8, AnswerAssumption
    <3> QED
      BY <3>1, <3>2, <3>3, <3>4 DEF CompareInv
  <2> QED
    BY <2>3, <2>7, <2>8
<1>9. CASE CompareLooksUp
  <2>1. /\ UNCHANGED <<api, table, build>> /\ pc = "idle" /\ Comparing
        /\ pc' = "find" /\ req' = [op |-> "get", key |-> Head(todo)[1]]
    BY <1>9 DEF CompareLooksUp, StartOnKey
  <2>2. Entries' = Entries /\ nb_elements' = nb_elements /\ Torn' = Torn
    BY <2>1, TablesKeep DEF Rehashing
  <2>3. Sent' = Sent /\ verdict' = None /\ UNCHANGED <<job, todo>>
    BY <2>1 DEF api, Sent, Comparing
  <2> QED
    BY <2>1, <2>2, <2>3, AnswerAssumption DEF CompareInv
<1>10. CASE ComparePair
  <2>1. /\ Comparing /\ pc = "return" /\ res # Panicked /\ pc' = "idle"
        /\ UNCHANGED <<job, table, build>> /\ todo # <<>>
    BY <1>10 DEF ComparePair, EngineIdle, Answered, JobOK
  <2>2. Entries' = Entries /\ nb_elements' = nb_elements /\ Torn' = Torn
    BY <2>1, TablesKeep DEF Rehashing
  <2>3. /\ todo \in Seq(Pair) /\ job.pairs \in Seq(Pair) /\ Head(todo) \in Pair
        /\ job.op = "eq" /\ verdict = None /\ Sent \in Nat
    BY <2>1, NextPair, JobsOK DEF JobOK, Comparing, CompareInv, Sent
  <2>4. (res.hit /\ res.entry = Head(todo)) <=> Head(todo) \in Entries
    <3> DEFINE e == Head(todo)
    <3>1. res = Map!Lookup(e[1])
      BY <2>1 DEF CompareInv, AnswerFor
    <3>2. LET r == Map!Lookup(e[1]) IN (r.hit /\ r.entry = e) <=> e \in Entries
      BY <2>1, <2>3, LookupDecides DEF Rehashing
    <3> QED
      BY <3>1, <3>2
  <2>5. /\ Head(todo) = todo[1] /\ 1 \in 1 .. Len(todo) /\ Len(todo) \in Nat
        /\ Len(job.pairs) \in Nat
    BY <2>1, <2>3
  <2>6. Head(todo) = job.pairs[Sent + 1] /\ Sent + 1 \in 1 .. Len(job.pairs)
    BY <2>1, <2>5 DEF CompareInv, Sent
  <2>7. CASE Head(todo) \in Entries
    <3>1. todo' = Tail(todo) /\ verdict' = verdict
      BY <1>10, <2>4, <2>7 DEF ComparePair
    <3>2. /\ Len(todo') = Len(todo) - 1
          /\ \A i \in 1 .. Len(todo) - 1 : todo'[i] = todo[i + 1]
      BY <2>1, <2>3, <3>1
    <3>3. Sent' = Sent + 1
      BY <2>1, <2>5, <3>2 DEF Sent
    <3>4. \A i \in 1 .. Len(todo') : todo'[i] = job'.pairs[Sent' + i]
      <4> SUFFICES ASSUME NEW i \in 1 .. Len(todo')
                   PROVE  todo'[i] = job'.pairs[Sent' + i]
        OBVIOUS
      <4>1. i + 1 \in 1 .. Len(todo) /\ todo'[i] = todo[i + 1]
        BY <2>5, <3>2
      <4>2. todo[i + 1] = job.pairs[Sent + (i + 1)]
        BY <2>1, <4>1 DEF CompareInv
      <4>3. Sent + (i + 1) = Sent' + i
        BY <2>3, <3>3
      <4> QED
        BY <2>1, <4>1, <4>2, <4>3
    <3>5. \A i \in 1 .. Sent' : job'.pairs[i] \in Entries'
      <4>1. \A i \in 1 .. Sent' : i \in 1 .. Sent \/ i = Sent + 1
        BY <2>3, <3>3
      <4>2. \A i \in 1 .. Sent : job.pairs[i] \in Entries
        BY <2>1 DEF CompareInv
      <4> QED
        BY <2>1, <2>2, <2>6, <2>7, <4>1, <4>2
    <3>6. nb_elements' = Len(job'.pairs) /\ Len(todo') <= Len(job'.pairs)
      BY <2>1, <2>2, <2>5, <3>2 DEF CompareInv
    <3> QED
      BY <2>1, <2>3, <3>1, <3>4, <3>5, <3>6, AnswerAssumption DEF CompareInv
  <2>8. CASE Head(todo) \notin Entries
    <3>1. verdict' = FALSE
      BY <1>10, <2>4, <2>8 DEF ComparePair, Answered
    <3>2. Head(todo) \in PairsOf(job.pairs)
      BY <2>3, <2>6 DEF PairsOf
    <3> QED
      BY <2>1, <2>2, <2>8, <3>1, <3>2, AnswerAssumption DEF CompareInv, Comparing
  <2> QED
    BY <2>7, <2>8
<1>11. CASE CompareEnds
  <2>1. /\ Comparing /\ pc = "idle" /\ todo = <<>> /\ UNCHANGED <<vars, job>>
        /\ verdict' = TRUE
    BY <1>11 DEF CompareEnds, Answered
  <2>2. Entries' = Entries /\ nb_elements' = nb_elements /\ Torn' = Torn
    BY <2>1, TablesKeep DEF Rehashing, vars
  <2>3. job.pairs \in OtherMaps /\ job.pairs \in Seq(Pair) /\ Sent = Len(job.pairs)
    BY <2>1, JobsOK DEF JobOK, Comparing, Sent
  <2>4. SameSize(job.pairs) /\ PairsOf(job.pairs) \subseteq Entries
    BY <2>1, <2>3 DEF CompareInv, SameSize, PairsOf
  <2>5. ~Torn => Entries = PairsOf(job.pairs)
    BY <2>1, <2>3, <2>4, SizesDecide DEF Rehashing
  <2> QED
    BY <2>1, <2>2, <2>5, AnswerAssumption DEF CompareInv, Comparing
<1>12. CASE JobPanics
  BY <1>12, AnswerAssumption DEF JobPanics, Answered, CompareInv, Comparing
<1>13. CASE JobEnds
  BY <1>13, AnswerAssumption DEF JobEnds, CompareInv, Comparing
<1>14. CASE UNCHANGED apiVars
  <2>1. TablesKept /\ UNCHANGED <<pc, req, res, nb_elements, job, todo, verdict>>
    BY <1>14 DEF apiVars, api, vars, table, TablesKept
  <2>2. Entries' = Entries
    BY <2>1, KeptMoves DEF KeyInv
  <2>3. AnswerFor' = AnswerFor /\ Sent' = Sent /\ Torn' = Torn
    BY <2>1, <2>2, AnswerKept DEF Sent, Torn, Rehashing, TablesKept
  <2> QED
    BY <2>1, <2>2, <2>3 DEF CompareInv, Comparing
<1> QED
  BY <1>3, <1>4, <1>5, <1>6, <1>7, <1>8, <1>9, <1>10, <1>11, <1>12, <1>13, <1>14
  DEF ApiNext, Job

(* So it holds throughout.                                                 *)
LEMMA CompareInvHolds == ApiSpec => []CompareInv
<1>1. ApiInit => CompareInv
  BY AnswerAssumption DEF ApiInit, CompareInv, Comparing
<1>2. KeyInv /\ KeyInv' /\ JobOK /\ CompareInv /\ [ApiNext]_apiVars => CompareInv'
  BY CompareStep
<1> QED
  BY <1>1, <1>2, ApiIsOpen, KeyInvHolds, PTL DEF ApiSpec

(* Equality answers whether the entries are the same, whichever of the two *)
(* maps eq is called on and whatever tombstones, bucket counts and probe   *)
(* paths the table has: the sizes and one inclusion decide.                *)
THEOREM EqualityDecides == ApiSpec => []EqualityIsContents
<1>1. JobOK /\ CompareInv => EqualityIsContents
  <2> SUFFICES ASSUME JobOK, CompareInv, verdict \in BOOLEAN, job.op = "eq", ~Torn
               PROVE  verdict <=> Entries = PairsOf(job.pairs)
    BY DEF EqualityIsContents
  <2>1. job # None
    BY AnswerAssumption DEF JobOK
  <2>2. /\ verdict = TRUE => Entries = PairsOf(job.pairs)
        /\ verdict = FALSE => Entries # PairsOf(job.pairs)
    BY <2>1 DEF CompareInv
  <2> QED
    BY <2>2, Zenon
<1> QED
  BY <1>1, ApiIsOpen, CompareInvHolds, PTL

-----------------------------------------------------------------------------
(* extend with an exact hint *)

Exact == Extending /\ job.lower = Len(job.pairs)

(* How many elements go in before the table grows.                         *)
Spare == load_threshold_rehash - nb_elements

NoWaste == ~Torn /\ nb_deleted_buckets = 0

(* The reservation has room for all that is left of the batch, and for the *)
(* pair that is being inserted.                                            *)
HintInv ==
  Exact =>
    /\ Working => pc = "insert" \/ req.op = "reserve"
    /\ Working /\ req.op = "reserve" =>
         req.count \in Nat /\ Cardinality(Entries) + Len(todo) <= req.count
    /\ pc = "idle" \/ (pc = "return" /\ res # Panicked) => NoWaste /\ Len(todo) <= Spare
    /\ pc = "insert" => NoWaste /\ Len(todo) + 1 <= Spare

(* With room to spare an insertion stops at the key or at an empty slot.   *)
LEMMA InsertFits ==
  ASSUME OnlyPowersOfTwo, RoomInv, Insert, NoWaste, Spare >= 1
  PROVE  /\ InsertHit \/ InsertAdvance \/ PutAt(ibucket, 0)
         /\ sparse_buckets # NoArrays
<1>1. /\ pc = "insert" /\ ~Rehashing
      /\ nb_elements \in Nat /\ bucket_count \in Nat
      /\ max_load_factor \in 1 .. 8 /\ probe \in Nat
      /\ load_threshold_rehash \in Nat /\ load_threshold_clear_deleted \in Nat
  <2>1. pc = "insert" /\ ~Rehashing
    BY DEF Insert, InsertNoArrays, InsertExhausted, InsertHit, InsertAdvance, InsertEmpty,
           Inserting, Rehashing
  <2> QED
    BY <2>1, SizesAreNat DEF RoomInv, KeyInv, ProbeInv, Inv, TypeOK, TypesOK
<1>2. nb_elements < load_threshold_rehash
  BY <1>1 DEF Spare
<1>3. /\ nb_elements + nb_deleted_buckets < load_threshold_clear_deleted
      /\ bucket_count > 0
  <2> DEFINE n == bucket_count
             load == max_load_factor
  <2>1. /\ load_threshold_rehash = ThresholdRehash(n, load)
        /\ load_threshold_clear_deleted = ThresholdClear(n, load)
    BY DEF RoomInv, ThresholdsFresh
  <2>2. n \in Nat /\ load \in 1 .. 8
    BY <1>1
  <2> HIDE DEF n, load
  <2>3. /\ ThresholdRehash(n, load) <= ThresholdClear(n, load)
        /\ n = 0 => ThresholdRehash(n, load) = 0
    BY <2>2, CleanupAfterGrowth
  <2>4. n > 0
    BY <1>1, <1>2, <2>1, <2>2, <2>3
  <2> QED
    BY <1>1, <1>2, <2>1, <2>3, <2>4 DEF NoWaste, n
<1>4. sparse_buckets # NoArrays
  <2>1. bucket_count > 0
    BY <1>3
  <2> QED
    BY <1>1, <2>1 DEF NoWaste, Torn
<1>5. probe < bucket_count
  BY <1>1, <1>4, SearchEnds DEF SearchesEnd
<1>6. found_deleted = None
  <2>1. sparse_buckets \in Table(bucket_count)
    BY <1>4 DEF RoomInv, KeyInv, ProbeInv, Inv, TypeOK, TypesOK
  <2>2. Cardinality(Tombstones(sparse_buckets)) = 0
    BY <1>1 DEF NoWaste, RoomInv, KeyInv, ProbeInv, Inv, CountersAgree
  <2>3. Tombstones(sparse_buckets) = {}
    BY <1>1, <2>1, <2>2, CountsFinite, FS_EmptySet
  <2> QED
    BY <2>3 DEF RoomInv, KeyInv, ProbeInv, Inv, TypeOK, CallOK, Tombstones
<1>7. ~InsertNoArrays /\ ~InsertExhausted
  BY <1>1, <1>4, <1>5 DEF InsertNoArrays, InsertExhausted
<1>8. CASE InsertEmpty
  <2>1. ~(nb_elements >= load_threshold_rehash)
    BY <1>1, <1>2
  <2>2. ~(nb_elements + nb_deleted_buckets >= load_threshold_clear_deleted)
    <3>1. load_threshold_clear_deleted \in Nat /\ nb_deleted_buckets \in Nat
      BY DEF RoomInv, KeyInv, ProbeInv, Inv, TypeOK, TypesOK
    <3> QED
      BY <1>1, <1>3, <3>1
  <2>3. Put
    BY <1>8, <2>1, <2>2, Zenon DEF InsertEmpty
  <2> QED
    BY <1>4, <1>6, <2>3 DEF Put
<1> QED
  BY <1>4, <1>7, <1>8 DEF Insert

(* The spare room after one more step of an insertion.                     *)
LEMMA InsertSpares ==
  ASSUME OnlyPowersOfTwo, RoomInv, Insert, NoWaste, Spare >= 1
  PROVE  /\ NoWaste' /\ req' = req
         /\ \/ pc' = "insert" /\ Spare' = Spare
            \/ pc' = "return" /\ Spare' >= Spare - 1
<1>1. /\ InsertHit \/ InsertAdvance \/ PutAt(ibucket, 0)
      /\ sparse_buckets # NoArrays
  BY InsertFits
<1>2. /\ nb_elements \in Nat /\ load_threshold_rehash \in Nat
      /\ sparse_buckets \in Table(bucket_count) /\ bucket_count \in Nat
  BY <1>1, SizesAreNat DEF RoomInv, KeyInv, ProbeInv, Inv, TypeOK, TypesOK
<1>3. CASE InsertHit \/ InsertAdvance
  <2>1. UNCHANGED <<table, limits, req>> /\ pc' \in {"insert", "return"}
    BY <1>3 DEF InsertHit, InsertAdvance, Inserting, Return, Advance
  <2>2. Spare' = Spare /\ NoWaste'
    BY <1>1, <2>1 DEF Spare, NoWaste, Torn, table, limits
  <2> QED
    BY <1>2, <2>1, <2>2 DEF Spare
<1>4. CASE PutAt(ibucket, 0)
  <2>1. /\ nb_elements' = nb_elements + 1 /\ nb_deleted_buckets' = 0
        /\ load_threshold_rehash' = load_threshold_rehash
        /\ req' = req /\ pc' = "return"
        /\ DOMAIN sparse_buckets' = DOMAIN sparse_buckets
    BY <1>4 DEF PutAt, Return, limits, NoWaste
  <2>2. DOMAIN sparse_buckets # {} /\ DOMAIN NoArrays = {}
    <3>1. bucket_count > 0 /\ DOMAIN sparse_buckets = 0 .. bucket_count - 1
      BY <1>1, <1>2, ArraysIffSlots DEF Table
    <3> QED
      BY <1>2, <3>1, NoArraysEmpty
  <2>3. NoWaste'
    BY <2>1, <2>2 DEF NoWaste, Torn
  <2> QED
    BY <1>2, <2>1, <2>3 DEF Spare
<1> QED
  BY <1>1, <1>3, <1>4

(* The reservation that has returned.                                      *)
LEMMA ReserveSpares ==
  ASSUME RoomInv, RoomInv', SwapIn, req.op = "reserve", Entries' = Entries
  PROVE  NoWaste' /\ (pc' = "return" /\ res' # Panicked =>
                        Spare' >= req.count - Cardinality(Entries))
<1>1. /\ Rehashing /\ req' = req /\ nb_deleted_buckets' = 0 /\ pc' = "return"
      /\ sparse_buckets' = new_buckets /\ bucket_count' = new_count
      /\ new_buckets \in Table(new_count) /\ new_count \in Nat
  BY SizesAreNat DEF SwapIn, ResizeOps, Return, Rehashing, RoomInv, KeyInv, ProbeInv, Inv, TypeOK,
         TypesOK
<1>2. ~Torn'
  BY <1>1, ArraysIffSlots DEF Torn
<1>3. ~Rehashing'
  BY <1>1 DEF Rehashing
<1>4. nb_elements' = Cardinality(Entries')
  <2>1. (RoomInv /\ ~Rehashing =>
           Cardinality(Entries) = Cardinality(Occupied(sparse_buckets)))'
    BY OwnCounted, PTL
  <2>2. nb_elements' = Cardinality(Occupied(sparse_buckets))'
    BY <1>2, <1>3 DEF RoomInv, KeyInv, ProbeInv, Inv, CountersAgree
  <2> QED
    BY <1>3, <2>1, <2>2
<1>5. pc' = "return" /\ res' # Panicked => req.count <= load_threshold_rehash'
  BY <1>1 DEF RoomInv, ResizeKeepsPromise, ResizeOps
<1>6. /\ load_threshold_rehash' \in Nat /\ Cardinality(Entries) \in Nat
  BY EntriesFinite DEF RoomInv, KeyInv, ProbeInv, Inv, TypeOK, TypesOK
<1>7. req.count \in Nat
  <2>1. req \in WholeRequests
    <3>1. MayRehash
      BY <1>1, RehashingFacts DEF RoomInv, KeyInv, ProbeInv
    <3> QED
      BY <3>1, OnAPair DEF MayRehash, ResizeOps
  <2> QED
    BY <2>1, OnTheWhole DEF ResizeOps
<1> QED
  BY <1>1, <1>2, <1>4, <1>5, <1>6, <1>7 DEF NoWaste, Spare

(* Every step of the container keeps the invariant of the hint.            *)
LEMMA HintStep ==
  ASSUME OnlyPowersOfTwo, RoomInv, RoomInv', JobOK, ExtendInv, HintInv,
         [ApiNext]_apiVars
  PROVE  HintInv'
<1>1. KeyInv /\ KeyInv' /\ Inv /\ Inv' /\ [OpenNext]_vars
  BY ApiOpens DEF RoomInv, KeyInv, ProbeInv
<1>2. MapStep
  BY <1>1, EngineMaps
<1>3. pc' = "insert" => req'.op # "reserve"
  BY <1>1 DEF Inv, TypeOK, CallOK, PairRequests
<1>4. CASE Client \/ JobPanics \/ JobEnds
  BY <1>4, AnswerAssumption
  DEF Client, JobPanics, JobEnds, Answered, api, HintInv, Exact, Extending
<1>5. CASE (Engine \/ EnginePanics) /\ ~Exact
  BY <1>5 DEF Engine, EnginePanics, api, HintInv, Exact, Extending
<1>6. CASE (Engine \/ EnginePanics) /\ Exact
  <2>1. /\ UNCHANGED api /\ pc # "idle" /\ Exact' /\ todo' = todo
        /\ Step \/ HasherPanics
    BY <1>6, StepsRun DEF Engine, EnginePanics, api, Exact, Extending
  <2>2. Len(todo) \in Nat
    BY DEF JobOK
  <2>3. CASE Working /\ req.op = "reserve"
    <3>1. /\ req' = req /\ (Working' \/ pc' = "return")
          /\ Entries' = Entries \/ (pc' = "return" /\ res' = Panicked)
      BY <1>2, <2>3, ReserveRuns
    <3>2. req.count \in Nat /\ Cardinality(Entries) + Len(todo) <= req.count
      BY <1>6, <2>3 DEF HintInv
    <3>3. ASSUME pc' = "return", res' # Panicked
          PROVE  NoWaste' /\ Len(todo) <= Spare'
      <4>1. SwapIn /\ Entries' = Entries
        BY <1>1, <2>1, <2>3, <3>1, <3>3, ReserveEnds
      <4>2. NoWaste' /\ Spare' >= req.count - Cardinality(Entries)
        BY <2>3, <3>3, <4>1, ReserveSpares
      <4>3. /\ Cardinality(Entries) \in Nat
            /\ Spare' \in Int
        BY <1>1, EntriesFinite DEF Spare, Inv, TypeOK, TypesOK
      <4> QED
        BY <2>2, <3>2, <4>2, <4>3
    <3>4. Working' => Entries' = Entries
      BY <3>1 DEF Working
    <3> QED
      BY <1>3, <2>1, <2>3, <3>1, <3>2, <3>3, <3>4 DEF HintInv, Working
  <2>4. CASE pc = "insert"
    <3>1. Insert /\ NoWaste /\ Len(todo) + 1 <= Spare /\ Spare \in Int
      <4>1. Insert
        BY <2>1, <2>4
        DEF HasherPanics, Step, Find, FindNoBuckets, FindNoArrays, FindHit, FindMiss,
            FindAdvance, Drain, DrainNext, SwapIn, SwapNested, Place, PlaceHere,
            PlaceAdvance, PlaceExhausted, Placing, WholeTable, Resize, Clear, EraseAll,
            Retain, PopFront, EraseRange, SetMaxLoadFactor, Whole, Finish
      <4> QED
        BY <1>1, <1>6, <2>4, <4>1 DEF HintInv, Spare, Inv, TypeOK, TypesOK
    <3>2. /\ NoWaste' /\ req' = req
          /\ \/ pc' = "insert" /\ Spare' = Spare
             \/ pc' = "return" /\ Spare' >= Spare - 1
      BY <2>2, <3>1, InsertSpares
    <3>3. Spare' \in Int
      BY <1>1 DEF Spare, Inv, TypeOK, TypesOK
    <3> QED
      BY <1>3, <2>1, <2>2, <3>1, <3>2, <3>3 DEF HintInv, Working
  <2>5. CASE pc = "return"
    <3>1. res # Panicked /\ pc' = "idle" /\ UNCHANGED <<table, limits>>
      BY <1>6, <2>5
      DEF Exact, Extending, Engine, EnginePanics, HasherPanics, Step, Find,
          FindNoBuckets, FindNoArrays, FindHit, FindMiss, FindAdvance, Drain, DrainNext,
          SwapIn, SwapNested, Place, PlaceHere, PlaceAdvance, PlaceExhausted, Placing,
          Insert, InsertNoArrays, InsertExhausted, InsertHit, InsertAdvance, InsertEmpty,
          Inserting, WholeTable, Resize, Clear, EraseAll, Retain, PopFront, EraseRange,
          SetMaxLoadFactor, Whole, Finish
    <3>2. Spare' = Spare /\ (NoWaste => NoWaste')
      BY <2>5, <3>1 DEF Spare, NoWaste, Torn, Rehashing, table, limits
    <3> QED
      BY <1>6, <2>1, <2>5, <3>1, <3>2 DEF HintInv, Working
  <2> QED
    BY <1>6, <2>1, <2>3, <2>4, <2>5 DEF HintInv, Working
<1>7. CASE Extend
  <2>1. PICK batch \in Batches : \E lower \in {0, Len(batch)} :
          /\ job' = [op |-> "extend", pairs |-> batch, lower |-> lower]
          /\ todo' = batch
          /\ StartOnWhole([op |-> "reserve", count |-> RoomFor(lower)])
    BY <1>7 DEF Extend
  <2>2. PICK lower \in {0, Len(batch)} :
          /\ job' = [op |-> "extend", pairs |-> batch, lower |-> lower]
          /\ todo' = batch
          /\ StartOnWhole([op |-> "reserve", count |-> RoomFor(lower)])
    BY <2>1
  <2>3. /\ Entries' = Entries /\ pc' = "whole" /\ pc = "idle"
        /\ req' = [op |-> "reserve", count |-> RoomFor(lower)]
    BY <1>1, <2>2, AskingKeeps DEF StartOnWhole
  <2>4. /\ Cardinality(Entries) \in Nat /\ nb_elements \in Nat
        /\ Cardinality(Entries) <= nb_elements
    <3>1. Cardinality(Entries) \in Nat /\ nb_elements \in Nat
      BY <1>1, EntriesFinite DEF Inv, TypeOK, TypesOK
    <3>2. Entries # {} => Cardinality(Entries) = nb_elements
      BY <1>1, <2>3, OwnCount DEF Rehashing
    <3>3. Entries = {} => Cardinality(Entries) = 0
      BY FS_EmptySet
    <3> QED
      BY <3>1, <3>2, <3>3
  <2>5. batch \in Seq(Pair) /\ Len(batch) \in Nat
    BY BatchAssumption
  <2>6. Exact' => lower = Len(batch)
    BY <2>2 DEF Exact
  <2>7. Exact' => /\ req'.count \in Nat
                  /\ Cardinality(Entries') + Len(todo') <= req'.count
    BY <2>2, <2>3, <2>4, <2>5, <2>6 DEF RoomFor
  <2> QED
    BY <2>3, <2>7 DEF HintInv
<1>8. CASE ExtendInserts
  <2>1. /\ Extending /\ UNCHANGED <<job, verdict, table, limits>>
        /\ todo # <<>> /\ todo' = Tail(todo) /\ pc = "idle" /\ pc' = "insert"
    BY <1>8 DEF ExtendInserts, StartOnKey, Extending, JobOK
  <2>2. Len(todo') + 1 = Len(todo)
    <3>1. todo \in Seq(Pair)
      BY DEF JobOK
    <3> QED
      BY <2>1, <3>1
  <2>3. Spare' = Spare /\ (NoWaste => NoWaste')
    BY <2>1 DEF Spare, NoWaste, Torn, Rehashing, table, limits
  <2>4. Exact' => Exact
    BY <2>1 DEF Exact, Extending
  <2> QED
    BY <1>3, <2>1, <2>2, <2>3, <2>4 DEF HintInv
<1>9. CASE ExtendEnds
  BY <1>9, AnswerAssumption DEF ExtendEnds, Answered, HintInv, Exact, Extending
<1>10. CASE EqualsOther \/ OtherEquals
  <2>1. PICK other \in OtherMaps : job' = [op |-> "eq", pairs |-> other]
    BY <1>10 DEF EqualsOther, OtherEquals
  <2> QED
    BY <2>1 DEF HintInv, Exact, Extending
<1>11. CASE CompareLooksUp \/ ComparePair \/ CompareEnds
  <2>1. job' = job /\ job.op = "eq"
    BY <1>11 DEF CompareLooksUp, ComparePair, CompareEnds, Comparing, Answered, api
  <2> QED
    BY <2>1 DEF HintInv, Exact, Extending
<1>12. CASE UNCHANGED apiVars
  <2>1. TablesKept /\ UNCHANGED <<table, limits, pc, req, res, job, todo, verdict>>
    BY <1>12 DEF apiVars, api, vars, table, TablesKept
  <2>2. Entries' = Entries
    BY <1>1, <2>1, KeptMoves DEF KeyInv
  <2>3. Spare' = Spare /\ NoWaste' = NoWaste /\ Exact' = Exact /\ Working' = Working
    BY <2>1 DEF Spare, NoWaste, Torn, Rehashing, Exact, Extending, Working, table, limits
  <2> QED
    BY <2>1, <2>2, <2>3 DEF HintInv
<1> QED
  BY <1>4, <1>5, <1>6, <1>7, <1>8, <1>9, <1>10, <1>11, <1>12 DEF ApiNext, Job

(* So it holds throughout.                                                 *)
LEMMA HintInvHolds == OnlyPowersOfTwo => (ApiSpec => []HintInv)
<1> SUFFICES ASSUME OnlyPowersOfTwo
             PROVE  ApiSpec => []HintInv
  OBVIOUS
<1>1. ApiInit => HintInv
  BY DEF ApiInit, HintInv, Exact, Extending
<1>2. RoomInv /\ RoomInv' /\ JobOK /\ ExtendInv /\ HintInv /\ [ApiNext]_apiVars => HintInv'
  BY HintStep
<1> QED
  BY <1>1, <1>2, ApiIsOpen, RoomInvHolds, ExtendInvHolds, PTL DEF ApiSpec

(* On power-of-two tables an extension whose iterator knows its length     *)
(* rebuilds the table in its reservation and never after: every insertion  *)
(* that it makes ends without a rehash.                                    *)
THEOREM HintSuffices == OnlyPowersOfTwo => (ApiSpec => ExtendWithoutGrowth)
<1> SUFFICES ASSUME OnlyPowersOfTwo
             PROVE  ApiSpec => ExtendWithoutGrowth
  OBVIOUS
<1> DEFINE A == pc = "insert" /\ pc' # "insert" /\ job # None
                  /\ job.lower = Len(job.pairs) => pc' = "return"
           I == RoomInv /\ JobOK /\ CompareInv /\ HintInv
<1>1. I /\ [ApiNext]_apiVars => A
  <2> SUFFICES ASSUME RoomInv, JobOK, CompareInv, HintInv, [ApiNext]_apiVars,
                      pc = "insert", pc' # "insert", job # None,
                      job.lower = Len(job.pairs)
               PROVE  pc' = "return"
    OBVIOUS
  <2>1. Exact /\ Len(todo) \in Nat
    <3>1. verdict = None /\ job.op \in {"extend", "eq"}
      BY JobsOK DEF JobOK
    <3>2. job.op # "eq"
      BY <3>1 DEF CompareInv, Comparing
    <3> QED
      BY <3>1, <3>2 DEF Exact, Extending, JobOK
  <2>2. NoWaste /\ Spare >= 1
    <3>1. Spare \in Int
      BY DEF Spare, RoomInv, KeyInv, ProbeInv, Inv, TypeOK, TypesOK
    <3> QED
      BY <2>1, <3>1 DEF HintInv
  <2>3. Insert
    BY <2>1
    DEF ApiNext, Client, CallOnKey, CallOnWhole, StartOnKey, StartOnWhole, Engine,
        EnginePanics, Extend, EqualsOther, OtherEquals, Job, ExtendInserts, ExtendEnds,
        CompareLooksUp, ComparePair, CompareEnds, JobPanics, JobEnds, apiVars, vars,
        HasherPanics, Step, Find, FindNoBuckets, FindNoArrays, FindHit, FindMiss,
        FindAdvance, Drain, DrainNext, SwapIn, SwapNested, Place, PlaceHere,
        PlaceAdvance, PlaceExhausted, Placing, WholeTable, Resize, Clear, EraseAll,
        Retain, PopFront, EraseRange, SetMaxLoadFactor, Whole, Finish
  <2> QED
    BY <2>2, <2>3, InsertSpares
<1> HIDE DEF A, I
<1>2. RoomInv /\ JobOK /\ CompareInv /\ HintInv => I
  BY DEF I
<1>3. ApiSpec => [][A]_apiVars
  BY <1>1, <1>2, ApiIsOpen, RoomInvHolds, CompareInvHolds, HintInvHolds, PTL DEF ApiSpec
<1> QED
  BY <1>3 DEF A, ExtendWithoutGrowth

(* All that is proved of the engine alone holds in the middle of these     *)
(* operations: types and indices, counters, thresholds, every value within *)
(* reach of its probe, one value for each key, and an empty slot.          *)
THEOREM EngineSound ==
  ApiSpec => [](/\ TypeOK /\ CountersAgree /\ ThresholdsFresh /\ EveryValueFindable
                /\ UniqueKeys /\ RoomLeft)
<1>1. RoomInv => /\ TypeOK /\ CountersAgree /\ ThresholdsFresh /\ EveryValueFindable
                 /\ UniqueKeys /\ RoomLeft
  BY BuiltRoom DEF RoomInv, KeyInv, ProbeInv, Inv, RoomLeft, OwnRoom
<1> QED
  BY <1>1, ApiIsOpen, RoomInvHolds, PTL
=============================================================================
