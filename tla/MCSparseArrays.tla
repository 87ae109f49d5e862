--------------------------- MODULE MCSparseArrays ---------------------------
(* A table of 5 slots in arrays of 2: the third of four arrays is half     *)
(* padding and the last is all padding.                                    *)
EXTENDS SparseArrays

CONSTANTS v1, v2

Unchanged == [v \in Value |-> v]
Exchanged == [v \in Value |-> IF v = v1 THEN v2 ELSE v1]
MCEdits == {Unchanged, Exchanged}
=============================================================================
