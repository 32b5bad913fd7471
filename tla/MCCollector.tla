---------------------------- MODULE MCCollector ----------------------------
(***************************************************************************)
(* Instances of Collector for TLC.                                         *)
(***************************************************************************)
EXTENDS Collector

Cell == [layout |-> "struct", size |-> 1, ptrs |-> <<0>>]
Pair == [layout |-> "struct", size |-> 2, ptrs |-> <<0, 1>>]
Leaf == [layout |-> "raw", size |-> 1, ptrs |-> <<>>]

Pairs == {Pair}
Cells == {Cell}
CellsAndLeaves == {Cell, Leaf}

NoStrays == {}

\* The addresses of fields of the first two pairs on page 0; the second one lies
\* in the block in which its pair starts.
InsidePairs == {<<0, 2>>, <<0, 5>>}

\* A behaviour is followed until a store overwrites the page map, a collection
\* breaks what the client sees, or the last collection is over.
Sound ==
  /\ intact
  /\ saved # None /\ pc \in {"client", "place"} => View = saved.view
  /\ gcs = MaxGcs => pc # "client"
=============================================================================
