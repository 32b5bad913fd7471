---------------------------- MODULE MCHeapLayout ----------------------------
(***************************************************************************)
(* Instances of HeapLayout for TLC: requests around the sizes at which a   *)
(* page, or a page and a bitvector of the page map, come to fit,           *)
(* and to which the page map reaches the metadata of page 0.               *)
(***************************************************************************)
EXTENDS HeapLayout

Around(n) == (AllocSize(n) - 20) .. (AllocSize(n) + 20)

Boundaries ==
  0 .. 100 \cup UNION {Around(n) : n \in {1, 2, 3, 63, 64, 65, 66, 127, 128, 129, 192, 193}}
  \cup {AllocSize(n) : n \in {2432, 2624, 2625, 2752}}

Halves == -1 .. 3
=============================================================================
