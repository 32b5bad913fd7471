----------------------------- MODULE MCFrontend -----------------------------
EXTENDS Frontend

\* The names of two merch are alike if both have the same one of these: their
\* addresses then begin alike up to a zero byte, and hash alike.
OneBucket == {[bucket |-> 0, text |-> ""], [bucket |-> 0, text |-> "b"]}

Symmetry == Permutations(Merch) \cup Permutations(Names) \cup Permutations(ShelfNames)
=============================================================================
