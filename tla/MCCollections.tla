---------------------------- MODULE MCCollections ----------------------------
EXTENDS Collections

\* -1, 1 and 3 share a bucket; 3 is an address that reads as the same text as 1.
MCContents == {-1, 1, 2, 3}
MCPrefix == [c \in MCContents |-> IF c = 3 THEN 1 ELSE c]

Symmetry == Permutations(Keys) \cup Permutations(Values)
=============================================================================
