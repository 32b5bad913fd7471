----------------------------- MODULE MapContract -----------------------------
(***************************************************************************)
(* What hash_table.c promises: a map, here from identities to the set of   *)
(* at most one value.  The contract is void once a key of the table has    *)
(* become another, until the table is cleared.                             *)
(***************************************************************************)
CONSTANTS Ids, Values

VARIABLES map, void

Empty == map = [x \in Ids |-> {}]
Init == Empty /\ ~void

Insert(x, v) == map' = [map EXCEPT ![x] = {v}]
Remove(x) == map' = [map EXCEPT ![x] = {}]

Next ==
  \/ /\ ~void /\ ~void'
     /\ \/ \E x \in Ids, v \in Values : Insert(x, v)
        \/ \E x \in Ids : Remove(x)
  \/ Empty'
  \/ void'

Spec == Init /\ [][Next]_<<map, void>>
=============================================================================
