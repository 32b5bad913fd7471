---------------------------- MODULE ListContract ----------------------------
(***************************************************************************)
(* What linked_list.c and iterator.c promise their client: a sequence of   *)
(* elements and an iterator at one of its positions.  at = 0 is an         *)
(* iterator that is not on the list: its link was removed, or there was    *)
(* none.  Once the client has done what the code does not support, the     *)
(* contract is void until a new list is begun.                             *)
(***************************************************************************)
EXTENDS Naturals, SequencesExt

CONSTANT Elements

VARIABLES items, at, void

Init == items = <<>> /\ at = 0 /\ void = FALSE

\* v becomes the element at position p; an iterator stays with its element.
Add(p, v) ==
  /\ items' = InsertAt(items, p, v)
  /\ at' = IF at >= p THEN at + 1 ELSE at

Take(p) ==
  /\ items' = RemoveAt(items, p)
  /\ at' = IF at = p THEN 0 ELSE IF at > p THEN at - 1 ELSE at

\* An iterator that has left the list may come back to it anywhere.
Move ==
  /\ UNCHANGED items
  /\ at' \in 0 .. Len(items)
  /\ at' \in {1, at + 1} \/ at = 0

Operation ==
  \/ \E p \in 1 .. (Len(items) + 1), v \in Elements : Add(p, v)
  \/ \E p \in 1 .. Len(items) : Take(p)
  \/ items' = <<>> /\ at' = 0
  \/ Move

\* The list is the new one of hash_table_keys.
Begin == items = <<>> /\ at = 0 /\ items' \in Seq(Elements) /\ at' = 0

Next ==
  \/ ~void /\ ~void' /\ Operation
  \/ ~void' /\ Begin
  \/ void'

Spec == Init /\ [][Next]_<<items, at, void>>
=============================================================================
