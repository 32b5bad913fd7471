----------------------------- MODULE Collections -----------------------------
(***************************************************************************)
(* A client of the containers of the demonstration programs: it fills a    *)
(* hash table, takes the list of its keys, and goes on with that list as   *)
(* the warehouse does with the list that hash_table_keys gives it.  The    *)
(* table is let go by then, which keeps the two state spaces apart.        *)
(***************************************************************************)
EXTENDS HashTable

CONSTANTS
  Links,
  MaxEntries    \* bound: keys that are astray would be entered again and again

VARIABLES
  phase,                              \* which container the client uses
  list, link, current, misplaced      \* see LinkedList

vars == <<tableVars, phase, list, link, current, misplaced>>

L == INSTANCE LinkedList WITH Elements <- Keys

ASSUME LinksAssumption == L!NULL \notin Links /\ IsFiniteSet(Links)

Init ==
  /\ phase = "table"
  /\ TableCreate
  /\ L!ListCreate

\* hash_table_keys: one append for every entry.
TakeKeys ==
  LET n == Len(Entries) IN
  /\ phase = "table" /\ phase' = "list"
  /\ n <= Cardinality(Links)
  /\ LET at == CHOOSE at \in Injection(1 .. n, Links) : TRUE IN
       /\ link' = [l \in ToSet(at) |->
            LET i == CHOOSE i \in 1 .. n : at[i] = l IN
            [element |-> KeysInOrder[i], next |-> IF i = n THEN L!NULL ELSE at[i + 1]]]
       /\ list' = IF n = 0 THEN list ELSE [first |-> at[1], last |-> at[n], size |-> n]
  /\ buckets' = [b \in BucketIds |-> <<>>]
  /\ size' = 0
  /\ astray' = FALSE
  /\ content' = [k \in Keys |-> CHOOSE c \in Contents : TRUE]
  /\ kind' = CHOOSE kd \in Kinds : TRUE
  /\ UNCHANGED <<current, misplaced>>

\* A list whose last is stale is given up for a new one.
Renew ==
  /\ misplaced
  /\ L!ListRenewed
  /\ UNCHANGED <<tableVars, phase>>

Next ==
  \/ /\ phase = "table" /\ TableNext /\ size' <= MaxEntries
     /\ UNCHANGED <<phase, list, link, current, misplaced>>
  \/ TakeKeys
  \/ phase = "list" /\ ~misplaced /\ L!ListNext /\ UNCHANGED <<tableVars, phase>>
  \/ Renew

Spec == Init /\ [][Next]_vars

-----------------------------------------------------------------------------
TypeOK ==
  /\ buckets \in [BucketIds -> Seq([key : Keys, value : Values])]
  /\ size \in Nat
  /\ kind \in Kinds
  /\ content \in [Keys -> Contents]
  /\ astray \in BOOLEAN
  /\ phase \in {"table", "list"}
  /\ L!ListTypeOK

\* The fields of the list agree with its links (see LinkedList).
ListIntact == L!ListIntact

\* The list and its iterator are a sequence and a position of it.
SequenceSpec == L!Contract!Spec

\* The table is a map from what its keys stand for.  Were it not, a merch
\* could not be found under its name, or its shelf be given to another.
Map == INSTANCE MapContract WITH map <- MapOf, void <- astray
MapSpec == Map!Spec
=============================================================================
