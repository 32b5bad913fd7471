------------------------------ MODULE HashTable ------------------------------
(***************************************************************************)
(* The hash table of the demonstration programs, hash_table.c: buckets of  *)
(* entries behind a dummy, in which a key is sought with one function and  *)
(* recognised with another.  The programs have three kinds of table:       *)
(*   int     the search ends at a key that is not smaller (comp_func);     *)
(*   string  both functions compare text (warehouse and shelves);          *)
(*   merch   the hash and the search read a struct as if it were text, so  *)
(*           they see the address in its first field up to a zero byte,    *)
(*           and a key is recognised as the same struct (carts).           *)
(* What a key reads as is a number, its content.  The text of a struct may *)
(* change while it is a key: the client gives the merch another name.      *)
(***************************************************************************)
EXTENDS Integers, Sequences, FiniteSets, SequencesExt, FiniteSetsExt

CONSTANTS
  Keys, Values,
  Contents,      \* what keys read as
  Kinds,         \* the kinds of table that are checked
  NoBuckets,
  Prefix         \* an address up to its first zero byte

ASSUME ContentsAssumption ==
  /\ Contents \subseteq Int
  /\ Prefix \in [Contents -> Int]
  /\ NoBuckets \in Nat \ {0}
  /\ Kinds \subseteq {"int", "string", "merch"}

VARIABLES
  buckets,    \* the entries of each bucket behind the dummy: [key, value]
  size,
  kind,
  content,    \* what each key reads as
  astray      \* history: two keys of a cart were alike, or one has changed

tableVars == <<buckets, size, kind, content, astray>>

-----------------------------------------------------------------------------
BucketIds == 0 .. (NoBuckets - 1)

\* The hash functions end in abs, the sums of characters as well.
Hash(k) == (IF content[k] < 0 THEN -content[k] ELSE content[k]) % NoBuckets

Text(k) == IF kind = "merch" THEN Prefix[content[k]] ELSE content[k]

\* comp_hash_func, which ends a search, and eq_hash_func.
Comp(a, b) ==
  IF kind = "int" THEN content[a] >= content[b] ELSE Text(a) = Text(b)
Eq(a, b) == IF kind = "merch" THEN a = b ELSE content[a] = content[b]

\* find_previous_entry_for_key: how many entries of its bucket precede k.
PreviousOrEqual(k) ==                 \* mutant: the search also passes an equal key
  LET b == buckets[Hash(k)]
      ends == {i \in DOMAIN b : Comp(b[i].key, k) /\ content[b[i].key] # content[k]}
  IN  IF ends = {} THEN Len(b) ELSE Min(ends) - 1
Previous(k) ==
  LET b == buckets[Hash(k)]
      ends == {i \in DOMAIN b : Comp(b[i].key, k)}
  IN  IF ends = {} THEN Len(b) ELSE Min(ends) - 1

\* hash_table_has_key, and hash_table_lookup where there is one.
HasKey(k) ==
  LET b == buckets[Hash(k)] IN
  Previous(k) < Len(b) /\ Eq(b[Previous(k) + 1].key, k)
Lookup(k) == buckets[Hash(k)][Previous(k) + 1].value

\* The loops of values, keys, all, any and apply_to_all go through the buckets.
Entries == FlattenSeq([i \in 1 .. NoBuckets |-> buckets[i - 1]])
ValuesArray == [i \in DOMAIN Entries |-> Entries[i].value]
KeysInOrder == [i \in DOMAIN Entries |-> Entries[i].key]

-----------------------------------------------------------------------------
\* hash_table_create: the memory of the buckets is zero.
TableCreate ==
  /\ buckets = [b \in BucketIds |-> <<>>]
  /\ size = 0
  /\ kind \in Kinds
  /\ content \in [Keys -> Contents]
  /\ astray = FALSE

\* Another key of its bucket is as good as k to the search.
Alike(k) ==
  LET b == buckets[Hash(k)] IN
  kind = "merch" /\ \E i \in DOMAIN b : b[i].key # k /\ Text(b[i].key) = Text(k)

SizeAlwaysMore(k) == size + 1         \* mutant: also when a value is replaced
SizeWith(k) == IF HasKey(k) THEN size ELSE size + 1

TableInsert(k, v) ==
  /\ buckets' = [buckets EXCEPT ![Hash(k)] =
       IF HasKey(k) THEN [@ EXCEPT ![Previous(k) + 1].value = v]
       ELSE InsertAt(@, Previous(k) + 1, [key |-> k, value |-> v])]
  /\ size' = SizeWith(k)
  /\ astray' = (astray \/ Alike(k))
  /\ UNCHANGED <<kind, content>>

TableRemove(k) ==
  /\ HasKey(k)
  /\ buckets' = [buckets EXCEPT ![Hash(k)] = RemoveAt(@, Previous(k) + 1)]
  /\ size' = size - 1
  /\ UNCHANGED <<kind, content, astray>>

\* entry_destroy of what is behind every dummy.  hash_table_destroy leaves the
\* entries there, and is called of tables that nobody uses again.
DestroyedWithDummies == Len(Entries) + NoBuckets   \* mutant: counts the dummies
Destroyed == Len(Entries)
TableClear ==
  /\ buckets' = [b \in BucketIds |-> <<>>]
  /\ size' = size - Destroyed
  /\ UNCHANGED <<kind, content, astray>>

\* The client, or the collector, gives a struct another first field.
Rewrite(k, c) ==
  /\ kind = "merch"
  /\ c # content[k]
  /\ content' = [content EXCEPT ![k] = c]
  /\ astray' = (astray \/ k \in ToSet(KeysInOrder))
  /\ UNCHANGED <<buckets, size, kind>>

TableNext ==
  \/ \E k \in Keys, v \in Values : TableInsert(k, v)
  \/ \E k \in Keys : TableRemove(k)
  \/ TableClear
  \/ \E k \in Keys, c \in Contents : Rewrite(k, c)

-----------------------------------------------------------------------------
(* Properties.                                                             *)

\* hash_table_values makes its array as long as size says and fills it with
\* what the buckets hold, whatever has happened to the keys.
ValuesFillArray == size = Len(ValuesArray)

\* What a key stands for: the struct itself, or what the text or number is.
Id(k) == IF kind = "merch" THEN k ELSE content[k]
Ids == Keys \cup Contents

\* The values that are found for x, and those that the buckets hold for it.
MapOf ==
  [x \in Ids |->
    {Lookup(k) : k \in {k \in Keys : Id(k) = x /\ HasKey(k)}} \cup
    {e.value : e \in {e \in ToSet(Entries) : Id(e.key) = x}}]
=============================================================================
