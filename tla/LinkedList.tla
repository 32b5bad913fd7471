----------------------------- MODULE LinkedList -----------------------------
(***************************************************************************)
(* The linked list of the demonstration programs, linked_list.c, with one  *)
(* iterator, iterator.c.  A list keeps its first and last link and its     *)
(* size; nothing but the operations keeps the three in step.  Links are    *)
(* addresses that the heap gives out again when nothing refers to them.    *)
(***************************************************************************)
EXTENDS Naturals, SequencesExt, FiniteSetsExt

CONSTANTS
  Links,      \* the addresses that links may have
  Elements    \* the values that a list holds

NULL == 0

VARIABLES
  list,       \* [first, last, size]
  link,       \* the links: [element, next]
  current,    \* the link of the iterator
  misplaced   \* history: an element was inserted before the last one

-----------------------------------------------------------------------------
(* Walking along next.                                                     *)

Steps == 0 .. Cardinality(Links)

\* The links from l on, in memory lk.
FromIn(lk, l) ==
  LET to[k \in Steps] ==
        IF k = 0 THEN l
        ELSE LET before == to[k-1] IN IF before = NULL THEN NULL ELSE lk[before].next
      ends == {k \in Steps : to[k] = NULL}
  IN  [i \in {k + 1 : k \in Steps \ ends} |-> to[i - 1]]

Chain == FromIn(link, list.first)

\* What the loops of linked_list_get, any, contains, all and apply_to_all see.
Items == [i \in DOMAIN Chain |-> link[Chain[i]].element]

-----------------------------------------------------------------------------
(* The operations.                                                         *)

\* linked_list_create: the memory of a new list is zero.
Empty == [first |-> NULL, last |-> NULL, size |-> 0]
ListCreate ==
  /\ list = Empty
  /\ link = << >>
  /\ current = NULL
  /\ misplaced = FALSE

ListRenewed ==
  /\ list' = Empty
  /\ link' = << >>
  /\ current' = NULL
  /\ misplaced' = FALSE

\* The memory keeps what the list or the iterator leads to.
Become(ls, lk, cur) ==
  /\ list' = ls
  /\ current' = cur
  /\ link' = Restrict(lk, UNION {ToSet(FromIn(lk, l)) : l \in {ls.first, ls.last, cur}})

\* h_alloc_struct returns memory that nothing refers to.
Room == Links \ DOMAIN link # {}
Fresh == CHOOSE l \in Links \ DOMAIN link : TRUE

\* create_link: the list and the memory with one more link, l.
Created(l) ==
  [first |-> IF list.size = 0 THEN l ELSE list.first,
   last  |-> IF list.size = 0 THEN l ELSE list.last,
   size  |-> list.size + 1]
WithLink(l, v, next) ==
  [m \in DOMAIN link \cup {l} |-> IF m = l THEN [element |-> v, next |-> next] ELSE link[m]]
NewLinkAlone(l, v, next) == WithLink(l, v, NULL)   \* mutant
NewLink(l, v, next) == WithLink(l, v, next)

AppendItem(v) ==
  LET made == NewLink(Fresh, v, NULL) IN
  /\ Room
  /\ Become([Created(Fresh) EXCEPT !.last = Fresh],
            IF list.size > 0 THEN [made EXCEPT ![list.last].next = Fresh] ELSE made,
            current)
  /\ UNCHANGED misplaced

Prepend(v) ==
  /\ Room
  /\ Become([Created(Fresh) EXCEPT !.first = Fresh], NewLink(Fresh, v, list.first), current)
  /\ UNCHANGED misplaced

InsertFirst(v) ==
  /\ Room
  /\ list.first = NULL
  /\ Become([first |-> Fresh, last |-> Fresh, size |-> Created(Fresh).size],
            NewLink(Fresh, v, NULL), current)
  /\ UNCHANGED misplaced

\* The walk of linked_list_insert makes as many steps as the index says, so the
\* new link comes after the one that has the index, and may come after the last.
\* A walk past the end is not followed.
InsertMiddle(index, v) ==
  LET prev == Chain[index + 1] IN
  /\ Room
  /\ 0 < index /\ index < list.size /\ index < Len(Chain)
  /\ Become(Created(Fresh), [NewLink(Fresh, v, link[prev].next) EXCEPT ![prev].next = Fresh],
            current)
  /\ misplaced' = (misplaced \/ index = list.size - 1)

\* linked_list_insert; other indexes are refused.
Insert(index, v) ==
  \/ index = 0 /\ InsertFirst(v)
  \/ index = 0 /\ list.first # NULL /\ Prepend(v)
  \/ index > 0 /\ index = list.size /\ AppendItem(v)
  \/ InsertMiddle(index, v)

\* destroy_link of one link.  Below zero, size is not followed.
Destroyed(ls) ==
  [first |-> IF ls.size = 1 THEN NULL ELSE ls.first,
   last  |-> IF ls.size = 1 THEN NULL ELSE ls.last,
   size  |-> ls.size - 1]

RemoveHead ==
  /\ list.first # NULL /\ list.size > 0
  /\ Become(Destroyed([list EXCEPT !.first = link[list.first].next]), link, current)
  /\ UNCHANGED misplaced

\* linked_list_remove after the first link: last moves back with the last link.
LastKept(prev, next) == list.last  \* mutant: last is left
LastAfter(prev, next) == IF next = NULL THEN prev ELSE list.last

RemoveLater(index) ==
  LET prev == Chain[index]
      next == link[Chain[index + 1]].next
  IN
  /\ 0 < index /\ index < list.size /\ index < Len(Chain)
  /\ Become(Destroyed([list EXCEPT !.last = LastAfter(prev, next)]),
            [link EXCEPT ![prev].next = next], current)
  /\ UNCHANGED misplaced

\* linked_list_clear and linked_list_destroy: destroy_link for every link, of
\* which one sees a size of 1 if there are as many as size says.
Clear ==
  LET n == Len(Chain) IN
  /\ n <= list.size
  /\ Become([first |-> IF n = list.size THEN NULL ELSE list.first,
             last  |-> IF n = list.size THEN NULL ELSE list.last,
             size  |-> list.size - n], link, current)
  /\ UNCHANGED misplaced

-----------------------------------------------------------------------------
(* The iterator.                                                           *)

\* iterator_create, and iterator_reset.
Reset == Become(list, link, list.first) /\ UNCHANGED misplaced

HasNext == current # NULL /\ link[current].next # NULL

\* iterator_next, where there is one; it reads a null current.
Advance ==
  /\ HasNext
  /\ Become(list, link, link[current].next)
  /\ UNCHANGED misplaced

ListNext ==
  \/ \E v \in Elements : AppendItem(v) \/ Prepend(v)
  \/ \E index \in Steps, v \in Elements : Insert(index, v)
  \/ RemoveHead
  \/ \E index \in Steps : RemoveLater(index)
  \/ Clear
  \/ Reset
  \/ Advance

-----------------------------------------------------------------------------
(* Properties.                                                             *)

ListTypeOK ==
  /\ list \in [first : DOMAIN link \cup {NULL}, last : DOMAIN link \cup {NULL}, size : Nat]
  /\ DOMAIN link \subseteq Links
  /\ link \in [DOMAIN link -> [element : Elements, next : DOMAIN link \cup {NULL}]]
  /\ current \in DOMAIN link \cup {NULL}

\* The three fields of a list agree with its links, so that append finds the
\* last link and destroy_link the right moment to forget the first, unless
\* linked_list_insert was called with the index of the last element.
ListIntact ==
  ~misplaced =>
    /\ list.size = Len(Chain)
    /\ list.first = NULL <=> list.size = 0
    /\ list.last = IF Chain = <<>> THEN NULL ELSE Chain[Len(Chain)]

\* The position of the iterator, 0 when its link is not on the list.
At ==
  IF current \in ToSet(Chain) THEN CHOOSE i \in DOMAIN Chain : Chain[i] = current ELSE 0

\* The list is a sequence and its iterator a position, that stays with its
\* element when others are added or removed, as checkout needs it.
Contract == INSTANCE ListContract WITH
  items <- IF misplaced THEN <<>> ELSE Items,
  at <- IF misplaced THEN 0 ELSE At,
  void <- misplaced
=============================================================================
