------------------------------- MODULE Pages -------------------------------
(***************************************************************************)
(* The heap of the collector seen page by page: the page map (active or    *)
(* passive), and each page's bump pointer, allocation map and              *)
(* unsafe-objects flag (heap.c, page.c, page_map.c, allocation_map.c),     *)
(* with the allocator (allocate.c) and the final sweep of a collection     *)
(* (garbage_collector.c).  What the objects contain is left out: which     *)
(* objects a collection pins and copies is chosen freely here, and by the  *)
(* roots and the pointer fields in module Collector.                       *)
(*                                                                         *)
(* Words of 8 bytes are the unit of every size and position.  Positions    *)
(* count from the first word of a page's allocatable space, so bump 0 is   *)
(* a reset bump pointer (p_start_address).                                 *)
(*                                                                         *)
(* h_set_metadata places the page map at heap + 8 * h_metadata_size(),     *)
(* the cast binding tighter than the addition, which is not the space that *)
(* h_init reserves for it but a word of page 0's allocatable space (byte   *)
(* 296 with one bitvector).  PMWord is that word: a store to it, other     *)
(* than by pm_set_page_to, overwrites bits of the page map, whichever the  *)
(* word stored has.  The page map has whole bitvectors, so it may also     *)
(* come to have bits of no page.  The history variable intact says that    *)
(* this has not happened, and that no mark has hit a page's flag.          *)
(***************************************************************************)
EXTENDS Integers, FiniteSets

CONSTANTS
  NumPages,    \* no_pages: pages in the heap
  PageWords,   \* PAGESIZE in words
  PMWord,      \* word of page 0 at which the page map begins
  BitvectorSize, \* BITVECTOR_SIZE: bits of a bitvector, which is a word
  Sizes,       \* payload words an allocation may ask for
  MisreadSizes,\* payload words a copy may take for an object of another size
  ThNum, ThDen \* gc_threshold is ThNum / ThDen

ASSUME NumPagesAssumption  == NumPages \in Nat \ {0}
ASSUME PageWordsAssumption == PageWords \in Nat \ {0}
ASSUME PMWordAssumption    == PMWord \in Nat
ASSUME BitvectorAssumption == BitvectorSize \in Nat \ {0, 1}
ASSUME SizesAssumption     == Sizes \subseteq 1 .. (PageWords - 1)
ASSUME MisreadAssumption   == MisreadSizes \subseteq Nat
ASSUME ThresholdAssumption == ThDen \in Nat \ {0} /\ ThNum \in 0 .. ThDen

PageIds == 0 .. (NumPages - 1)

\* The bits of the page map, in the whole bitvectors that h_get_pagemap_array_length
\* counts; bit i is the one of page i.
MapLength == (NumPages + BitvectorSize - 1) \div BitvectorSize
MapBits == 0 .. (MapLength * BitvectorSize - 1)

VARIABLES
  active,  \* bits that are set in the page map: the active pages
  bump,    \* next_free_address of each page
  amap,    \* allocation_lower and _upper of each page: set of marked blocks
  unsafe,  \* contains_unsafe_objects of each page
  pc,      \* where the program is
  req,     \* payload words of the allocation that waits for a collection, or 0
  objs,    \* history: the objects placed and neither moved nor freed since
  kept,    \* history: the objects pinned or copied by the current collection
  intact   \* history: no foreign store has hit the page map or a flag

vars == <<active, bump, amap, unsafe, pc, req, objs, kept, intact>>

\* The program runs client code, traces, places a waiting allocation after a
\* collection, has deleted the heap, has stopped at an assertion, or has
\* written past a page.
PCs == {"client", "trace", "place", "deleted", "abort", "overrun"}

\* One bit of the allocation map stands for MIN_ALLOC_SIZE = 16 bytes.
BlockFromPage(w) == (w - 4) \div 2   \* mutant: counted from the wrong end of page_t
BlockOf32(w) == w \div 4             \* mutant: a bit for every 32 bytes
Block(w) == w \div 2

\* The bit after those of the allocation map, the lowest one of
\* contains_unsafe_objects, is accepted as well: it is the bit of an object
\* without payload at the very end of its page.
IsFlag(at) == 2 * Block(at) = PageWords
Marks(at) == IF IsFlag(at) THEN {} ELSE {Block(at)}

\* The bump pointer after an object of n words and its header.
BumpNoHeader(b, n) == b + n          \* mutant: the header is not counted
BumpAfter(b, n) == b + n + 1

FreeSpace(p) == PageWords - bump[p]

\* The page the allocator's loops stop at: the lowest of the candidates.
IsFirst(p, S) == p \in S /\ \A q \in S : p <= q

\* The pages of S with room for an object of n words and its header.
WithRoomNoHeader(S, n) == {p \in S \cap PageIds : FreeSpace(p) >= n}  \* mutant: off by a header
WithRoom(S, n) == {p \in S \cap PageIds : FreeSpace(p) >= n + 1}

Passive == PageIds \ active

\* The bits of the page map that lie in words lo..hi of page p.
HitBits(p, lo, hi) ==
  {b \in MapBits : p = 0 /\ PMWord + b \div BitvectorSize \in lo .. hi}
HitsMap(p, lo, hi) == HitBits(p, lo, hi) # {}

\* The page map, when it was m, after a store of data to words lo..hi of page p.
DataMaps(m, p, lo, hi) == {(m \ HitBits(p, lo, hi)) \cup X : X \in SUBSET HitBits(p, lo, hi)}

\* And after a header has been copied to word w: the bits of a layout end in 11,
\* the address of a format string, or what is taken for one, in 00.
CopiedMaps(m, p, w) ==
  {x \in DataMaps(m, p, w, w) : \A b \in HitBits(p, w, w) :
     b % BitvectorSize = 0 => (b \in x <=> b + 1 \in x)}

\* A new header is not zero either.
HeaderMaps(m, p, w) ==
  {x \in CopiedMaps(m, p, w) : HitsMap(p, w, w) => x \cap HitBits(p, w, w) # {}}

\* And after that of a forwarding address, which ends in 001.
ForwardMaps(m, p, w) ==
  {x \in DataMaps(m, p, w, w) : \A b \in HitBits(p, w, w) :
     /\ b % BitvectorSize = 0 => b \in x
     /\ b % BitvectorSize \in {1, 2} => b \notin x}

Half == NumPages \div 2

\* pm_get_memory_pressure is Cardinality(active) / Half, whether or not the
\* bits are those of pages; on a single page it is not a number and fails the
\* same assertion.
PressureAtMostOne == Half > 0 /\ Cardinality(active) <= Half
PressureReached == Cardinality(active) * ThDen >= ThNum * Half

Init ==
  /\ active = {}
  /\ bump = [p \in PageIds |-> 0]
  /\ amap = [p \in PageIds |-> {}]
  /\ unsafe = [p \in PageIds |-> FALSE]
  /\ pc = "client"
  /\ req = 0
  /\ objs = {}
  /\ kept = {}
  /\ intact = TRUE

-----------------------------------------------------------------------------
(* Allocation.                                                             *)

\* allocate on page p, n payload words, when the page map is m and ok says
\* whether it is intact: the header, the bump pointer, the allocation map.
\* The page is not asked again whether it has the room.
Place(p, n, m, ok) ==
  LET at == bump[p] + 1 IN
  /\ active' \in HeaderMaps(m, p, bump[p])
  /\ intact' = (ok /\ ~HitsMap(p, bump[p], bump[p]))
  /\ bump' = [bump EXCEPT ![p] = BumpAfter(@, n)]
  /\ amap' = [amap EXCEPT ![p] = @ \cup {Block(at)}]
  /\ objs' = objs \cup {[page |-> p, at |-> at, words |-> n]}
  /\ pc' = IF BumpAfter(bump[p], n) <= PageWords THEN "client" ELSE "overrun"
  /\ req' = 0
  /\ UNCHANGED <<unsafe, kept>>

\* activate_and_get_a_passive_page, then allocate there.  p_reset zeroes the
\* whole allocatable space, on page 0 the page map with it.
ActivateAndPlace(n) ==
  \E p \in PageIds :
    /\ IsFirst(p, Passive)
    /\ Place(p, n, (active \ HitBits(p, 0, PageWords - 1)) \cup {p},
             intact /\ active \cap HitBits(p, 0, PageWords - 1) = {})

Stop ==
  /\ pc' = "abort"
  /\ UNCHANGED <<active, bump, amap, unsafe, req, objs, kept, intact>>

\* h_gc begins: the trace starts, on behalf of an allocation of n words, or of
\* none when n is 0.
StartTrace(n) ==
  /\ pc' = "trace"
  /\ req' = n
  /\ kept' = {}
  /\ UNCHANGED <<active, bump, amap, unsafe, objs, intact>>

\* allocate_new when an active page has the room.
AllocInActivePage(n) ==
  /\ pc = "client"
  /\ \E p \in PageIds :
       IsFirst(p, WithRoom(active, n)) /\ Place(p, n, active, intact)

\* allocate_new when none has, below the threshold.
AllocInNewPage(n) ==
  /\ pc = "client"
  /\ WithRoom(active, n) = {}
  /\ PressureAtMostOne
  /\ ~PressureReached
  /\ ActivateAndPlace(n)

\* allocate_new when none has and the threshold is reached.
AllocCollects(n) ==
  /\ pc = "client"
  /\ WithRoom(active, n) = {}
  /\ PressureAtMostOne
  /\ PressureReached
  /\ StartTrace(n)

\* The assertion of pm_get_memory_pressure.
AllocStops(n) ==
  /\ pc = "client"
  /\ WithRoom(active, n) = {}
  /\ \/ ~PressureAtMostOne
     \/ ~PressureReached /\ Passive = {}
  /\ Stop

\* The rest of allocate_new once the collection it ran has returned.
FinishAlloc ==
  /\ pc = "place"
  /\ ActivateAndPlace(req)

\* "no passive pages to activate".
FinishStops ==
  /\ pc = "place"
  /\ Passive = {}
  /\ Stop

\* The client writes the payload of an object it was given, here words lo..hi
\* that cover some of the page map; its other writes change nothing of this
\* module.
ClientStore ==
  /\ pc = "client"
  /\ \E o \in objs : \E lo, hi \in o.at .. (o.at + o.words - 1) :
       /\ HitsMap(o.page, lo, hi)
       /\ active' \in DataMaps(active, o.page, lo, hi)
  /\ intact' = FALSE
  /\ UNCHANGED <<bump, amap, unsafe, pc, req, objs, kept>>

HDelete ==
  /\ pc = "client"
  /\ pc' = "deleted"
  /\ UNCHANGED <<active, bump, amap, unsafe, req, objs, kept, intact>>

-----------------------------------------------------------------------------
(* Collection.                                                             *)

HGc ==
  /\ pc = "client"
  /\ StartTrace(0)

\* The allocation maps and the flags once object o has been copied to new.
MovedKeepingMark(o, new) ==              \* mutant: the old mark stays
  [amap EXCEPT ![new.page] = @ \cup Marks(new.at)]
Moved(o, new) ==
  LET marked == [amap EXCEPT ![new.page] = @ \cup Marks(new.at)]
  IN  [marked EXCEPT ![o.page] = @ \ {Block(o.at)}]
MovedFlags(o, new) ==
  [p \in PageIds |-> /\ unsafe[p] \/ (p = new.page /\ IsFlag(new.at))
                     /\ ~(p = o.page /\ IsFlag(o.at))]

\* copy_object_and_return_pointer_to_new: object o is copied as n words to the
\* first passive page with room, its mark is cleared, and its header becomes
\* the forwarding address.
Copy(o, n) ==
  /\ pc = "trace"
  /\ \E p \in PageIds :
       LET new == [page |-> p, at |-> bump[p] + 1, words |-> n]
           hit == \/ HitsMap(p, bump[p], bump[p] + n)
                  \/ HitsMap(o.page, o.at - 1, o.at - 1)
                  \/ IsFlag(o.at) \/ IsFlag(new.at)
       IN
       /\ IsFirst(p, WithRoom(Passive, n))
       /\ bump' = [bump EXCEPT ![p] = BumpAfter(@, n)]
       /\ amap' = Moved(o, new)
       /\ unsafe' = MovedFlags(o, new)
       /\ objs' = (objs \ {o}) \cup {new}
       /\ kept' = (kept \ {o}) \cup {new}
       /\ \E h \in CopiedMaps(active, p, bump[p]) :
          \E d \in DataMaps(h, p, bump[p] + 1, bump[p] + n) :
            active' \in ForwardMaps(d, o.page, o.at - 1)
       /\ intact' = (intact /\ ~hit)
  /\ UNCHANGED <<pc, req>>

\* No passive page has the room: allocate is handed a null page.
CopyFails(n) ==
  /\ pc = "trace"
  /\ WithRoom(Passive, n) = {}
  /\ Stop

\* traverse_and_copy of an unsafe root: the object's page is flagged.
Pin(o) ==
  /\ pc = "trace"
  /\ unsafe' = [unsafe EXCEPT ![o.page] = TRUE]
  /\ kept' = kept \cup {o}
  /\ UNCHANGED <<active, bump, amap, pc, req, objs, intact>>

\* An assertion of the trace fails.
TraceStops == pc = "trace" /\ Stop

\* The pages a sweep empties, and the bump pointers it leaves.
FreedSwapped == {p \in active \cap PageIds : unsafe[p]}   \* mutant: the branches swapped
Freed == {p \in active \cap PageIds : ~unsafe[p]}

SweptBumpKept == bump                    \* mutant: p_reset_bump_pointer is forgotten
SweptBump == [p \in PageIds |-> IF p \in Freed THEN 0 ELSE bump[p]]

\* The pages it leaves active: those kept, and those that were copied to.
SweptForgetsCopies == active \ Freed     \* mutant: the second branch is missing
SweptKeepsActive == active \cup {p \in Passive : bump[p] # 0}  \* mutant: freed pages stay active
SweptActive == (active \ Freed) \cup {p \in Passive : bump[p] # 0}

\* garbage_collection, over all pages: active pages without unsafe objects are
\* emptied, those with them only lose the flag, passive pages that were copied
\* to become active.
Sweep ==
  /\ pc = "trace"
  /\ active' = SweptActive
  /\ bump' = SweptBump
  /\ amap' = [p \in PageIds |-> IF p \in Freed THEN {} ELSE amap[p]]
  /\ unsafe' = [p \in PageIds |-> unsafe[p] /\ p \notin active]
  /\ objs' = {o \in objs : o.page \notin Freed}
  /\ pc' = IF req = 0 THEN "client" ELSE "place"
  /\ UNCHANGED <<req, kept, intact>>

Next ==
  \/ \E n \in Sizes :
       \/ AllocInActivePage(n)
       \/ AllocInNewPage(n)
       \/ AllocCollects(n)
       \/ AllocStops(n)
  \/ FinishAlloc
  \/ FinishStops
  \/ ClientStore
  \/ HDelete
  \/ HGc
  \/ \E o \in objs :
       \/ Pin(o)
       \/ \E n \in {o.words} \cup MisreadSizes : Copy(o, n) \/ CopyFails(n)
  \/ TraceStops
  \/ Sweep

Spec == Init /\ [][Next]_vars
-----------------------------------------------------------------------------
(* Properties.                                                             *)

ObjectType == [page : PageIds, at : Nat, words : Nat]

TypeOK ==
  /\ active \subseteq MapBits
  /\ intact => active \subseteq PageIds
  /\ bump \in [PageIds -> Nat]
  /\ amap \in [PageIds -> SUBSET Nat]
  /\ unsafe \in [PageIds -> BOOLEAN]
  /\ pc \in PCs
  /\ req \in Sizes \cup {0}
  /\ objs \subseteq ObjectType
  /\ kept \subseteq ObjectType
  /\ intact \in BOOLEAN

\* Object o, payload included, ends before the header of object q.
Before(o, q) == o.at + o.words < q.at

\* Allocation, copying and sweeping never hand out memory twice: every object
\* that has not been moved or freed lies below its page's bump pointer and
\* shares no word with another one, through any number of collections.
ObjectsApart ==
  intact =>
    /\ \A o \in objs : o.at > 0 /\ o.at + o.words <= bump[o.page]
    /\ \A o, q \in objs :
         o # q /\ o.page = q.page => Before(o, q) \/ Before(q, o)

\* The allocation map marks the block in which each object starts and no other,
\* so that am_lookup accepts every object (each step that moves a bump pointer
\* or resets a page keeps the two in step).
MapMarksObjects ==
  intact =>
    \A p \in PageIds : amap[p] = {Block(o.at) : o \in {q \in objs : q.page = p}}

\* Two objects never share a bit of the allocation map, which has one for 16
\* bytes while objects start at every 8: clearing the mark of an object that
\* is copied never hides another one.
OneObjectPerBlock ==
  intact =>
    \A o, q \in objs :
      o.page = q.page /\ Block(o.at) = Block(q.at) => o = q

\* Between collections a passive page is empty, so that p_reset of a page that
\* is activated destroys nothing and first_free_passive_page starts afresh.
PassivePagesClean ==
  intact /\ pc \in {"client", "place"} =>
    \A p \in Passive : bump[p] = 0 /\ amap[p] = {} /\ \A o \in objs : o.page # p

\* What the trace has pinned or copied is still there after the sweep, until
\* the next collection starts.
ReachedSurvive == intact => kept \subseteq objs

\* No allocation runs past the end of its page, although allocate does not ask
\* whether the page it is given has the room.
NoOverrun == intact => pc # "overrun"

\* Whatever the client stores, an allocation lands on a page that has the room:
\* an "active page with enough space" or a freshly activated one (allocate.h).
NeverOverrun == pc # "overrun"
=============================================================================
