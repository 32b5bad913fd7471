# A verification project for the conservative, compacting collector

This directory models the heap library in `src/src`, a conservative, compacting
collector after Bartlett for single-threaded C programs, and the largest of its
client programs, the warehouse in `src/demo/inlupp2`, which keeps all its data in
that heap. The modules are written in TLA+, checked on small instances with TLC, and, where they
have theorems, proved with TLAPS. Every definition is translated from the C code;
`PROJECT.json` names the lines each one stands for.

## 1. The system

### Parts

| part | source (under `src/src`) | state | operations | module |
|---|---|---|---|---|
| heap layout | `gc.c` `h_init`, `heap/heap.c`, `page/page.c` `pages_init` | sizes and addresses of metadata, page map, pages | `calculate_no_pages`, `h_set_metadata`, `h_init`, `h_delete` | `HeapLayout` |
| pages | `page/page.c`, `page_map/page_map.c`, `allocation_map/allocation_map.c` | bump pointer, allocation map (128 bits) and unsafe flag per page; the page map (active or passive) | `p_reset`, `pm_set_page_to`, `am_set_allocation`, `pm_get_memory_pressure`, ... | `Pages` |
| allocator | `allocate/allocate.c` | none of its own | `allocate_new`, `allocate` | `Pages`, `Collector` |
| sweep | `garbage_collector/garbage_collector.c` | none | `garbage_collection` | `Pages` |
| trace | `traverse_and_copy/traverse_and_copy.c` | recursion over children, `origin` | `traverse_and_copy`, `traverse_children`, `manage_invalid_pointer` | `Collector` |
| root set | `find_root_set/find_root_set.c` | position on the stack | `find_root_set`, `scan_stack`, `kill_stack_pointers` | `Collector` |
| interface | `gc.c` | `unsafe_stack`, threshold | `h_alloc_struct`, `h_alloc_data`, `h_gc`, `h_gc_dbg`, `h_avail`, `h_used`, `h_delete`, `h_delete_dbg` | `Collector` |
| headers | `header/header.c` | the header word of each object | creation, identification, size and pointer offsets | `Layouts` (forwarding: `Collector`) |
| format strings | `header/format_string/format_string.c` | none | expansion, packing, interpretation | `Layouts` |
| bitvectors | `bitvector/bitvector.c` | arrays of words | get, set, count | sets, inside the others |
| utilities | `util/string_util.c`, `util/binary_util.c` | none | `duplicate_string`, conversions for the tests | in part in `Layouts` |

The client program, under `src/demo/inlupp2`:

| part | source | state | operations | module |
|---|---|---|---|---|
| linked list | `linked_list.c`, `iterator.c` | first, last and size; links; the iterator's link | append, prepend, insert, remove, clear, destroy; iterator create, reset, next | `LinkedList` |
| hash table | `hash_table.c`, `common.c` | 17 buckets of entries behind a dummy, size; a hash, a comparing and a recognising function | insert, remove, lookup, clear, values, keys | `HashTable` |
| warehouse | `warehouse.c`, `shelves.c` | table of merch by name, table of shelves, list of carts with a table of items each; counters of ids | insert, edit, replenish, destroy; cart create, add, remove, checkout, destroy, cost | `Warehouse` |
| menu | `frontend.c` | administrator or customer | a letter for each command | `Frontend` |
| input | `utils.c` | none | reads lines and checks them | - |

`src/test` and `src/doc`, `src/proj` are read for what they say of the program; the
other programs of `src/demo` fill lists; `gc.old.h` is a superseded header nothing includes.

### How they interact

The client calls the interface. An allocation turns a format string into a
header (`Layouts`), looks for the first active page with room, else asks the page
map for the memory pressure and either activates the first passive page or runs a
collection and then activates one. A collection scans the client's stack word by
word; a word is a root if the allocation map marks its 16-byte block or the word
before it is a forwarding header. With a *safe* stack the root's object is copied
to the first passive page with room, its old header becomes the forwarding
address and the stack word is changed; with an *unsafe* stack the page of the
object is flagged and the object stays. Then the object's children are visited
and copied. The sweep empties active pages that are not flagged, and activates
the passive pages that were copied to. Parts share the pages' metadata; there are
no threads, no I/O and nothing persistent. The collector runs to its end inside of
the client's call, but it is a long sequence of steps over data whose meaning
changes under it (marks cleared, headers replaced, pages filled), and the client
may call it at any time with any heap.

The menu calls the warehouse, the warehouse its tables and lists, and these allocate
in the heap, so that any of them may collect. Stock is written down four times - in a
merch, on its shelves, in the items of the carts, and as what all carts hold - and a
command changes several of these in turn. The table of a cart is keyed by a merch but
hashed and searched by what its memory reads as text, which is the address of its name up
to the first zero byte: which items hide each other depends on where the heap put the names.

### What is hard, and what makes the parts correct

* *Stale data inside a trace.* Marks are cleared and headers replaced while
  pointers to the old copies are still to be visited (sharing, cycles, an object
  that is a root and a child). Correct: a collection does not show to the client
  (`Transparent`), it stops the program only if memory is short
  (`CollectableNeverAborts`), and it ends (`GcEnds`).
* *Handing pages over.* Page map, bump pointers, marks and flags are four
  structures that each collection changes together. Correct: objects never
  overlap, marks are exact, passive pages are empty when they are activated,
  nothing that was reached is on an emptied page.
* *Limits.* Pressure exactly at its threshold, the last passive page, a page
  filled to its last word, the number of pages at which the page map grows by a
  bitvector, 55 layout bits, one block for 16 bytes when objects start at every 8.
* *Arithmetic the compiler would do better.* Offsets and sizes of fields.
* *Fields kept in step by hand.* First, last and size of a list; the size of a table and
  its entries; stock in the merch, on the shelves, in the items. Correct: a list is a
  sequence, a table a map (`SequenceSpec`, `MapSpec`), the books balance
  (`StockOnShelves`, `StockInCarts`, `ShelvesAgree`, `CheckoutSettles`).
* *Objects that outlive what they refer to.* An item refers to a merch that may be
  sold out, edited or removed before checkout. Correct: a price that was shown does
  not change by itself (`CostFrozen`), the program stops only in cases that are named
  (`StopsOnlyAfterOddItem`).
* *Where the page map lies.* It is in the allocatable space of page 0 (below).

`PROJECT.json` lists the hazards at their lines, with the properties aimed at them.

## 2. Modules

    HeapLayout ── HeapLayoutProofs        Layouts ── LayoutsProofs
        └─ MCHeapLayout                      └─ MCLayouts
    Pages ── PagesProofs ─────────────────┐ (Q ==)
      ├─ MCPages                          │
      └─ (P ==) Collector ── CollectorTraceProofs ── CollectorProofs
                    └─ MCCollector

    HashTable ─┐                     ListContract, MapContract
    LinkedList ┴ (L ==) Collections ── CollectionsProofs
                            └─ MCCollections
    Warehouse ── Frontend ── StockProofs
                      └─ MCFrontend

`FoldTheorems` has lemmas about sums, loops and sequences; `LayoutsProofs`, `CollectorProofs`,
`CollectionsProofs` and `StockProofs` extend it.

**Pages.** One action per operation: `AllocInActivePage`, `AllocInNewPage`,
`AllocCollects` and `FinishAlloc` are the paths of `allocate_new`, `AllocStops`
and `FinishStops` its assertions; `HGc`, `Copy`, `CopyFails`, `Pin`, `TraceStops`
and `Sweep` are what a collection does to the pages; `ClientStore` is the one
effect the client's own writes have on them. Which objects a trace copies or pins
is left open, so that what holds here holds for every trace. What a store to the page
map's words leaves of it depends on what is stored: any bits with the client's data
(`DataMaps`), the low bits of a header of its kind (`HeaderMaps`, `CopiedMaps`) or of a forwarding
address (`ForwardMaps`). The map is as long as whole bitvectors make it, and its bits of no page
count for the memory pressure, as in the code. Positions are words from the start of a page; `objs` is the history of the objects, which the code
does not keep. `pc` is where the program is; `"abort"` is a failed assertion or the
dereference of the null page that `first_free_passive_page` returns when no
passive page has room.

**Collector.** Adds the words of the pages, the client's stack and the frames of
the recursion over children, and conjoins to each step the action of `Pages` it
takes (`P == INSTANCE Pages`). `ScanSkips`, `ScanVisits` and `ScanStops` are an iteration of
`scan_stack`; `ChildSkipped`, `ChildVisited`, `ChildStops` and `ChildrenDone` one
of `traverse_children`; `Sweep` ends `h_gc`. `HUsed` is the walk of `h_used` over
the headers of a page. A word is tagged (nothing, pointer,
header, forwarding address, data) instead of being 64 bits; a header carries the
object's kind and, as a ghost, its identity, by which `View` compares what the
client sees before and after. The client pushes, loads, stores, allocates and
collects in any order; a new object is initialised before anything else is done.
`Reach` is the least set of addresses that has the roots and the children of its members,
which is what can be reasoned about; the instances have few enough objects for TLC to
enumerate the sets. `disturbed` is the history of whether a collection ever began with an
unsafe stack or on a heap that is not `Collectable` (section 3).

**HeapLayout.** `h_init` in bytes, with its assertions, and the metadata that
`pages_init` and then `initialise_pagemap_to_zeroes` write.

**Layouts.** Headers as 64-bit words (the set of bits that are 1). `CLayout` is the
reference: where a C compiler puts the fields. Letters `f` and `d` are treated by
the code like `i` and `l` and left out. A string that expands to
nothing is refused by an assertion, but for one that has both `*` and `c`, as `0*0c`: its header points
to the string, and the object is a header alone (`Refused`). Recursion is written as functions.

**LinkedList.** A link is an address; memory keeps the links to which the list or the
iterator leads, and any other address may be handed out again. `Created` and `Destroyed`
are `create_link` and `destroy_link` with their special case for the first and the only
link; each action does what its function does to the three fields of the list.

**HashTable.** What a key reads as is its `content`; `Comp` ends a search and `Eq`
recognises, as the two functions of a table do. There are three kinds of table, as
in the programs: `int` keys, `string` keys, and `merch` keys, which are read as text up
to a zero byte (`Prefix`) but recognised by address. `Rewrite` is the client or the
collector changing a struct that is a key.

**Collections.** A client that fills a table, takes its keys as a list, and uses the list.

**Warehouse, Frontend.** One operator per function of `warehouse.c`, one action per
letter of the menu that changes state, its questions as the parameters and its checks as the guards. Tables
with strings as keys are functions. A cart's table is the sequence of its items in the order of its
buckets: `Alike` are the items at which a search stops, `Found` is the item if the first of them is
the merch's own, `Position` is where a new one goes. An address is what is read of it: a bucket
and a text (`Addresses`). Totals are sums of functions over sets
(`SumFunctionOnSet`). `Crash` is the null pointer of `cart_remove_merch` and the
assertion of `iterator_current`. `cart_checkout` is one action; its loop over items and
shelves is given by what it has taken from each list at the end (`LocsAfter`). `HeapStops`
is a collection, by `X` or inside of any command that allocates. The menu's heap has 8 pages, its first
object is the warehouse's table with its array of 51 pointers, and the page map is a word of that
array (section 5): the collection takes the word for a pointer, and `am_lookup` asserts that it is none
(`allocation_map.c:37`). So what a collection would do to the addresses of names is never seen by
the menu.

The MC modules only hold constants, and `Sound` and `Mapped`, the constraints that
bound the exploration; each says what it cuts off.

### Refinement

`Collector` implements `Pages`: `PagesSpec` (that is `P!Spec`, with the kinds'
sizes for `Sizes` and no payload as the size of an object that is read wrongly)
is a property of run `CollectorLists`. So every step of a trace is one that
the theorems about `Pages` cover. The mapping is the identity on the variables
they share; the contents of the heap are hidden.

`Collections` implements two contracts. `ListContract` is a sequence with a position
that stays with its element; the links, `last` and `size` are hidden (`SequenceSpec`).
`MapContract` is a map from what keys stand for to at most one value; buckets, dummies
and the order of entries are hidden (`MapSpec`). Both become void, by a history
variable, when the client does what the code does not support: inserting before the
last element (`misplaced`), or two keys of a cart that read alike, or one that is rewritten
(`astray`). Those two are not left out of the warehouse, which has the table's search itself.

## 3. Runs

| run | instance | what it shows |
|---|---|---|
| `MCPages` | 3 pages of 5 words, sizes 1 and 2, map word in page 0 | all seven invariants of `Pages`; two objects fill a page to the word, the third page makes the number odd |
| `CollectorLists` | 2 pages of 7 words, up to 3 cells, 3 stack words, both modes, one collection | transparency, garbage, termination, refinement |
| `CollectorRepeated` | 2 pages, two pairs (two pointer fields each), stack words into the middle of objects, two collections | the same across collections and changes of mode, with false roots, which stop a collection or keep memory but change nothing the client sees; a safe collection never loses room; `h_used` is exact |
| `CollectorFull` | 4 pages of one object, cells and leaves, two collections | pressure, automatic collection, no page left, the page activated after a collection, which makes one more than half active and no more |
| `MCHeapLayout` | requests of 0 to 100 bytes, 20 bytes either way of 1, 2, 3, 63-66, 127-129, 192, 193 pages, large heaps; thresholds in and out of range | exact page count, refusals, intact page metadata |
| `MCLayouts` | all strings of up to five letters; 26 to 32 longs and up to 3 pointers (51 to 67 bits); runs of 7 to 9 chars; data of 0 to 17 bytes | pointers found where the compiler puts them, room for every field |
| `MCCollections` | 2 buckets, 3 keys of 4 contents (one negative, three in a bucket, one that reads like another), 2 values, all kinds; then lists of up to 4 links | both contracts, the fields of a list in step, the array of values filled exactly |
| `MCFrontend` | 2 merch, 2 names, 2 shelves, 2 carts of up to 2 items, 2 prices, stock of 2, 2 addresses in one bucket | books, shelves, carts, costs and the ways to stop |
| `PagesAliased` | 4 pages of 256 words, the map at word 37, objects of 200 words | section 5: the program's own page size, as an overrun needs objects of a large part of a page |
| `SharedChild`, `LongOffsets`, `RemovedMerchInCart` | those of the passing runs | disagreements, section 5 |

*Why the bounds suffice.* Overlaps, lost marks and stale pages involve two objects
and two pages, or one object and a page that is reused; three pages make first-fit
choose, and make half of the pages a rounded number. Three cells give lists,
forests, shared stack words and every order of root and child; two fields give
siblings, where the second is visited after the first was copied. A second collection
sees what the first leaves behind. Blocks are two words as in the code, so pages
of 5 or 7 words have objects at odd and even words. `MaxMade` and `MaxGcs` bound
the ghosts that count objects and collections. In `MCCollections`, `MaxEntries` bounds what
`size` may count: keys that are astray could be entered for ever; three keys make a
bucket with a first, a middle and a last entry, and four links let an operation hit the
first, the last, an inner link and one that the iterator holds while an address is used
again. In `MCFrontend` a stock of 2 on two shelves makes each of the three branches of checkout
happen, also one after the other; `MaxStock` bounds the stock of all merch together,
`MaxCarts` the ids given out and `MaxItems` the items of a cart. Two items in a cart are enough for
one to hide the other and for a merch to have two. Two addresses in one bucket make two merch alike or not, and a
rename change what is looked for, which loses an item as a change of bucket would; that items of different buckets
are apart is left to the theorems, which are for any addresses. Amounts of 0 are included, as the menu accepts them.

*What is cut off.* `Mapped` and `Sound` do not follow states in which the page map
was overwritten: invariants about pages are conditional on `intact`. The position
`PMWord` is the last word or so of page 0, so that the interesting states come
before it. In the program it is word `38 - k` with `k` bitvectors of
page map, as in `PagesAliased`. `BitvectorSize` is 2 in `MCPages`, so that its map is two words, with a bit of no
page, that can be hit one by one. `Sound` also stops where a collection of a heap that is not `Collectable`
has broken the client's view; what it breaks is a matter of the violation runs.

*Collectable heaps.* `Transparent` and `CollectableNeverAborts` are about heaps that
this collector preserves: no object is the child of two fields, an object that is
both a child and on the stack is first reached from an earlier stack word, and
with an unsafe stack no two stack words are equal. The code gives no such
precondition; the model found it (section 5). The premise is not empty: a
root that is not written back, and a null child that is looked up, are caught by
these two properties, on heaps that satisfy it.
Termination and the invariants of the pages need no such premise.

*Fairness.* `WF_vars(Collect)`: once called, the collector keeps taking steps. It is
sequential code in the client's own thread, without blocking. Nothing is assumed
of the client. The containers and the menu have no fairness: nobody need give another command.

## 4. Proofs

All theorems are for arbitrary constants that satisfy the named assumptions, and every
assumption is one that TLC evaluates in the runs: at least one page of at least one word, any
position of the page map, at least two bits in a bitvector, any threshold in 0..1 (`PagesAssumption` and those of `Pages`); sizes
that fit a page, and pointers only in structs, each at an offset of its own (`KindsAssumption`);
stray words that are addresses (`ClientAssumption`); addresses of names with any text and any natural
as their bucket (`AddressesAssumption`); prices and the bound on stock that are
naturals (`PricesAssumption`, `BoundsAssumption`); any set of requests to `h_init`; any format
strings over the letters `c i l *` whose expansion fits the buffer that it is written to
(`FormatsAssumption`, `BufferAssumption`: what a longer one overwrites is undefined), and sizes
of raw data up to 2039 bytes (`DataSizesAssumption`); any contents of keys that are numbers, at least one bucket,
the three kinds of table (`ContentsAssumption`), and finitely many links, none of them null
(`LinksAssumption`).

### Pages and the heap layout

`PagesProofs`
* `TypeCorrect` - the type invariant.
* `Safety` - `ObjectsApart`, `PassivePagesClean`, `ReachedSurvive` and `NoOverrun`,
  through any number of collections with any trace, also one that copies an object
  with a wrong size. The properties are not inductive: that an allocation stays on
  its page needs the page that is activated to be empty, which the sweep only
  leaves so because every object it kept lies below its bump pointer and every object
  reached is on a flagged or a passive page. `IInv` has these facts: bump pointers
  on their pages, passive pages at 0 between collections, a page without objects has no
  marks, reached objects on pages that the sweep keeps. One lemma for each group
  of actions carries it.
* `MarksExact` - when no object is copied as a header without payload (`0 \notin MisreadSizes`),
  the allocation map marks exactly the blocks in which objects start, and no two
  objects share one, although objects may start at every word.
* `PassiveAreClean`, `ReachedAreKept`, `PagesNotOverrun`, `BlocksNotShared` - each of these
  properties by itself.

`HeapLayoutProofs`
* `NoPagesExact` - `calculate_no_pages` returns the largest number of pages that
  fits, for every request from 56 bytes on: the approximation is right or one short
  (`ApproximationBounds`), and `Increment` says which.
* `Exact` - hence every heap of `h_init` has the most pages that fit, and requests
  are refused only if two do not (`OnlyTooSmallRefused`).
* `PageMapOnPageZero` - in heaps of up to 2432 pages the page map lies in the
  allocatable space of page 0, at word `38 - k`.
* `Accessible` - `h_init` leaves every page's bump pointer at its start, but for
  page 0 of the heaps of 2625 pages or more.

### The collector

`CollectorTraceProofs` and `CollectorProofs`, for any kinds of objects, any heap, any client
and any number of collections:

* `CollectionTransparent` - a collection does not show: the stack and the graph that it
  reaches are the same afterwards (`Transparent`).
* `CollectionFrees` - it leaves exactly what was reached (`GarbageFreed`).
* `TraceNeverAborts` - it stops the program only if no passive page has room for an object
  (`CollectableNeverAborts`).
* `AllocKeepsObjects` - no allocation, with or without a collection, changes a word of another
  object (`AllocDisturbsNone`).
* `DeleteKills` - `h_delete_dbg` leaves no pointer to an object (`ObjectsKilled`).
* `PagesImplemented` - the pages take only the steps of module `Pages` (`PagesSpec`).
* `TypeCorrect` - the type invariant; `Inductive` - the invariant below.

The second half of `CollectorProofs` is about the amount of memory:

* `CollectionGivesBack` - a collection with a safe stack leaves no less memory available than there
  was (`SafeGcCollects`).
* `UsedCounts` - `h_used` counts the words of every object once (`UsedExact`).
* `PressureKept` - with objects of one size at most one page more than half is active
  (`PressureBounded`).

*The hypothesis.* All of these are about the states (for the action properties: the behaviours)
that are `Sane`: no foreign store has hit the page map, and every collection so far began with a
safe stack on a `Collectable` heap. Both halves are false in some behaviours of the program, for
the reasons in section 5, and both are about the past: a collection of another heap leaves
pointers to addresses that are no objects any more, and what a later collection makes of those
is arbitrary. They are not about what the step at hand does. The runs check the same properties
with the weaker premises that their definitions have, with unsafe stacks among them: on these,
transparency and the rest are only model-checked.

*The invariant.* `IInv` says what every sane state has. Objects have headers of their own kind,
with identities that differ, and the properties of `Pages` hold (`BaseInv`; every step is one of
`Pages` in which only objects are copied, `PagesStep`, so that the lemmas of `PagesProofs` carry
over). Between collections the fields of objects and the words of the stack lead to objects, and
if the last step was a collection, to the graph that it found (`ClientInv`). During one,
`TraceInv`: the graph that the collection found, by identities (`GraphInv`), and where each edge
has got to. A root that was scanned leads to a copy, one that was not to an original or to a
forwarding header (`RootsInv`). A field of an object not yet copied leads to an original or to a
forwarding header; a field of a copy that `traverse_children` has still to visit to an original,
and every other field of a copy to a copy (`EdgesInv`, `TracedInv`, `FramesInv`).

The heart is that a field to visit never leads to an object that was copied already: its mark
would be gone, the pointer be taken for an invalid one, and the program stop or the field be left
with the old address. It holds because each object is the child of one field (`GraphInv`), whose
object was copied before it (`ParentsInv`), because a root that is also a child is reached from an
earlier stack word, and because the one pointer that is skipped without being looked up, to the
current root, would make the root its own descendant (`OriginInv`). These are the three
conjuncts of `Collectable`, so the proof uses the whole premise. When the trace is over, the copies
contain the roots and are closed under the edges; what was reached is the least such set
(`Reach`); so they are the same, and the sweep, which keeps what lies on passive pages, keeps
exactly this.

*The amounts.* An allocation or a copy puts an object at the bump pointer of its page, and pages are
reset as a whole, so in a sane behaviour the objects of a page fill it from its start to its bump
pointer (`Filled`; an unsafe stack keeps pages with originals whose copies are elsewhere, and the
premise excludes it). `Below` names the objects of a page up to a word that ends one of them, and
`NextBelow` that the next object starts right there. From this:
* the words in use are the sum of the bump pointers (`OnFills`, `PagesUse`), and during a collection they are the
  copies and what is still to be copied. Whatever was available at its start, together with
  the words in use, never exceeds the heap (`RoomInv`): a copy is as long as its original and no
  original is copied twice. After the sweep this is what `SafeGcCollects` says;
* each step of the walk of `h_used` goes from one object of the page to the next (`WalkStep`), and the
  allocation map has as many marks as the page has objects (`MarksCount`, from `OneOwner` of
  `PagesProofs`): the walk ends when all are counted (`WalkAll`);
* with objects of one size `d`, bump pointers are multiples of `d`, and a page is full when there is no
  room for another object: then it has `F` words, the same number for each page (`FullExists`). A collection takes
  the first passive page with room, so that a passive page is only used when those before it
  are full (`Mounting`). The objects in use at its start fit on the active pages,
  at most `F` words on each (`Paced`); hence the pages that it fills are at most
  as many as were active.

`IInv` was checked with TLC on the three runs of `Collector` before it was proved. Attempts that
failed have changed the model:
* `UsedExact` and `PressureBounded` held in the runs only thanks to the constraint `Sound`, which
  cuts off what follows a collection of a heap that is not collectable; now `disturbed` says so
  in the properties themselves.
* `PressureBounded` was stated for objects of all sizes. Objects that first-fit packed well may need
  more pages when they are copied in another order; the property is now about heaps whose objects
  have one size.
* That raw objects have no pointers, and that the offsets of a struct differ, was left implicit in
  the kinds that the runs use. A raw object with pointers would have fields that `traverse_children` never
  visits. `KindsAssumption` says it, as `header.c` justifies it: a raw header has a size alone, and
  each pair of layout bits stands for another offset.

### The warehouse

`StockProofs`, for any sets of merch, names, shelves and addresses and any bounds. First, what
needs the shape of the records only:
* `CartsAreFound` - ids ascend along the list of carts and lie below the counter, so that
  the search by id finds the cart that was chosen, though others were removed or checked
  out. `CartsInv` adds that the list is a sequence: removal moves what follows, and the
  ascent has to be carried over to the moved positions (`CartsRemove`). Every command
  that only changes the contents of a cart keeps the ids (`TablesChange`).
* `ShelvesStayAgreed` - the table of shelves and the lists of the merch say the same after any
  commands. It is not inductive: a merch that was removed may still be led to by an item, and
  its list has to be known to be a sequence when it is sold from, and a struct
  must not be dropped while a table leads to it. `ShelvesInv` adds the shape of the merch
  (`MerchOk`) and that items lead to existing ones (`ItemsOk`). `CheckoutShelves` is the
  core: what checkout removes from the table is a beginning of the list, named once.

On top of it, the books:
* `StockIsOnShelves` - for every merch the stock that is noted is the sum of what its shelves hold
  (`StockOnShelves`).
* `CartsHoldStock` - the amount noted as being in carts is the sum over the items of all carts, and
  no more than the stock (`StockInCarts`).
* `CheckoutsSettle` - a checkout takes from the stock and from the shelves what the customer pays for
  (`CheckoutSettles`).
* `CostsFrozen` - if the cost of a cart changes in a step, that step was a command on the items of
  that cart: the other carts, every price, the shelves and the table of the warehouse are as they were
  (`CostFrozen`). So no edit of a price and no removal reaches a cart.
* `StopsOnlyThen` - until a collection, a null pointer or failed assertion of the warehouse happens only after
  an item of amount 0 was accepted, or an item was put before another merch's item that is alike
  (`StopsOnlyAfterOddItem`).
* `TypeCorrect` - the type invariant.

`BooksInv` balances the four books of each merch (`BookOk`), also of those that are in no table any
more: they hold nothing, so that an item that still leads to one has amount 0. The hard step is checkout,
a loop over items with a loop over shelves inside: what all items of a merch take together
(`SoldIsHeld`) comes from a beginning of its list, the last shelf of which keeps the rest
(`LocsAfterSale`).

For `StopsOnlyThen`, `Regular` says of a table that no item is of amount 0, no two are alike, and each lies in
the bucket of its merch's address as it is now. `FoundInv` says that all carts are regular as long as
neither history is true. In a regular table every item is found (`NoCrash`), and a merch with an item has stock
and so a shelf; an edit is refused for it, as its `stock_in_cart` is not 0, so its address stays. A new item
either makes one of the histories true or leaves the table regular (`PutFound`), and so does taking
(`TakeFound`). For `CostsFrozen`, the cost is the sum over a cart's own items of amount times price
(`CostByMerch`); an edit reaches only merch of which all carts hold 0 (`StockInCarts`), whose summands stay 0
whatever their price becomes; every other command leaves the items of the cart or every price alone
(`ItemsKept`, `CostSame`).

### The headers

`LayoutsProofs`, for format strings of any length that the buffer holds, and any numbers
before their letters
* `LayoutPointersFound` - the collector finds the pointers of a struct with a layout in
  its header where the compiler put them, if longs need no padding (`PointersFound`).
* `LayoutFormatPointersFound` - the same for a header that points to its format string, if
  the other fields come in whole words (`FormatPointersFound`).
* `LayoutSizeCovers` - an object has the room that its struct takes (`SizeCovers`).

*The argument.* A header and the three ways of reading it go through the fields in order,
and so does the compiler. Each of them is the value, after the last letter, of a function
of the number of letters done: `CWalk` for the compiler, `BWalk` for the layout bits,
`FWalk` for the format string, `PWalk` for raw data. Two are compared by induction on this
number, with an invariant that relates their states. For the layout bits it is that after
the bits of a field the offset is the end of the compiler's field, a multiple of 4, and
the same pointers were found: a pointer rounds both up in the same way, and a long is read
as two ints. For raw data, that the bytes counted with their padding are that end, and
with the room left a multiple of 8. For the format string, which records an offset before
its padding and starts a new word only when a field no longer fits in, the invariant is
about the last pointer: its word was full, and offset and room are what the fields since
then have taken (`LastPointer`, `FieldBytes`). Before that, bits have to be values: that
the layout bits do not overlap the bits of the kind and the size, that there are as many
as `required_amount_of_bits` says (`LayoutBits`), and that a size written in bits is read
back, which is a sum of powers of 2 (`Pow`, written out, as exponents are beyond the
provers). `LayoutInv` is the invariant of the specification: the header and the size of an
allocated object are made from one format string, by `h_alloc_struct`'s rules.

Two sums were restated as sums of a function (`SumFunction`), for which there are lemmas,
in place of a fold with a LAMBDA. `FormatsAssumption` was weakened from the counts of the
run to all naturals; the program asserts that there are at most three digits
(`TooManyDigits`), which the actions check.

### The containers

`CollectionsProofs`, for any set of links, any contents and kinds of keys, and any history
of calls
* `CollectionsSequenceSpec` - the list implements a sequence with a position
  (`SequenceSpec`): each step of the links is a step of `ListContract` on the elements in
  their order, or does not show.
* `CollectionsMapSpec` - the table implements a map (`MapSpec`): what is inserted is
  found, what is removed is not, and nothing else changes.
* `CollectionsListIntact` - `first`, `last` and `size` tell of the links that there are
  (`ListIntact`).
* `CollectionsValuesFillArray` - `hash_table_values` writes as many values as it has
  allocated room for (`ValuesFillArray`).
* `CollectionsTypeOK` - the type invariant; `CollectionsInvariant` - the invariant below.

*The list.* `IsChain(lk, l, s)` says that `s` is the sequence of links that following
`next` from `l` goes through. A memory has at most one for each link (`MemChain`), which
repeats no link (`ChainInjective`). The walk of the model (`FromIn`) is a recursive
function; it is this sequence, so each operation is about sequences. `ListIntact` by
itself is not inductive for two reasons. Memory is given back when neither the list nor
the iterator leads to it, and handed out again: what is left must be whole. And an
iterator may stand on a link that was removed from the list, and go on from there, in or
out of the list. `ListInv` therefore says of *every* link in memory that the way from it
comes to an end (`Mem`), not only of the first. Three lemmas carry it: a new link on top
(`Makes`, `Linked`), a link redirected over another (`Redirects`, `LeadsOver`: every other
way loses at most the links in between), and a memory cut down to what is still led to
(`Keeps`). `last` and `size` tell of the way from
`first` until the client inserts before the last element (`misplaced`); from then on the
invariant keeps only `Mem`, until the client makes a new list, which is sound again
whatever was left behind.

*The table.* The search for a key stops where `Comp` says so, and asks whether the entry there is
the key (`Eq`). It finds what was inserted only because of the
order of each bucket and because each key is in the bucket of its hash; this is `Housed`,
and holds until a key is astray. For `int` keys the order is ascending, for texts it is
that no two are equal, for a merch that no two *read* alike up to the first zero byte, which
is more than that their addresses differ (`Below`). `FoundAlone` and
`MissingWithout` are what the search promises, `ReplacedOrder`, `InsertedOrder` and their
counterpart for removal that it stays true. That the size is the number of entries needs
no order, only that a removal removes one entry: it holds for tables with keys that are
astray too, and so does `ValuesFillArray`. `TakeKeysStep` composes the two: the list of
the keys is made by as many appends as there are entries, and is the concatenation of the
buckets.

For the refinements the instance of each contract is given the elements and the map that
the invariant determines (`ItemsNow`, `PosNow`, `MapNow`); each action of the containers
is a step lemma that ends in the action of the contract.

### What the library lacks

`FoldTheorems` proves what the modules above need to know of recursive definitions of the
community modules:
* `SumFunctionOnSet`, a recursion over subsets that leaves out the element that `CHOOSE`
  picks: that the recursion has exactly one solution, that any element may be taken out
  first, that sums are naturals, add up over disjoint sets, change with one summand, and
  can be grouped;
* a loop whose steps are given one by one has a run (`Runs`, `RunExists`), and two loops
  that take the same steps agree (`RunsAgree`);
* `FlattenSeq` is the run that joins one sequence after the other; its length is the sum
  of theirs, its members are theirs;
* a sequence with an element more or less (`Inserts`, `Removes`).

Induction theorems with an operator as a parameter are beyond the provers, but that a set
of counterexamples has a minimal member is first-order (`MinimalSubset` and `LeastNumber`,
from the well-foundedness of the strict subset relation and of `<`), and serves instead.

### Only model-checked

* Of `Collector`: all properties when a stack is unsafe or a heap was not collectable; in particular
  `SafeGcCollects`, which the runs check on any heap, is proved as long as all were collectable. And
  `GcEnds`, as liveness under fairness (and `ENABLED`) is out of the provers' reach.
* The counterexamples of the next section, by their nature.

Every other property of a passing run is also a theorem.

## 5. Where the code and its texts disagree

Four have a run whose counterexample shows them:

* **`PagesAliased`**, `heap.c:93`. `(bitvector_t *) (char *) heap_address +
  h_metadata_size()` casts first, so the map is 384 bytes into the heap and not in
  the room reserved for it, but in the allocatable space of page 0. In the run a client
  is given an object of 1600 bytes and stores its data in it, which clears the bit of page 0; the next
  object is placed on page 0 again, behind the first, and ends outside of it.
* **`SharedChild`**, `traverse_and_copy.c:86`. The mark is asked for before the
  header: an object already copied, reached again through another field, has no
  mark and counts as an invalid pointer. The program stops, or at a first field the
  pointer is left to the old copy.
* **`LongOffsets`**, `header.c:193`. Longs are not aligned when offsets are computed:
  in `"ili*"` the pointer, at byte 24, is looked for at byte 16, where the second int and padding are.
* **`RemovedMerchInCart`**, `frontend.c:391`. Whether a merch is in a cart is decided by its
  amount there, and 0 is accepted as an amount: a merch can be removed, or renamed, while an
  item leads to it (against the message at `frontend.c:398`). Buying the cart then fails
  the assertion of `iterator_current`, as there is no shelf.

Others that were met while modelling, which the properties exclude by a premise:

* A pointer back to the root's old address (a cell that points to itself) is skipped and
  keeps pointing to a page that is reset (`traverse_and_copy.c:85`, against
  `test/traverse_and_copy_tests.c:137`).
* After a collection that kept all pages, one page more than half is activated; the next
  allocation that needs a page fails the assertion `memory_pressure <= 1`
  (`allocate.c:58`, against `page_map.c:46`; `PressureBounded` says that it is never more).
* After an unsafe collection, or one with a false root, `h_used` may meet a forwarding header on a
  page in use and take it for a format string (`gc.c:182`); `UsedExact` excludes these.
* `ioopm_linked_list_insert` puts an element behind the one that has the index, against `linked_list.h:37` and the
  comment at `linked_list_unit_tests.c:174`, whose test does not look at the list; with the index of the last
  element it leaves `last` behind, too (`linked_list.c:137`). `ListContract` leaves the position of an insertion free,
  so `SequenceSpec` is not about this.
* A cart's table is searched by the address of a name, read as text (`warehouse.c:231`, `hash_table.c:99`). With
  texts that are equal, as those of any two addresses whose lowest byte is zero, and the same bucket, one item
  hides the other; when a merch with an item of amount 0 is renamed, its item is looked for in another bucket.
  Removing such an item dereferences null (`warehouse.c:356`), adding makes a second one of the merch.
  `alike` and `zeroItem` name these states.
* The first collection stops the demonstration: the page map is word 25 of the array of buckets of its first table,
  the word is not zero once a page is active, and the trace hands it to `am_lookup` as a child
  (`allocation_map.c:37`). `HeapStops` stands for it; the bug is that of `PagesAliased`.
* Heaps of 2625 pages on lose the bump pointer of page 0 (`heap.c:93`; `PagesAccessible`
  says exactly which).
* An unsafe root that an earlier root has already copied as its child is redirected,
  and its page not flagged (`traverse_and_copy.c:114`, against
  `garbage_collector.c:7`).
* A false root on an unsafe stack stops the program (`traverse_and_copy.c:64`, against
  `proj/deviations.md:33`).
* With an unsafe stack `h_gc` may return a negative difference as a `size_t`
  (`gc.c:241`): children are copied away from a page that stays.
* `h_delete_dbg` leaves words that point inside of objects (`find_root_set.c:82`).
* Raw data is packed without alignment: `"cic"` gets 8 bytes, the struct takes 12
  (`format_string.c:169`; `SizeCovers` excludes mixed data with chars).
* `interpret_format_string` records an offset before its padding, and does not count a
  field that follows a full word (`format_string.c:197`, 204; `WordsBetweenPointers`
  says when the result is right).
* Allocations over 2040 bytes are not refused (`gc.c:301`).
* The format string of a long layout is referred to only by the header, which the trace
  does not follow; such objects are copied as a header alone (`traverse_and_copy.c:57`).

## 6. Not modelled

* Registers: `setjmp` dumps them to be scanned, and changed values are not restored.
  The model's stack holds all roots; the collector's own frames are not on it.
* Objects with format-string headers inside of `Collector`, and so the part of `h_used`
  that subtracts the strings.
* Child pointers outside of the heap, to which the client of the model never sets
  a field; `points_into_heap` of other stack words is a word that is no pointer.
* The contents of strings (`duplicate_string` copies one byte too many), the
  expansion buffer's overrun from 2040 letters on, the rejection of letters that
  no format string has.
* In the warehouse: what a collection would do if it did not stop the program, the
  reading and paging of text, the lists of allocated strings, `ioopm_cart_list_destroy`, which
  nothing calls. Amounts and prices are unbounded; the menu's are below 2^31.
* `utils.c`: reading of lines, whose results are the model's inputs; `read_string`
  writes one character past its buffer for lines of 255 (line 143).
* `binary_util.c`, tests, the other demos, which only fill lists.

## 7. Plan

Done, in this order: `Pages` (the hand-over of pages is the core), its proofs,
`Collector` on top of it, `HeapLayout` with its proofs, `Layouts`; then `h_used` and the
pressure after a collection in `Collector`, `LinkedList` and `HashTable` with their contracts,
`Warehouse` and `Frontend`, and their proofs; then the proofs of `Collector`, of the amounts of
memory and of the books of the warehouse, with the sums that these two need; then those of the
headers and of the containers with both refinements.

What could be added:
1. A kind of object in `Collector` whose header points to another object: the
   two-step allocation of `header_creation_layout`, the copy without payload, the
   string that is freed.
2. Bitvector arrays: index arithmetic of `bitvector.c` against sets, and the two
   words of the allocation map.
3. A proof of `SafeGcCollects` on heaps that are not collectable, where a collection copies
   some objects and stops at others.
