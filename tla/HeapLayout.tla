----------------------------- MODULE HeapLayout -----------------------------
(***************************************************************************)
(* h_init: how many pages a heap of a requested size has, and where the  *)
(* heap's parts lie in it (gc.c, heap.c, pages_init of page.c).  Addresses *)
(* are bytes from the start of the heap, whose metadata come first, then   *)
(* the room reserved for the page map, then the pages, each of them its    *)
(* metadata and PAGESIZE bytes.                                            *)
(*                                                                         *)
(* Sizes are size_t in the code.  Requests below 56 bytes make it wrap: the*)
(* number of pages becomes -2126706959 as an int and min_heap_size         *)
(* negative, which the comparison with bytes turns into a huge size_t, so  *)
(* that h_init stops as it does for the other requests that are too small. *)
(***************************************************************************)
EXTENDS Integers

CONSTANTS
  Requests,    \* values of bytes that h_init is called with
  Thresholds   \* values of gc_threshold, in halves

ASSUME RequestsAssumption   == Requests \subseteq Nat
ASSUME ThresholdsAssumption == Thresholds \subseteq Int

PAGESIZE == 2048
BITVECTOR_SIZE == 64
BitvectorBytes == 8
HeapMetadata == 48   \* h_metadata_size
PageMetadata == 32   \* p_metadata_size
P_ALLOC_SIZE == PAGESIZE + PageMetadata

VARIABLES
  status,    \* "none", "heap" when there is a heap, or "abort"
  asked,     \* the bytes and the gc_threshold h_init was called with
  heap,      \* the heap's metadata
  next_free  \* next_free_address of each page

vars == <<status, asked, heap, next_free>>

\* The bytes of a page map for no_pages pages.
calculate_pagemap_size(no_pages) ==
  IF no_pages % BITVECTOR_SIZE = 0
    THEN (no_pages \div BITVECTOR_SIZE) * BitvectorBytes
    ELSE ((no_pages \div BITVECTOR_SIZE) + 1) * BitvectorBytes

\* The first approximation of calculate_no_pages, from 56 bytes on.
Approximation(b) ==
  (8 * (b - HeapMetadata - BitvectorBytes)) \div (8 * P_ALLOC_SIZE + 1)

ExtraSpace(b, n) ==
  b - HeapMetadata - P_ALLOC_SIZE * n - calculate_pagemap_size(n)

NeverIncrement(b, n) == FALSE      \* mutant: the approximation is taken
Increment(b, n) ==
  \/ ExtraSpace(b, n) >= P_ALLOC_SIZE /\ n % BITVECTOR_SIZE # 0
  \/ ExtraSpace(b, n) = P_ALLOC_SIZE + 8 /\ n % BITVECTOR_SIZE = 0

calculate_no_pages(b) ==
  LET n == Approximation(b) IN IF Increment(b, n) THEN n + 1 ELSE n

\* The size of a heap of n pages.
AllocSize(n) == HeapMetadata + calculate_pagemap_size(n) + n * P_ALLOC_SIZE

\* The smallest heap that h_init accepts when it has found room for n pages.
MinHeapSizeOfThree(n) ==           \* mutant: a page too many
  P_ALLOC_SIZE * 3 + HeapMetadata + calculate_pagemap_size(n)
MinHeapSize(n) == P_ALLOC_SIZE * 2 + HeapMetadata + calculate_pagemap_size(n)

\* Byte address of the page map: the cast in h_set_metadata binds tighter than
\* the addition, which therefore counts bitvectors.
PageMapAddress == HeapMetadata * BitvectorBytes

FirstPageOnMap(n) == HeapMetadata  \* mutant: no room is left for the page map
FirstPage(n) == HeapMetadata + calculate_pagemap_size(n)
PageAddress(h, p) == h.first_page + p * P_ALLOC_SIZE

\* A word that initialise_pagemap_to_zeroes has set to zero in full; the one
\* that it may clear in part, the last of the page map, is no next_free_address.
Zeroed(h, a) ==
  /\ a >= h.pagemap
  /\ a + BitvectorBytes <= h.pagemap + BitvectorBytes * (h.no_pages \div BITVECTOR_SIZE)

NothingAsked == [bytes |-> 0, threshold |-> 0]
NoHeap == [no_pages |-> 0, total_bytes |-> 0, first_page |-> 0, pagemap |-> 0]

Init ==
  /\ status = "none"
  /\ asked = NothingAsked
  /\ heap = NoHeap
  /\ next_free = [p \in {} |-> 0]

\* The assertions of h_init.
Accepts(b, threshold) ==
  /\ threshold \in 0 .. 2
  /\ b >= HeapMetadata + BitvectorBytes
  /\ LET n == calculate_no_pages(b) IN
     /\ b >= MinHeapSize(n)
     /\ AllocSize(n) \in MinHeapSize(n) .. b

InitStops(b, threshold) ==
  /\ status = "none"
  /\ ~Accepts(b, threshold)
  /\ status' = "abort"
  /\ asked' = [bytes |-> b, threshold |-> threshold]
  /\ UNCHANGED <<heap, next_free>>

HInit(b, threshold) ==
  LET n == calculate_no_pages(b)
      h == [no_pages |-> n, total_bytes |-> AllocSize(n),
            first_page |-> FirstPage(n), pagemap |-> PageMapAddress]
  IN
  /\ status = "none"
  /\ Accepts(b, threshold)
  /\ status' = "heap"
  /\ asked' = [bytes |-> b, threshold |-> threshold]
  /\ heap' = h
  /\ next_free' = [p \in 0 .. (n - 1) |->
       IF Zeroed(h, PageAddress(h, p)) THEN 0 ELSE PageAddress(h, p) + PageMetadata]

HDelete ==
  /\ status = "heap"
  /\ status' = "none"
  /\ asked' = NothingAsked
  /\ heap' = NoHeap
  /\ next_free' = [p \in {} |-> 0]

Next ==
  \/ \E b \in Requests, threshold \in Thresholds :
       InitStops(b, threshold) \/ HInit(b, threshold)
  \/ HDelete

Spec == Init /\ [][Next]_vars
-----------------------------------------------------------------------------
(* Properties.                                                             *)

\* The pages that h_init makes fit in the bytes asked for, and a page more with
\* its bit in the page map would not: calculate_no_pages corrects what its
\* approximation is short of.
HeapExact ==
  status = "heap" =>
    /\ heap.no_pages >= 2
    /\ heap.total_bytes = AllocSize(heap.no_pages)
    /\ heap.total_bytes <= asked.bytes
    /\ AllocSize(heap.no_pages + 1) > asked.bytes

\* h_init refuses a legal threshold only if two pages do not fit; its last
\* assertion never fails.
StopsOnlyWhenTooSmall ==
  status = "abort" /\ asked.threshold \in 0 .. 2 => asked.bytes < AllocSize(2)

\* From this size on the page map lies over the metadata of page 0.
PagesUnderMap == 2625

\* After h_init next_free_address of every page is the start of its space (the
\* tests test_first_page_accessible and test_second_page_accessible), except for
\* page 0 of large heaps: initialise_pagemap_to_zeroes, which runs after
\* pages_init, clears it there, and nowhere else.
PagesAccessible ==
  status = "heap" =>
    \A p \in 0 .. (heap.no_pages - 1) :
      next_free[p] = PageAddress(heap, p) + PageMetadata
        <=> p # 0 \/ heap.no_pages < PagesUnderMap
=============================================================================
