-------------------------- MODULE HeapLayoutProofs --------------------------
(***************************************************************************)
(* That calculate_no_pages is exact, for every request, and what follows   *)
(* for h_init.  With Q bitvectors of page map for n pages, 8 * Q lies      *)
(* between n / 8 and n / 8 + 63 / 8, which is what the approximation is    *)
(* short of; the two conditions of Increment are the two ways in which a   *)
(* page more may fit.                                                      *)
(***************************************************************************)
EXTENDS HeapLayout, TLAPS

\* calculate_pagemap_size rounds the bits up to whole bitvectors.
LEMMA PageMapSize ==
  ASSUME NEW n \in Nat
  PROVE  \E q \in Nat : /\ calculate_pagemap_size(n) = 8 * q
                        /\ n <= 64 * q
                        /\ 64 * q <= n + 63
<1>1. CASE n % 64 = 0
  <2>1. calculate_pagemap_size(n) = 8 * (n \div 64)
    BY <1>1 DEF calculate_pagemap_size, BITVECTOR_SIZE, BitvectorBytes
  <2>2. n \div 64 \in Nat /\ n = 64 * (n \div 64)
    BY <1>1
  <2> QED BY <2>1, <2>2
<1>2. CASE n % 64 # 0
  <2>1. calculate_pagemap_size(n) = 8 * ((n \div 64) + 1)
    BY <1>2 DEF calculate_pagemap_size, BITVECTOR_SIZE, BitvectorBytes
  <2>2. /\ (n \div 64) + 1 \in Nat
        /\ n <= 64 * ((n \div 64) + 1)
        /\ 64 * ((n \div 64) + 1) <= n + 63
    BY <1>2
  <2> QED BY <2>1, <2>2
<1> QED BY <1>1, <1>2

\* A page more needs a bitvector more exactly when the last one is full.
LEMMA PageMapGrowth ==
  ASSUME NEW n \in Nat
  PROVE  calculate_pagemap_size(n + 1) =
           calculate_pagemap_size(n) + (IF n % 64 = 0 THEN 8 ELSE 0)
<1>1. PICK q \in Nat : /\ calculate_pagemap_size(n) = 8 * q
                       /\ n <= 64 * q
                       /\ 64 * q <= n + 63
  BY PageMapSize
<1>2. PICK r \in Nat : /\ calculate_pagemap_size(n + 1) = 8 * r
                       /\ n + 1 <= 64 * r
                       /\ 64 * r <= n + 1 + 63
  BY PageMapSize
<1>3. CASE n % 64 = 0
  <2>1. n = 64 * (n \div 64)
    BY <1>3
  <2>2. q = n \div 64 /\ r = (n \div 64) + 1
    BY <1>1, <1>2, <2>1
  <2> QED BY <1>1, <1>2, <1>3, <2>2
<1>4. CASE n % 64 # 0
  <2>1. q = r
    BY <1>1, <1>2, <1>4
  <2> QED BY <1>1, <1>2, <1>4, <2>1
<1> QED BY <1>3, <1>4

\* The approximation is right or one page short.
LEMMA ApproximationBounds ==
  ASSUME NEW b \in Nat, b >= 56
  PROVE  /\ Approximation(b) \in Nat
         /\ 16641 * Approximation(b) <= 8 * (b - 56)
         /\ 8 * (b - 56) < 16641 * (Approximation(b) + 1)
<1> DEFINE x == 8 * (b - 56)
<1>1. x \in Nat
  OBVIOUS
<1>2. Approximation(b) = x \div 16641
  BY DEF Approximation, HeapMetadata, BitvectorBytes, P_ALLOC_SIZE, PAGESIZE, PageMetadata
<1>3. x \div 16641 \in Nat /\ 16641 * (x \div 16641) <= x /\ x < 16641 * ((x \div 16641) + 1)
  <2> HIDE DEF x
  <2> QED BY <1>1
<1> QED BY <1>2, <1>3

\* What calculate_no_pages returns fits, and a page more does not.
THEOREM NoPagesExact ==
  ASSUME NEW b \in Nat, b >= 56
  PROVE  /\ calculate_no_pages(b) \in Nat
         /\ AllocSize(calculate_no_pages(b)) <= b
         /\ b < AllocSize(calculate_no_pages(b) + 1)
<1> DEFINE a == Approximation(b)
           pm(n) == calculate_pagemap_size(n)
<1>1. /\ a \in Nat
      /\ 16641 * a <= 8 * (b - 56)
      /\ 8 * (b - 56) < 16641 * (a + 1)
  BY ApproximationBounds
<1>2. PICK q \in Nat : pm(a) = 8 * q /\ a <= 64 * q /\ 64 * q <= a + 63
  BY <1>1, PageMapSize
<1>3. pm(a + 1) = pm(a) + (IF a % 64 = 0 THEN 8 ELSE 0)
  BY <1>1, PageMapGrowth
<1>4. PICK s \in Nat : pm(a + 2) = 8 * s /\ a + 2 <= 64 * s
  BY <1>1, PageMapSize, a + 2 \in Nat
<1> HIDE DEF a, pm
<1>5. /\ AllocSize(a) = 48 + pm(a) + 2080 * a
      /\ AllocSize(a + 1) = 48 + pm(a + 1) + 2080 * (a + 1)
      /\ AllocSize(a + 2) = 48 + pm(a + 2) + 2080 * (a + 2)
  BY <1>1 DEF AllocSize, HeapMetadata, P_ALLOC_SIZE, PAGESIZE, PageMetadata, pm
<1>6. ExtraSpace(b, a) = b - 48 - 2080 * a - pm(a)
  BY DEF ExtraSpace, HeapMetadata, P_ALLOC_SIZE, PAGESIZE, PageMetadata, pm
<1>7. Increment(b, a) <=> \/ ExtraSpace(b, a) >= 2080 /\ a % 64 # 0
                          \/ ExtraSpace(b, a) = 2088 /\ a % 64 = 0
  BY DEF Increment, P_ALLOC_SIZE, PAGESIZE, PageMetadata, BITVECTOR_SIZE
<1>8. AllocSize(a) <= b /\ b < AllocSize(a + 2)
  BY <1>1, <1>2, <1>4, <1>5
<1>9. a % 64 = 0 => ExtraSpace(b, a) <= 2088
  <2> SUFFICES ASSUME a % 64 = 0 PROVE ExtraSpace(b, a) <= 2088
    OBVIOUS
  <2>1. a = 64 * (a \div 64)
    BY <1>1
  <2>2. q = a \div 64
    BY <1>1, <1>2, <2>1
  <2>3. a = 64 * q
    BY <2>1, <2>2
  <2> QED BY <1>1, <1>2, <1>6, <2>3
<1>10. CASE Increment(b, a)
  <2>1. calculate_no_pages(b) = a + 1
    BY <1>10 DEF calculate_no_pages, a
  <2>2. AllocSize(a + 1) <= b
    BY <1>1, <1>2, <1>3, <1>5, <1>6, <1>7, <1>10
  <2>3. (a + 1) + 1 = a + 2 /\ a + 1 \in Nat
    BY <1>1
  <2> QED BY <1>8, <2>1, <2>2, <2>3
<1>11. CASE ~Increment(b, a)
  <2>1. calculate_no_pages(b) = a
    BY <1>11 DEF calculate_no_pages, a
  <2>2. b < AllocSize(a + 1)
    BY <1>1, <1>2, <1>3, <1>5, <1>6, <1>7, <1>9, <1>11
  <2> QED BY <1>1, <1>8, <2>1, <2>2
<1> QED BY <1>10, <1>11

\* A heap of more pages is larger.
LEMMA AllocSizeMonotonic ==
  ASSUME NEW m \in Nat, NEW n \in Nat, m <= n
  PROVE  AllocSize(m) <= AllocSize(n)
<1>1. PICK q \in Nat : calculate_pagemap_size(m) = 8 * q /\ m <= 64 * q /\ 64 * q <= m + 63
  BY PageMapSize
<1>2. PICK r \in Nat : calculate_pagemap_size(n) = 8 * r /\ n <= 64 * r /\ 64 * r <= n + 63
  BY PageMapSize
<1>3. q <= r
  BY <1>1, <1>2
<1> QED
  BY <1>1, <1>2, <1>3 DEF AllocSize, HeapMetadata, P_ALLOC_SIZE, PAGESIZE, PageMetadata

\* In a heap of up to 38 bitvectors (2432 pages) the page map starts at a word of
\* the allocatable space of page 0: the word PMWord of module Pages.
THEOREM PageMapOnPageZero ==
  ASSUME NEW n \in Nat, 1 <= n, n <= 2432
  PROVE  \E word \in 0 .. 37 : PageMapAddress = FirstPage(n) + PageMetadata + 8 * word
<1>1. PICK q \in Nat : calculate_pagemap_size(n) = 8 * q /\ n <= 64 * q /\ 64 * q <= n + 63
  BY PageMapSize
<1>2. 38 - q \in 0 .. 37
  BY <1>1
<1>3. PageMapAddress = FirstPage(n) + PageMetadata + 8 * (38 - q)
  BY <1>1 DEF PageMapAddress, FirstPage, HeapMetadata, BitvectorBytes, PageMetadata
<1> QED BY <1>2, <1>3
-----------------------------------------------------------------------------
\* What h_init accepts: a legal threshold, and room for two pages.
LEMMA AcceptsExactly ==
  ASSUME NEW b \in Nat, NEW threshold \in Int
  PROVE  Accepts(b, threshold) <=> threshold \in 0 .. 2 /\ b >= AllocSize(2)
<1> DEFINE n == calculate_no_pages(b)
<1>1. AllocSize(2) = 4216
  BY DEF AllocSize, calculate_pagemap_size, BITVECTOR_SIZE, BitvectorBytes, HeapMetadata,
         P_ALLOC_SIZE, PAGESIZE, PageMetadata
<1>2. CASE b < 56
  BY <1>1, <1>2 DEF Accepts, HeapMetadata, BitvectorBytes
<1>3. CASE b >= 56
  <2>1. n \in Nat /\ AllocSize(n) <= b /\ b < AllocSize(n + 1)
    BY <1>3, NoPagesExact
  <2> HIDE DEF n
  <2>2. PICK q \in Nat : calculate_pagemap_size(n) = 8 * q /\ n <= 64 * q
    BY <2>1, PageMapSize
  <2>3. /\ AllocSize(n) = 48 + 8 * q + 2080 * n
        /\ MinHeapSize(n) = 4160 + 48 + 8 * q
    BY <2>1, <2>2
    DEF AllocSize, MinHeapSize, HeapMetadata, P_ALLOC_SIZE, PAGESIZE, PageMetadata
  <2>4. Accepts(b, threshold) <=>
          /\ threshold \in 0 .. 2
          /\ b >= MinHeapSize(n)
          /\ AllocSize(n) \in MinHeapSize(n) .. b
    BY <1>3 DEF Accepts, HeapMetadata, BitvectorBytes, n
  <2>5. b >= AllocSize(2) <=> n >= 2
    <3>1. n >= 2 => AllocSize(2) <= AllocSize(n)
      BY <2>1, AllocSizeMonotonic
    <3>2. n < 2 => AllocSize(n + 1) <= AllocSize(2)
      BY <2>1, n + 1 \in Nat, AllocSizeMonotonic
    <3>3. n + 1 \in Nat /\ AllocSize(n) \in Nat /\ AllocSize(n + 1) \in Nat
      <4>1. PICK r \in Nat : calculate_pagemap_size(n + 1) = 8 * r
        BY <2>1, n + 1 \in Nat, PageMapSize
      <4> QED
        BY <2>1, <2>2, <4>1 DEF AllocSize, HeapMetadata, P_ALLOC_SIZE, PAGESIZE, PageMetadata
    <3> QED BY <1>1, <2>1, <3>1, <3>2, <3>3
  <2>6. n >= 2 <=> AllocSize(n) >= MinHeapSize(n)
    BY <2>1, <2>2, <2>3
  <2>7. AllocSize(n) \in Int /\ MinHeapSize(n) \in Int
    BY <2>1, <2>2, <2>3
  <2> QED BY <2>1, <2>4, <2>5, <2>6, <2>7
<1> QED BY <1>2, <1>3

\* For every request, the heap that h_init makes has the most pages that fit,
\* and a legal call stops only if two do not.
THEOREM Exact == Spec => [](HeapExact /\ StopsOnlyWhenTooSmall)
<1> DEFINE Inv == HeapExact /\ StopsOnlyWhenTooSmall
<1>1. Init => Inv
  BY DEF Init, HeapExact, StopsOnlyWhenTooSmall
<1>2. ASSUME Inv, [Next]_vars PROVE Inv'
  <2>1. ASSUME NEW b \in Requests, NEW threshold \in Thresholds, InitStops(b, threshold)
        PROVE  Inv'
    <3>1. b \in Nat /\ threshold \in Int
      BY RequestsAssumption, ThresholdsAssumption
    <3>2. threshold \notin 0 .. 2 \/ ~(b >= AllocSize(2))
      BY <2>1, <3>1, AcceptsExactly DEF InitStops
    <3>3. AllocSize(2) \in Int
      BY DEF AllocSize, calculate_pagemap_size, BITVECTOR_SIZE, BitvectorBytes, HeapMetadata,
             P_ALLOC_SIZE, PAGESIZE, PageMetadata
    <3>4. threshold \notin 0 .. 2 \/ b < AllocSize(2)
      BY <3>1, <3>2, <3>3
    <3> QED BY <2>1, <3>4 DEF InitStops, HeapExact, StopsOnlyWhenTooSmall
  <2>2. ASSUME NEW b \in Requests, NEW threshold \in Thresholds, HInit(b, threshold)
        PROVE  Inv'
    <3> DEFINE n == calculate_no_pages(b)
    <3>1. b \in Nat /\ threshold \in Int
      BY RequestsAssumption, ThresholdsAssumption
    <3>2. b >= 56 /\ b >= AllocSize(2)
      BY <2>2, <3>1, AcceptsExactly DEF HInit, Accepts, HeapMetadata, BitvectorBytes
    <3>3. n \in Nat /\ AllocSize(n) <= b /\ b < AllocSize(n + 1)
      BY <3>1, <3>2, NoPagesExact
    <3>4. /\ heap'.no_pages = n /\ heap'.total_bytes = AllocSize(n)
          /\ status' = "heap" /\ asked'.bytes = b
      BY <2>2 DEF HInit
    <3> HIDE DEF n
    <3>5. n >= 2
      <4>1. n < 2 => AllocSize(n + 1) <= AllocSize(2)
        BY <3>3, n + 1 \in Nat, AllocSizeMonotonic
      <4>2. AllocSize(2) \in Int
        BY DEF AllocSize, calculate_pagemap_size, BITVECTOR_SIZE, BitvectorBytes, HeapMetadata,
               P_ALLOC_SIZE, PAGESIZE, PageMetadata
      <4>3. AllocSize(n + 1) \in Int
        <5>1. PICK r \in Nat : calculate_pagemap_size(n + 1) = 8 * r
          BY <3>3, n + 1 \in Nat, PageMapSize
        <5> QED BY <3>3, <5>1 DEF AllocSize, HeapMetadata, P_ALLOC_SIZE, PAGESIZE, PageMetadata
      <4> QED BY <3>1, <3>2, <3>3, <4>1, <4>2, <4>3
    <3>6. AllocSize(n) \in Int /\ AllocSize(n + 1) \in Int
      <4>1. PICK q \in Nat : calculate_pagemap_size(n) = 8 * q
        BY <3>3, PageMapSize
      <4>2. PICK r \in Nat : calculate_pagemap_size(n + 1) = 8 * r
        BY <3>3, n + 1 \in Nat, PageMapSize
      <4> QED
        BY <3>3, <4>1, <4>2 DEF AllocSize, HeapMetadata, P_ALLOC_SIZE, PAGESIZE, PageMetadata
    <3> QED BY <3>1, <3>3, <3>4, <3>5, <3>6 DEF HeapExact, StopsOnlyWhenTooSmall
  <2>3. CASE HDelete
    BY <2>3 DEF HDelete, HeapExact, StopsOnlyWhenTooSmall
  <2>4. CASE UNCHANGED vars
    BY <1>2, <2>4 DEF vars, HeapExact, StopsOnlyWhenTooSmall
  <2> QED BY <1>2, <2>1, <2>2, <2>3, <2>4 DEF Next
<1> QED BY <1>1, <1>2, PTL DEF Spec

\* A request that h_init refuses is too small for two pages with their metadata:
\* its correction of the approximation loses no page at the boundary.
COROLLARY OnlyTooSmallRefused == Spec => []StopsOnlyWhenTooSmall
  BY Exact, PTL
-----------------------------------------------------------------------------
\* initialise_pagemap_to_zeroes clears the metadata of no page but page 0: the
\* page map ends 376 bytes at most after the room reserved for it.
LEMMA ZeroedExactly ==
  ASSUME NEW n \in Nat, NEW h, NEW p \in 0 .. (n - 1),
         h.no_pages = n, h.first_page = FirstPage(n), h.pagemap = PageMapAddress
  PROVE  /\ PageAddress(h, p) \in Nat
         /\ Zeroed(h, PageAddress(h, p)) <=> p = 0 /\ n >= PagesUnderMap
<1>1. PICK q \in Nat : /\ calculate_pagemap_size(n) = 8 * q
                       /\ n <= 64 * q
                       /\ 64 * q <= n + 63
  BY PageMapSize
<1>2. PICK k \in Nat : n \div 64 = k /\ 64 * k <= n /\ n <= 64 * k + 63
  BY n \div 64 \in Nat /\ 64 * (n \div 64) <= n /\ n <= 64 * (n \div 64) + 63
<1>3. PageAddress(h, p) = 48 + 8 * q + 2080 * p
  BY <1>1 DEF PageAddress, FirstPage, HeapMetadata, P_ALLOC_SIZE, PAGESIZE, PageMetadata
<1>4. Zeroed(h, PageAddress(h, p)) <=>
        /\ 48 + 8 * q + 2080 * p >= 384
        /\ 48 + 8 * q + 2080 * p + 8 <= 384 + 8 * k
  BY <1>2, <1>3 DEF Zeroed, PageMapAddress, HeapMetadata, BitvectorBytes, BITVECTOR_SIZE
<1>5. k <= q /\ q <= k + 1
  BY <1>1, <1>2
<1>6. CASE p = 0
  <2>1. q >= 42 <=> n >= 2625
    BY <1>1
  <2>2. Zeroed(h, PageAddress(h, p)) <=> q >= 42
    BY <1>4, <1>5, <1>6
  <2> QED BY <1>3, <1>6, <2>1, <2>2 DEF PagesUnderMap
<1>7. CASE p >= 1
  BY <1>3, <1>4, <1>5, <1>7
<1> QED BY <1>6, <1>7

\* After h_init every page starts out empty, but page 0 of the heaps of 2625 pages
\* or more, whose bump pointer is always lost.
THEOREM Accessible == Spec => []PagesAccessible
<1>1. Init => PagesAccessible
  BY DEF Init, PagesAccessible
<1>2. ASSUME PagesAccessible, [Next]_vars PROVE PagesAccessible'
  <2>1. ASSUME NEW b \in Requests, NEW threshold \in Thresholds, HInit(b, threshold)
        PROVE  PagesAccessible'
    <3> DEFINE n == calculate_no_pages(b)
               h == [no_pages |-> n, total_bytes |-> AllocSize(n),
                     first_page |-> FirstPage(n), pagemap |-> PageMapAddress]
    <3>1. n \in Nat
      <4>1. b \in Nat /\ threshold \in Int
        BY RequestsAssumption, ThresholdsAssumption
      <4>2. b >= 56
        BY <2>1, <4>1 DEF HInit, Accepts, HeapMetadata, BitvectorBytes
      <4> QED BY <4>1, <4>2, NoPagesExact
    <3>2. /\ heap' = h
          /\ next_free' = [p \in 0 .. (n - 1) |->
               IF Zeroed(h, PageAddress(h, p)) THEN 0 ELSE PageAddress(h, p) + PageMetadata]
      BY <2>1 DEF HInit
    <3>3. h.no_pages = n /\ h.first_page = FirstPage(n) /\ h.pagemap = PageMapAddress
      OBVIOUS
    <3> HIDE DEF n, h
    <3>4. ASSUME NEW p \in 0 .. (n - 1)
          PROVE  next_free'[p] = PageAddress(h, p) + PageMetadata
                   <=> p # 0 \/ n < PagesUnderMap
      <4>1. /\ PageAddress(h, p) \in Nat
            /\ Zeroed(h, PageAddress(h, p)) <=> p = 0 /\ n >= PagesUnderMap
        BY <3>1, <3>3, ZeroedExactly
      <4>2. next_free'[p] =
              IF Zeroed(h, PageAddress(h, p)) THEN 0 ELSE PageAddress(h, p) + PageMetadata
        BY <3>2
      <4> QED BY <3>1, <4>1, <4>2 DEF PageMetadata, PagesUnderMap
    <3> QED BY <3>2, <3>3, <3>4 DEF PagesAccessible, PageAddress
  <2>2. CASE \/ HDelete
             \/ \E b \in Requests, threshold \in Thresholds : InitStops(b, threshold)
    BY <2>2 DEF HDelete, InitStops, PagesAccessible
  <2>3. CASE UNCHANGED vars
    BY <1>2, <2>3 DEF vars, PagesAccessible, PageAddress
  <2> QED BY <1>2, <2>1, <2>2, <2>3 DEF Next
<1> QED BY <1>1, <1>2, PTL DEF Spec
=============================================================================
