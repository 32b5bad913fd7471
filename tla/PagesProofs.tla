---------------------------- MODULE PagesProofs ----------------------------
(***************************************************************************)
(* Proofs about Pages, for every number and size of pages, every position  *)
(* of the page map, every set of object sizes and every threshold.         *)
(*                                                                         *)
(* As long as no foreign store has hit the page map, the pages keep the    *)
(* inductive invariant IInv: the objects lie apart below the bump          *)
(* pointers, the bump pointers lie on their pages, what the trace has      *)
(* reached is on a page that the sweep will not empty, and between         *)
(* collections the passive pages are empty.  Neither the absence of        *)
(* overruns nor the survival of reached objects is inductive alone: the    *)
(* first needs the passive pages to be empty when one is activated, which  *)
(* the sweep only guarantees because objects lie below the bump pointers.  *)
(***************************************************************************)
EXTENDS Pages, TLAPS

\* What holds of the pages while the page map is intact.
MapInv ==
  /\ \A o \in objs : o.at > 0 /\ o.at + o.words <= bump[o.page]
  /\ \A o, q \in objs :
       o # q /\ o.page = q.page => Before(o, q) \/ Before(q, o)
  /\ \A p \in PageIds : bump[p] <= PageWords
  /\ \A p \in PageIds : bump[p] = 0 => amap[p] = {}
  /\ pc \in {"client", "place"} => \A p \in Passive : bump[p] = 0
  /\ pc # "overrun"
  /\ kept \subseteq objs
  /\ pc = "trace" => \A o \in kept : o.page \notin active \/ unsafe[o.page]

IInv ==
  /\ TypeOK
  /\ pc = "place" => req \in Sizes
  /\ intact => MapInv

-----------------------------------------------------------------------------
(* Type correctness.                                                       *)

USE NumPagesAssumption, PageWordsAssumption, PMWordAssumption,
    BitvectorAssumption, SizesAssumption, MisreadAssumption

\* Every page has a bit in the page map.
LEMMA PagesHaveBits == PageIds \subseteq MapBits
  <1>1. /\ NumPages + BitvectorSize - 1 \in Nat /\ BitvectorSize \in Nat \ {0}
    OBVIOUS
  <1>2. (NumPages + BitvectorSize - 1) - ((NumPages + BitvectorSize - 1) % BitvectorSize)
          = BitvectorSize * MapLength
    BY <1>1 DEF MapLength
  <1>3. (NumPages + BitvectorSize - 1) % BitvectorSize \in 0 .. (BitvectorSize - 1)
    BY <1>1
  <1>4. MapLength \in Int
    BY <1>1 DEF MapLength
  <1>5. MapLength * BitvectorSize = BitvectorSize * MapLength /\ MapLength * BitvectorSize \in Int
    BY <1>4
  <1>6. NumPages <= MapLength * BitvectorSize
    BY <1>2, <1>3, <1>5
  <1>. QED
    BY <1>5, <1>6 DEF PageIds, MapBits

\* The page map after a store has no bits that it does not have room for.
LEMMA MapsType ==
  ASSUME NEW m \in SUBSET MapBits, NEW p, NEW lo, NEW hi,
         NEW x \in DataMaps(m, p, lo, hi)
  PROVE  x \in SUBSET MapBits
  BY DEF DataMaps, HitBits

\* A store elsewhere leaves it as it was.
LEMMA MapsSame ==
  ASSUME NEW m, NEW p, NEW lo, NEW hi, ~HitsMap(p, lo, hi),
         NEW x \in DataMaps(m, p, lo, hi)
  PROVE  x = m
  BY DEF DataMaps, HitsMap

\* A copy writes its header and payload, and the forwarding address behind it.
LEMMA CopyMaps ==
  ASSUME active \subseteq MapBits, NEW p, NEW b \in Nat, NEW n \in Nat, NEW q, NEW w,
         NEW y,
         \E h \in CopiedMaps(active, p, b) : \E d \in DataMaps(h, p, b + 1, b + n) :
           y \in ForwardMaps(d, q, w)
  PROVE  /\ y \subseteq MapBits
         /\ ~HitsMap(p, b, b + n) /\ ~HitsMap(q, w, w) => y = active
  <1>1. PICK h \in CopiedMaps(active, p, b) : \E d \in DataMaps(h, p, b + 1, b + n) :
          y \in ForwardMaps(d, q, w)
    OBVIOUS
  <1>2. PICK d \in DataMaps(h, p, b + 1, b + n) : y \in ForwardMaps(d, q, w)
    BY <1>1
  <1>3. h \in DataMaps(active, p, b, b) /\ y \in DataMaps(d, q, w, w)
    BY <1>2 DEF CopiedMaps, ForwardMaps
  <1>4. h \subseteq MapBits
    BY <1>3, MapsType
  <1>5. d \subseteq MapBits
    BY <1>4, MapsType
  <1>6. y \subseteq MapBits
    BY <1>3, <1>5, MapsType
  <1>7. ASSUME ~HitsMap(p, b, b + n), ~HitsMap(q, w, w)
        PROVE  y = active
    <2>1. ~HitsMap(p, b, b) /\ ~HitsMap(p, b + 1, b + n)
      BY <1>7 DEF HitsMap, HitBits
    <2>2. h = active
      BY <1>3, <2>1, MapsSame
    <2>3. d = h
      BY <2>1, MapsSame
    <2>4. y = d
      BY <1>3, <1>7, MapsSame
    <2>. QED
      BY <2>2, <2>3, <2>4
  <1>. QED
    BY <1>6, <1>7

\* allocate keeps the types.
LEMMA PlaceType ==
  ASSUME TypeOK, NEW p \in PageIds, NEW n \in Sizes, NEW m \in SUBSET MapBits,
         NEW ok \in BOOLEAN, ok => m \subseteq PageIds, Place(p, n, m, ok)
  PROVE  TypeOK'
  <1>1. n \in Nat /\ bump[p] \in Nat
    BY DEF TypeOK
  <1>2. active' \in DataMaps(m, p, bump[p], bump[p])
    BY DEF Place, HeaderMaps, CopiedMaps
  <1>3. active' \subseteq MapBits
    BY <1>2, MapsType
  <1>4. intact' => active' \subseteq PageIds
    BY <1>2, MapsSame DEF Place
  <1>5. BumpAfter(bump[p], n) \in Nat /\ Block(bump[p] + 1) \in Nat
    BY <1>1 DEF BumpAfter, Block
  <1>6. bump' \in [PageIds -> Nat] /\ amap' \in [PageIds -> SUBSET Nat]
    BY <1>5 DEF TypeOK, Place
  <1>7. objs' \subseteq ObjectType
    BY <1>1 DEF TypeOK, Place, ObjectType
  <1>8. pc' \in PCs /\ req' \in Sizes \cup {0} /\ intact' \in BOOLEAN
    BY DEF Place, PCs
  <1>. QED
    BY <1>3, <1>4, <1>6, <1>7, <1>8 DEF TypeOK, Place

\* An activation keeps the types.
LEMMA ActivateType ==
  ASSUME TypeOK, NEW n \in Sizes, ActivateAndPlace(n)
  PROVE  TypeOK'
  <1>1. PICK p \in PageIds :
          Place(p, n, (active \ HitBits(p, 0, PageWords - 1)) \cup {p},
                intact /\ active \cap HitBits(p, 0, PageWords - 1) = {})
    BY DEF ActivateAndPlace
  <1> DEFINE m == (active \ HitBits(p, 0, PageWords - 1)) \cup {p}
             ok == intact /\ active \cap HitBits(p, 0, PageWords - 1) = {}
  <1>2. m \in SUBSET MapBits /\ (ok => m \subseteq PageIds)
    BY PagesHaveBits DEF TypeOK
  <1>3. ok \in BOOLEAN
    BY DEF TypeOK
  <1>4. Place(p, n, m, ok)
    BY <1>1
  <1>. HIDE DEF m, ok
  <1>. QED
    BY <1>2, <1>3, <1>4, PlaceType

\* A step of the program keeps the types.
LEMMA TypeStep ==
  ASSUME TypeOK, pc = "place" => req \in Sizes, [Next]_vars
  PROVE  TypeOK' /\ (pc' = "place" => req' \in Sizes)
  <1>1. ASSUME NEW n \in Sizes, AllocInActivePage(n)
        PROVE  TypeOK' /\ pc' # "place"
    <2>1. PICK p \in PageIds : Place(p, n, active, intact)
      BY <1>1 DEF AllocInActivePage
    <2>2. active \in SUBSET MapBits /\ intact \in BOOLEAN /\ (intact => active \subseteq PageIds)
      BY DEF TypeOK
    <2>. QED
      BY <2>1, <2>2, PlaceType DEF Place
  <1>2. ASSUME NEW n \in Sizes, ActivateAndPlace(n)
        PROVE  TypeOK' /\ pc' # "place"
    <2>1. pc' # "place"
      BY <1>2 DEF ActivateAndPlace, Place
    <2>. QED
      BY <1>2, <2>1, ActivateType
  <1>3. ASSUME NEW n \in Sizes \cup {0}, StartTrace(n)
        PROVE  TypeOK' /\ pc' # "place"
    BY <1>3 DEF StartTrace, TypeOK, PCs
  <1>4. ASSUME Stop
        PROVE  TypeOK' /\ pc' # "place"
    BY <1>4 DEF Stop, TypeOK, PCs
  <1>5. ASSUME ClientStore
        PROVE  TypeOK' /\ pc' # "place"
    <2>1. active' \subseteq MapBits
      BY <1>5, MapsType DEF ClientStore, TypeOK
    <2>. QED
      BY <1>5, <2>1 DEF ClientStore, TypeOK
  <1>6. ASSUME NEW o \in objs, Pin(o)
        PROVE  TypeOK' /\ pc' # "place"
    BY <1>6 DEF Pin, TypeOK
  <1>7. ASSUME NEW o \in objs, NEW n \in {o.words} \cup MisreadSizes, Copy(o, n)
        PROVE  TypeOK' /\ pc' # "place"
    <2>1. o \in ObjectType /\ n \in Nat
      BY DEF TypeOK, ObjectType
    <2>2. PICK p \in PageIds :
            LET new == [page |-> p, at |-> bump[p] + 1, words |-> n] IN
            /\ bump' = [bump EXCEPT ![p] = BumpAfter(@, n)]
            /\ amap' = Moved(o, new)
            /\ objs' = (objs \ {o}) \cup {new}
            /\ kept' = (kept \ {o}) \cup {new}
            /\ unsafe' = MovedFlags(o, new)
            /\ \E h \in CopiedMaps(active, p, bump[p]) :
               \E d \in DataMaps(h, p, bump[p] + 1, bump[p] + n) :
                 active' \in ForwardMaps(d, o.page, o.at - 1)
            /\ intact' = (intact /\ ~(\/ HitsMap(p, bump[p], bump[p] + n)
                                      \/ HitsMap(o.page, o.at - 1, o.at - 1)
                                      \/ IsFlag(o.at) \/ IsFlag(new.at)))
      BY <1>7 DEF Copy
    <2> DEFINE new == [page |-> p, at |-> bump[p] + 1, words |-> n]
    <2>3. new \in ObjectType
      BY <2>1 DEF TypeOK, ObjectType
    <2>4. BumpAfter(bump[p], n) \in Nat /\ Marks(new.at) \subseteq Nat
      BY <2>1 DEF TypeOK, BumpAfter, Marks, Block
    <2>5. amap' \in [PageIds -> SUBSET Nat]
      BY <2>1, <2>2, <2>4 DEF TypeOK, Moved, ObjectType
    <2>6. bump' \in [PageIds -> Nat]
      BY <2>2, <2>4 DEF TypeOK
    <2>7. objs' \subseteq ObjectType /\ kept' \subseteq ObjectType
      BY <2>2, <2>3 DEF TypeOK
    <2>8. unsafe' \in [PageIds -> BOOLEAN]
      BY <2>2 DEF MovedFlags, TypeOK
    <2>9. active' \subseteq MapBits /\ (intact' => active' = active)
      BY <2>1, <2>2, CopyMaps DEF TypeOK, ObjectType
    <2>10. intact' \in BOOLEAN /\ (intact' => active' \subseteq PageIds)
      BY <2>2, <2>9 DEF TypeOK
    <2>. QED
      BY <1>7, <2>2, <2>5, <2>6, <2>7, <2>8, <2>9, <2>10 DEF TypeOK, Copy
  <1>8. ASSUME HDelete
        PROVE  TypeOK' /\ pc' # "place"
    BY <1>8 DEF HDelete, TypeOK, PCs
  <1>9. ASSUME Sweep
        PROVE  TypeOK' /\ (pc' = "place" => req' \in Sizes)
    <2>1. active' \subseteq MapBits /\ (intact => active' \subseteq PageIds)
      BY <1>9, PagesHaveBits DEF Sweep, TypeOK, SweptActive, Passive
    <2>. QED
      BY <1>9, <2>1 DEF Sweep, TypeOK, Freed, SweptBump, PCs
  <1>10. CASE UNCHANGED vars
    BY <1>10 DEF vars, TypeOK
  <1>. QED
    BY <1>1, <1>2, <1>3, <1>4, <1>5, <1>6, <1>7, <1>8, <1>9, <1>10
       DEF Next, AllocInNewPage, AllocCollects, AllocStops, FinishAlloc,
           FinishStops, HGc, CopyFails, TraceStops

\* The variables of Pages keep their types.
THEOREM TypeCorrect == Spec => []TypeOK
  <1>1. Init => TypeOK /\ (pc = "place" => req \in Sizes)
    BY DEF Init, TypeOK, PCs
  <1>2. TypeOK /\ (pc = "place" => req \in Sizes) /\ [Next]_vars
          => (TypeOK /\ (pc = "place" => req \in Sizes))'
    BY TypeStep
  <1>. QED
    BY <1>1, <1>2, PTL DEF Spec
-----------------------------------------------------------------------------
(* The pages while the page map is intact.                                 *)

\* allocate keeps MapInv on a page with the room, when the pages that it leaves
\* active were active before or are this page.
LEMMA PlaceInv ==
  ASSUME TypeOK, MapInv, pc \in {"client", "place"},
         NEW p \in PageIds, NEW n \in Sizes, NEW m, NEW ok \in BOOLEAN,
         active \subseteq m, p \in m, BumpAfter(bump[p], n) <= PageWords,
         Place(p, n, m, ok), intact'
  PROVE  MapInv'
  <1> DEFINE new == [page |-> p, at |-> bump[p] + 1, words |-> n]
  <1>1. /\ n \in Nat /\ n > 0 /\ bump[p] \in Nat
        /\ \A q \in PageIds : bump[q] \in Nat
        /\ \A o \in objs : o.page \in PageIds /\ o.at \in Nat /\ o.words \in Nat
    BY DEF TypeOK, ObjectType
  <1>0. active' \in DataMaps(m, p, bump[p], bump[p]) /\ ~HitsMap(p, bump[p], bump[p])
    BY DEF Place, HeaderMaps, CopiedMaps
  <1>2. /\ active' = m
        /\ objs' = objs \cup {new}
        /\ \A q \in PageIds : bump'[q] = IF q = p THEN bump[p] + n + 1 ELSE bump[q]
        /\ \A q \in PageIds : q # p => amap'[q] = amap[q]
        /\ pc' = "client"
        /\ kept' = kept
    BY <1>0, MapsSame DEF Place, TypeOK, BumpAfter
  <1>3. \A o \in objs : o.page = p => Before(o, new)
    BY <1>1 DEF MapInv, Before
  <1>4. \A o \in objs' : o.at > 0 /\ o.at + o.words <= bump'[o.page]
    BY <1>1, <1>2 DEF MapInv
  <1>5. \A o, q \in objs' :
          o # q /\ o.page = q.page => Before(o, q) \/ Before(q, o)
    BY <1>2, <1>3 DEF MapInv
  <1>6. \A q \in PageIds : bump'[q] <= PageWords
    BY <1>1, <1>2 DEF MapInv, BumpAfter
  <1>7. \A q \in PageIds : bump'[q] = 0 => amap'[q] = {}
    BY <1>1, <1>2 DEF MapInv
  <1>8. \A q \in Passive' : bump'[q] = 0
    BY <1>2 DEF MapInv, Passive
  <1>9. kept' \subseteq objs'
    BY <1>2 DEF MapInv
  <1>. QED
    BY <1>2, <1>4, <1>5, <1>6, <1>7, <1>8, <1>9 DEF MapInv, Before

\* So does an activation: the page is empty.
LEMMA ActivateInv ==
  ASSUME TypeOK, intact => MapInv, pc \in {"client", "place"}, NEW n \in Sizes,
         ActivateAndPlace(n), intact'
  PROVE  MapInv'
  <1>1. PICK p \in Passive :
          Place(p, n, (active \ HitBits(p, 0, PageWords - 1)) \cup {p},
                intact /\ active \cap HitBits(p, 0, PageWords - 1) = {})
    BY DEF ActivateAndPlace, IsFirst
  <1> DEFINE m == (active \ HitBits(p, 0, PageWords - 1)) \cup {p}
             ok == intact /\ active \cap HitBits(p, 0, PageWords - 1) = {}
  <1>2. intact /\ active \cap HitBits(p, 0, PageWords - 1) = {}
    BY <1>1 DEF Place
  <1>3. bump[p] = 0 /\ p \in PageIds
    BY <1>1, <1>2 DEF MapInv, Passive
  <1>4. BumpAfter(bump[p], n) <= PageWords
    BY <1>3 DEF BumpAfter
  <1>5. MapInv /\ active \subseteq m /\ p \in m /\ ok \in BOOLEAN
    BY <1>2
  <1>6. Place(p, n, m, ok)
    BY <1>1
  <1>. HIDE DEF m, ok
  <1>. QED
    BY <1>3, <1>4, <1>5, <1>6, PlaceInv

\* And the copying of an object.
LEMMA CopyInv ==
  ASSUME TypeOK, MapInv, NEW o \in objs, NEW n \in Nat, Copy(o, n), intact'
  PROVE  MapInv'
  <1>1. PICK p \in PageIds :
          LET new == [page |-> p, at |-> bump[p] + 1, words |-> n] IN
          /\ p \in WithRoom(Passive, n)
          /\ bump' = [bump EXCEPT ![p] = BumpAfter(@, n)]
          /\ amap' = Moved(o, new)
          /\ objs' = (objs \ {o}) \cup {new}
          /\ kept' = (kept \ {o}) \cup {new}
          /\ unsafe' = MovedFlags(o, new)
          /\ \E h \in CopiedMaps(active, p, bump[p]) :
             \E d \in DataMaps(h, p, bump[p] + 1, bump[p] + n) :
               active' \in ForwardMaps(d, o.page, o.at - 1)
          /\ ~HitsMap(p, bump[p], bump[p] + n) /\ ~HitsMap(o.page, o.at - 1, o.at - 1)
          /\ ~IsFlag(o.at) /\ ~IsFlag(new.at)
    BY DEF Copy, IsFirst
  <1> DEFINE new == [page |-> p, at |-> bump[p] + 1, words |-> n]
  <1>2. /\ bump[p] \in Nat
        /\ \A q \in PageIds : bump[q] \in Nat
        /\ \A r \in objs : r.page \in PageIds /\ r.at \in Nat /\ r.words \in Nat
    BY DEF TypeOK, ObjectType
  <1>3. p \notin active /\ bump[p] + n + 1 <= PageWords
    BY <1>1, <1>2 DEF WithRoom, Passive, FreeSpace
  <1>0. active' = active /\ unsafe' = unsafe
    <2>1. active' = active
      BY <1>1, <1>2, CopyMaps DEF TypeOK
    <2>2. unsafe' = [q \in PageIds |-> unsafe[q]]
      BY <1>1, Zenon DEF MovedFlags, TypeOK
    <2>. QED
      BY <2>1, <2>2 DEF TypeOK
  <1>4. /\ \A q \in PageIds : bump'[q] = IF q = p THEN bump[p] + n + 1 ELSE bump[q]
        /\ objs' = (objs \ {o}) \cup {new}
        /\ kept' = (kept \ {o}) \cup {new}
        /\ pc = "trace" /\ pc' = "trace" /\ unsafe' = unsafe /\ active' = active
    BY <1>0, <1>1 DEF Copy, TypeOK, BumpAfter
  <1>5. \A r \in objs : r.page = p => Before(r, new)
    BY <1>2 DEF MapInv, Before
  <1>6. \A r \in objs' : r.at > 0 /\ r.at + r.words <= bump'[r.page]
    BY <1>2, <1>4 DEF MapInv
  <1>7. \A r, q \in objs' :
          r # q /\ r.page = q.page => Before(r, q) \/ Before(q, r)
    BY <1>4, <1>5 DEF MapInv
  <1>8. \A q \in PageIds : bump'[q] <= PageWords
    BY <1>3, <1>4 DEF MapInv
  <1>9. \A q \in PageIds : bump'[q] = 0 => amap'[q] = {}
    <2>1. \A q \in PageIds : q # p => amap'[q] \subseteq amap[q]
      BY <1>1 DEF Moved, TypeOK, Marks
    <2>. QED
      BY <1>2, <1>4, <2>1 DEF MapInv
  <1>10. kept' \subseteq objs'
    BY <1>4 DEF MapInv
  <1>11. \A r \in kept' : r.page \notin active' \/ unsafe'[r.page]
    BY <1>3, <1>4 DEF MapInv
  <1>. QED
    BY <1>4, <1>6, <1>7, <1>8, <1>9, <1>10, <1>11 DEF MapInv, Before

\* And the sweep: an empty bump pointer is left on no page with an object.
LEMMA SweepInv ==
  ASSUME TypeOK, MapInv, Sweep
  PROVE  MapInv'
  <1>1. /\ \A q \in PageIds : bump[q] \in Nat
        /\ \A r \in objs : r.page \in PageIds /\ r.at \in Nat /\ r.words \in Nat
        /\ \A r \in kept : r.page \in PageIds
    BY DEF TypeOK, ObjectType
  <1>2. /\ \A q \in PageIds : bump'[q] = IF q \in Freed THEN 0 ELSE bump[q]
        /\ \A q \in PageIds : amap'[q] = IF q \in Freed THEN {} ELSE amap[q]
        /\ objs' = {r \in objs : r.page \notin Freed}
        /\ active' = (active \ Freed) \cup {q \in Passive : bump[q] # 0}
        /\ kept' = kept
        /\ pc = "trace" /\ pc' \in {"client", "place"}
    BY DEF Sweep, SweptBump, SweptActive
  <1>3. \A r \in objs' : r.at > 0 /\ r.at + r.words <= bump'[r.page]
    BY <1>1, <1>2 DEF MapInv
  <1>4. \A r, q \in objs' :
          r # q /\ r.page = q.page => Before(r, q) \/ Before(q, r)
    BY <1>2 DEF MapInv
  <1>5. \A q \in PageIds : bump'[q] <= PageWords /\ (bump'[q] = 0 => amap'[q] = {})
    BY <1>1, <1>2 DEF MapInv
  <1>6. \A q \in Passive' : bump'[q] = 0
    BY <1>2 DEF Passive
  <1>7. kept' \subseteq objs'
    BY <1>1, <1>2 DEF MapInv, Freed
  <1>. QED
    BY <1>2, <1>3, <1>4, <1>5, <1>6, <1>7 DEF MapInv, Before

\* Once overwritten, the page map never counts as intact again.
LEMMA IntactBefore ==
  ASSUME [Next]_vars, intact'
  PROVE  intact
  <1>1. ASSUME NEW n, ActivateAndPlace(n)
        PROVE  intact
    BY <1>1 DEF ActivateAndPlace, Place
  <1>2. ASSUME NEW n, AllocInActivePage(n)
        PROVE  intact
    BY <1>2 DEF AllocInActivePage, Place
  <1>3. ASSUME NEW o, NEW n, Copy(o, n)
        PROVE  intact
    BY <1>3 DEF Copy
  <1>. QED
    BY <1>1, <1>2, <1>3
       DEF Next, AllocInNewPage, AllocCollects, AllocStops, FinishAlloc,
           FinishStops, ClientStore, HDelete, HGc, CopyFails, Pin, TraceStops, Sweep,
           Stop, StartTrace, vars

\* A step of the program keeps the invariant, while the page map is intact.
LEMMA MapStep ==
  ASSUME IInv, [Next]_vars, intact'
  PROVE  MapInv'
  <1>1. ASSUME intact, NEW n \in Sizes, AllocInActivePage(n)
        PROVE  MapInv'
    <2>1. PICK p \in PageIds :
            p \in WithRoom(active, n) /\ Place(p, n, active, intact)
      BY <1>1 DEF AllocInActivePage, IsFirst
    <2>2. BumpAfter(bump[p], n) <= PageWords /\ p \in active
      BY <2>1 DEF WithRoom, FreeSpace, BumpAfter, IInv, TypeOK
    <2>3. pc \in {"client", "place"} /\ intact \in BOOLEAN
      BY <1>1 DEF AllocInActivePage, IInv, TypeOK
    <2>. QED
      BY <1>1, <2>1, <2>2, <2>3, PlaceInv DEF IInv
  <1>2. ASSUME NEW n \in Sizes, pc \in {"client", "place"}, ActivateAndPlace(n)
        PROVE  MapInv'
    BY <1>2, ActivateInv DEF IInv
  <1>3. ASSUME intact, NEW n \in Sizes \cup {0}, StartTrace(n)
        PROVE  MapInv'
    BY <1>3 DEF StartTrace, IInv, MapInv, Before
  <1>4. ASSUME intact, Stop
        PROVE  MapInv'
    BY <1>4 DEF Stop, IInv, MapInv, Before
  <1>5. ASSUME intact, NEW o \in objs, Pin(o)
        PROVE  MapInv'
    <2>1. /\ \A r \in kept : unsafe[r.page] => unsafe'[r.page]
          /\ unsafe'[o.page]
          /\ kept' = kept \cup {o}
          /\ UNCHANGED <<active, bump, amap, pc, objs>>
      BY <1>5 DEF Pin, IInv, TypeOK, ObjectType
    <2>. QED
      BY <1>5, <2>1 DEF IInv, MapInv, Before, Pin, Passive
  <1>6. ASSUME intact, NEW o \in objs, NEW n \in {o.words} \cup MisreadSizes,
               Copy(o, n)
        PROVE  MapInv'
    <2>1. n \in Nat
      BY DEF IInv, TypeOK, ObjectType
    <2>. QED
      BY <1>6, <2>1, CopyInv DEF IInv
  <1>7. ASSUME intact, Sweep
        PROVE  MapInv'
    BY <1>7, SweepInv DEF IInv
  <1>8. ASSUME intact, HDelete
        PROVE  MapInv'
    BY <1>8 DEF HDelete, IInv, MapInv, Before
  <1>9. ASSUME intact, UNCHANGED vars
        PROVE  MapInv'
    BY <1>9 DEF vars, IInv, MapInv, Before, Passive
  <1>10. intact
    BY IntactBefore
  <1>. QED
    BY <1>1, <1>2, <1>3, <1>4, <1>5, <1>6, <1>7, <1>8, <1>9, <1>10
       DEF Next, AllocInNewPage, AllocCollects, AllocStops, FinishAlloc,
           FinishStops, ClientStore, HGc, CopyFails, TraceStops, IInv

\* IInv is an invariant.
LEMMA Inductive == Spec => []IInv
  <1>1. Init => IInv
    BY DEF Init, IInv, TypeOK, PCs, MapInv, Passive
  <1>2. IInv /\ [Next]_vars => IInv'
    BY TypeStep, MapStep DEF IInv
  <1>. QED
    BY <1>1, <1>2, PTL DEF Spec

\* As long as the page map is intact: objects lie apart, passive pages are empty
\* between collections, what a collection reached survives it, and no
\* allocation runs past its page.
THEOREM Safety ==
  Spec => [](ObjectsApart /\ PassivePagesClean /\ ReachedSurvive /\ NoOverrun)
  <1>1. IInv => ObjectsApart /\ PassivePagesClean /\ ReachedSurvive /\ NoOverrun
    <2>1. ASSUME IInv, intact, pc \in {"client", "place"}, NEW p \in Passive,
                 NEW o \in objs
          PROVE  o.page # p
      BY <2>1 DEF IInv, MapInv, TypeOK, ObjectType, Passive
    <2>. QED
      BY <2>1 DEF IInv, MapInv, ObjectsApart, PassivePagesClean, ReachedSurvive,
         NoOverrun, Passive
  <1>. QED
    BY <1>1, Inductive, PTL

\* A page that first_free_passive_page hands out holds nothing: p_reset of it
\* destroys no object.
COROLLARY PassiveAreClean == Spec => []PassivePagesClean
  BY Safety, PTL

\* No object that a trace has pinned or copied is lost by the sweep.
COROLLARY ReachedAreKept == Spec => []ReachedSurvive
  BY Safety, PTL

\* allocate never runs past the page it is given, for any sizes of objects and
\* pages, although it does not ask for the room.
COROLLARY PagesNotOverrun == Spec => []NoOverrun
  BY Safety, PTL
-----------------------------------------------------------------------------
(* The allocation maps, when no copy takes an object for one without       *)
(* payload.                                                                *)

MarksInv ==
  /\ \A o \in objs : o.words > 0
  /\ \A p \in PageIds : \A b :
       b \in amap[p] <=> \E o \in objs : o.page = p /\ b = Block(o.at)

\* Objects that lie apart and have a payload start in different blocks.
LEMMA BlocksApart ==
  ASSUME NEW a \in Nat, NEW w \in Nat \ {0}, NEW b \in Nat, a + w < b
  PROVE  Block(a) < Block(b)
  BY DEF Block

\* So that no two of them share a block.
LEMMA OneOwner ==
  ASSUME TypeOK, MapInv, \A o \in objs : o.words > 0,
         NEW o \in objs, NEW q \in objs, o.page = q.page, Block(o.at) = Block(q.at)
  PROVE  o = q
  <1>1. /\ o.at \in Nat /\ o.words \in Nat \ {0}
        /\ q.at \in Nat /\ q.words \in Nat \ {0}
    BY DEF TypeOK, ObjectType
  <1>2. Block(o.at) \in Nat /\ Block(q.at) \in Nat
    BY <1>1 DEF Block
  <1>3. ~Before(o, q)
    BY <1>1, <1>2, BlocksApart DEF Before
  <1>4. ~Before(q, o)
    BY <1>1, <1>2, BlocksApart DEF Before
  <1>. QED
    BY <1>3, <1>4 DEF MapInv

\* allocate marks the new object.
LEMMA PlaceMarks ==
  ASSUME TypeOK, MarksInv, NEW p \in PageIds, NEW n \in Sizes, NEW m, NEW ok,
         Place(p, n, m, ok)
  PROVE  MarksInv'
  <1> DEFINE new == [page |-> p, at |-> bump[p] + 1, words |-> n]
  <1>1. /\ objs' = objs \cup {new}
        /\ \A q \in PageIds :
             amap'[q] = IF q = p THEN amap[q] \cup {Block(new.at)} ELSE amap[q]
    BY DEF Place, TypeOK
  <1>2. new.words > 0 /\ new.page = p
    OBVIOUS
  <1>3. \A o \in objs' : o.words > 0
    BY <1>1, <1>2 DEF MarksInv
  <1>4. ASSUME NEW q \in PageIds, NEW b
        PROVE  b \in amap'[q] <=> \E o \in objs' : o.page = q /\ b = Block(o.at)
    <2>1. b \in amap[q] <=> \E o \in objs : o.page = q /\ b = Block(o.at)
      BY DEF MarksInv
    <2>2. b \in amap'[q] <=> b \in amap[q] \/ (q = p /\ b = Block(new.at))
      BY <1>1
    <2>. QED
      BY <1>1, <1>2, <2>1, <2>2
  <1>. QED
    BY <1>3, <1>4 DEF MarksInv

\* A copy moves the mark of the object, and of no other.
LEMMA CopyMarks ==
  ASSUME TypeOK, MapInv, MapInv', MarksInv, NEW o \in objs, NEW n \in Nat \ {0},
         Copy(o, n), intact'
  PROVE  MarksInv'
  <1>1. PICK p \in PageIds :
          LET new == [page |-> p, at |-> bump[p] + 1, words |-> n] IN
          /\ amap' = Moved(o, new)
          /\ objs' = (objs \ {o}) \cup {new}
          /\ intact' => ~IsFlag(new.at)
    BY DEF Copy
  <1> DEFINE new == [page |-> p, at |-> bump[p] + 1, words |-> n]
  <1>2. /\ o.page \in PageIds /\ new.page = p /\ new.words > 0
        /\ bump[p] \in Nat /\ o.at \in Nat /\ o.words \in Nat \ {0}
    BY DEF TypeOK, ObjectType, MarksInv
  <1>3. \A q \in PageIds : \A b :
          b \in amap'[q] <=>
            /\ b \in amap[q] \/ (q = p /\ b = Block(new.at))
            /\ ~(q = o.page /\ b = Block(o.at))
    <2>1. Marks(new.at) = {Block(new.at)}
      BY <1>1 DEF Marks
    <2>. QED
      BY <1>1, <1>2, <2>1 DEF Moved, TypeOK
  <1>4. \A r \in objs : r.page = o.page /\ Block(r.at) = Block(o.at) => r = o
    BY OneOwner DEF MarksInv
  <1>5. ~(p = o.page /\ Block(new.at) = Block(o.at))
    <2>1. SUFFICES ASSUME p = o.page
                   PROVE  Block(new.at) # Block(o.at)
      OBVIOUS
    <2>2. o.at + o.words < new.at
      BY <1>2, <2>1 DEF MapInv, TypeOK
    <2>3. Block(o.at) < Block(new.at) /\ Block(o.at) \in Nat
      BY <1>2, <2>2, BlocksApart DEF Block
    <2>. QED
      BY <2>3
  <1>6. \A r \in objs' : r.words > 0
    BY <1>1, <1>2 DEF MarksInv
  <1>7. o # new
    BY <1>5, <1>2
  <1>8. \A q \in PageIds : \A b :
          b \in amap'[q] <=> \E r \in objs' : r.page = q /\ b = Block(r.at)
    BY <1>1, <1>2, <1>3, <1>4, <1>5, <1>7 DEF MarksInv
  <1>. QED
    BY <1>6, <1>8 DEF MarksInv

\* The sweep clears the maps of the pages it frees.
LEMMA SweepMarks ==
  ASSUME TypeOK, MarksInv, Sweep
  PROVE  MarksInv'
  <1>1. /\ objs' = {o \in objs : o.page \notin Freed}
        /\ \A q \in PageIds : amap'[q] = IF q \in Freed THEN {} ELSE amap[q]
    BY DEF Sweep
  <1>. QED
    BY <1>1 DEF MarksInv

\* Every step that leaves the page map intact keeps the marks.
LEMMA MarksStep ==
  ASSUME 0 \notin MisreadSizes, IInv, IInv', MarksInv, [Next]_vars, intact'
  PROVE  MarksInv'
  <1>1. MapInv /\ MapInv' /\ TypeOK
    BY IntactBefore DEF IInv
  <1>2. ASSUME NEW n \in Sizes, AllocInActivePage(n)
        PROVE  MarksInv'
    BY <1>1, <1>2, PlaceMarks DEF AllocInActivePage
  <1>3. ASSUME NEW n \in Sizes, ActivateAndPlace(n)
        PROVE  MarksInv'
    BY <1>1, <1>3, PlaceMarks DEF ActivateAndPlace
  <1>4. ASSUME NEW o \in objs, NEW n \in {o.words} \cup MisreadSizes, Copy(o, n)
        PROVE  MarksInv'
    <2>1. n \in Nat \ {0}
      BY <1>1 DEF TypeOK, ObjectType, MarksInv
    <2>. QED
      BY <1>1, <1>4, <2>1, CopyMarks
  <1>5. ASSUME Sweep
        PROVE  MarksInv'
    BY <1>1, <1>5, SweepMarks
  <1>6. ASSUME UNCHANGED <<amap, objs>>
        PROVE  MarksInv'
    BY <1>6 DEF MarksInv
  <1>. QED
    BY <1>2, <1>3, <1>4, <1>5, <1>6
       DEF Next, AllocInNewPage, AllocCollects, AllocStops, FinishAlloc,
           FinishStops, ClientStore, HDelete, HGc, CopyFails, Pin, TraceStops, Stop,
           StartTrace, vars, IInv

\* The allocation map marks exactly the blocks of the objects, one for each,
\* as long as the page map is intact and no copy takes an object for one
\* without payload.
THEOREM MarksExact ==
  ASSUME 0 \notin MisreadSizes
  PROVE  Spec => [](MapMarksObjects /\ OneObjectPerBlock)
  <1>1. Init => (intact => MarksInv)
    BY DEF Init, MarksInv
  <1>2. IInv /\ IInv' /\ (intact => MarksInv) /\ [Next]_vars => (intact => MarksInv)'
    BY MarksStep, IntactBefore
  <1>3. IInv /\ (intact => MarksInv) => MapMarksObjects /\ OneObjectPerBlock
    <2>1. ASSUME IInv, intact, MarksInv, NEW p \in PageIds
          PROVE  amap[p] = {Block(o.at) : o \in {q \in objs : q.page = p}}
      BY <2>1 DEF MarksInv
    <2>2. ASSUME IInv, intact, MarksInv, NEW o \in objs, NEW q \in objs,
                 o.page = q.page, Block(o.at) = Block(q.at)
          PROVE  o = q
      BY <2>2, OneOwner DEF IInv, MarksInv
    <2>. QED
      BY <2>1, <2>2 DEF MapMarksObjects, OneObjectPerBlock
  <1>. QED
    BY <1>1, <1>2, <1>3, Inductive, PTL DEF Spec

\* Without copies that lose the payload, no two objects share a bit of the map:
\* clearing the mark of one never hides another.
COROLLARY BlocksNotShared ==
  ASSUME 0 \notin MisreadSizes
  PROVE  Spec => []OneObjectPerBlock
  BY MarksExact, PTL
=============================================================================
