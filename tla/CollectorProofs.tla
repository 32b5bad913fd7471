-------------------------- MODULE CollectorProofs ---------------------------
(***************************************************************************)
(* Proofs about Collector, for any heap, any kinds of objects, any client  *)
(* and any number of collections: a collection does not show.              *)
(*                                                                         *)
(* IInv says what every state of a sane behaviour has: the objects have    *)
(* headers of their own; between collections their fields and the stack    *)
(* lead to objects, and if the last step was a collection, to the graph    *)
(* that it found; during a collection, TraceInv.  TraceInv describes the   *)
(* graph by identities, as the collection found it (GraphInv), and says    *)
(* where each of its edges has got to: a field of an object that is not    *)
(* copied leads to an original or through a forwarding address, a field    *)
(* that traverse_children has still to visit leads to an original, every   *)
(* other one to a copy.  That a field to visit never leads to an object    *)
(* that is copied already is what makes traverse_and_copy right, and what  *)
(* is not true of every heap: ParentsInv and the order of the roots give   *)
(* it for the heaps that are Collectable.  When the trace is done, the     *)
(* copies contain the roots and are closed under the edges; what was       *)
(* reached is the least such set, so they are what was reached.            *)
(*                                                                         *)
(* The steps of the trace are in CollectorTraceProofs; here are those of   *)
(* the client, the beginning and the end of a collection, and the          *)
(* theorems.                                                               *)
(*                                                                         *)
(* The second half is about the memory that a collection gives back.       *)
(* The objects of a page fill it from its start to its bump pointer, for   *)
(* an allocation and a copy put an object at the bump pointer, and a page  *)
(* is reset as a whole (Filled).  Three properties are sums over these     *)
(* objects.  A copy takes as many words as its original and no original is *)
(* copied twice, so that the words in use and the memory that was          *)
(* available at the start of a collection never exceed the heap (RoomInv): *)
(* h_gc gives memory back.  The walk of h_used, which goes from header to  *)
(* header by the sizes in them, visits the objects in their order          *)
(* (WalkStep).  And when all objects have one size, a collection that      *)
(* fills the passive pages one after the other needs no more of them than  *)
(* there were active ones (Paced).                                         *)
(***************************************************************************)
EXTENDS CollectorTraceProofs, FoldTheorems

-----------------------------------------------------------------------------
(* An allocation.                                                          *)

\* Objects lie where no allocation writes: the new object o of kind k and its
\* words.
PlaceStep(o, k, s) ==
  /\ o \notin objs /\ objs' = objs \cup {o}
  /\ UNCHANGED unsafe
  /\ pc' \in {"client", "overrun"}
  /\ o.page \in Q!PageIds /\ o.words = k.size
  /\ AddressOf(o) \in Addrs /\ Plus(AddressOf(o), -1) \in Addrs
  /\ \A q \in objs : \A w \in (q.at - 1) .. (q.at + q.words - 1) :
       mem'[<<q.page, w>>] = mem[<<q.page, w>>]
  /\ Hd(o)' = Header(k, made + 1)
  /\ mem' \in [Addrs -> Words]
  /\ stack' = [stack EXCEPT ![s] = Ptr(AddressOf(o))]

\* Where an allocation puts an object.
LEMMA PlaceTarget ==
  ASSUME BaseInv, intact, pc \in {"client", "place"}, NEW n \in Nat \ {0},
         \/ P!AllocInActivePage(n) \/ P!AllocInNewPage(n)
         \/ P!FinishAlloc /\ n = req
  PROVE  \E p \in Q!PageIds :
           /\ p \notin active => bump[p] = 0
           /\ bump' = [bump EXCEPT ![p] = bump[p] + n + 1]
           /\ objs' = objs \cup {[page |-> p, at |-> bump[p] + 1, words |-> n]}
           /\ UNCHANGED unsafe
           /\ pc' \in {"client", "overrun"}
           /\ pc' = "client" => bump[p] + n + 1 <= PageWords
  <1> DEFINE Puts(p) == \E m, ok : Q!Place(p, n, m, ok)
  <1>1. \E p \in Q!PageIds : Puts(p)
    BY SameActions DEF Q!AllocInActivePage, Q!AllocInNewPage, Q!FinishAlloc, Q!ActivateAndPlace
  <1>2. PICK p \in Q!PageIds : Puts(p)
    BY <1>1
  <1>3. p \notin active => bump[p] = 0
    BY DEF BaseInv, Q!IInv, Q!MapInv, Q!Passive
  <1>. QED
    BY <1>2, <1>3 DEF Q!Place, Q!BumpAfter

LEMMA PlacedEffect ==
  ASSUME BaseInv, intact, intact', pc \in {"client", "place"}, Q!IInv',
         NEW k \in Kinds, NEW s \in Slots, made < MaxMade,
         \/ P!AllocInActivePage(k.size) \/ P!AllocInNewPage(k.size)
         \/ P!FinishAlloc /\ k.size = req,
         Placed(k, s)
  PROVE  \E o : PlaceStep(o, k, s)
  <1> DEFINE n == k.size
  <1>1. n \in Nat \ {0} /\ PageWords \in Nat
    BY KindFacts, PagesAssumption
  <1>2. PICK p \in Q!PageIds :
           /\ p \notin active => bump[p] = 0
           /\ bump' = [bump EXCEPT ![p] = bump[p] + n + 1]
           /\ objs' = objs \cup {[page |-> p, at |-> bump[p] + 1, words |-> n]}
           /\ UNCHANGED unsafe
           /\ pc' \in {"client", "overrun"}
           /\ pc' = "client" => bump[p] + n + 1 <= PageWords
    BY <1>1, PlaceTarget
  <1>3. pc' = "client" /\ bump \in [Q!PageIds -> Nat]
    BY <1>2 DEF Q!IInv, Q!MapInv, BaseInv, Q!TypeOK
  <1>4. bump[p] \in Nat /\ bump[p] + n + 1 <= PageWords
    BY <1>2, <1>3
  <1>5. PICK r \in P!PageIds :
          LET a == <<r, bump[r] + 1>> IN
          /\ bump'[r] # bump[r]
          /\ mem' = [x \in Addrs |->
                      IF x = Plus(a, -1) THEN Header(k, made + 1)
                      ELSE IF Page(x) = r /\ r \notin active THEN Nil
                      ELSE mem[x]]
          /\ stack' = [stack EXCEPT ![s] = Ptr(a)]
    BY DEF Placed
  <1>6. r = p
    BY <1>2, <1>3, <1>5, SamePages
  <1>7. PICK o : o = [page |-> p, at |-> bump[p] + 1, words |-> n]
    OBVIOUS
  <1>8. o.page = p /\ o.at = bump[p] + 1 /\ o.words = n
    BY <1>7
  <1>9. AddressOf(o) = <<p, bump[p] + 1>>
    BY <1>8, AddressFacts
  <1>10. Plus(AddressOf(o), -1) = <<p, bump[p]>> /\ Plus(<<p, bump[p] + 1>>, -1) = <<p, bump[p]>>
    <2>1. Plus(<<p, bump[p] + 1>>, -1) = <<p, (bump[p] + 1) + -1>>
      BY AddressFacts
    <2>2. (bump[p] + 1) + -1 = bump[p]
      BY <1>4
    <2>. QED
      BY <1>9, <2>1, <2>2
  <1>11. <<p, bump[p] + 1>> \in Addrs /\ <<p, bump[p]>> \in Addrs
    <2>1. bump[p] + 1 \in 0 .. (PageWords - 1) /\ bump[p] \in 0 .. (PageWords - 1)
      BY <1>1, <1>4
    <2>. QED
      BY <2>1, SamePages DEF Addrs
  <1>12. mem' = [x \in Addrs |->
                   IF x = <<p, bump[p]>> THEN Header(k, made + 1)
                   ELSE IF Page(x) = p /\ p \notin active THEN Nil
                   ELSE mem[x]]
    BY <1>5, <1>6, <1>10
  <1>13. stack' = [stack EXCEPT ![s] = Ptr(AddressOf(o))]
    BY <1>5, <1>6, <1>9
  <1>14. objs' = objs \cup {o}
    BY <1>2, <1>7
  <1>15. ASSUME NEW q \in objs, NEW w \in (q.at - 1) .. (q.at + q.words - 1)
         PROVE  mem'[<<q.page, w>>] = mem[<<q.page, w>>] /\ q # o
    <2>1. /\ q.page \in Q!PageIds /\ q.at \in Nat \ {0} /\ q.words \in Nat \ {0}
          /\ bump[q.page] \in Nat /\ q.at + q.words <= bump[q.page] /\ bump[q.page] <= PageWords
      BY ObjectFacts
    <2>2. w \in 0 .. (PageWords - 1) /\ w < bump[q.page]
      BY <1>1, <2>1
    <2>3. <<q.page, w>> \in Addrs
      BY <2>1, <2>2, SamePages DEF Addrs
    <2>4. q.page = p => p \in active
      BY <1>2, <2>1
    <2>5. <<q.page, w>> # <<p, bump[p]>>
      BY <1>4, <2>2
    <2>6. Page(<<q.page, w>>) = q.page
      BY AddressFacts
    <2>7. q # o
      BY <1>4, <1>8, <2>1
    <2>. QED
      BY <1>12, <2>3, <2>4, <2>5, <2>6, <2>7
  <1>16. o \notin objs
    <2>1. ASSUME o \in objs
          PROVE  FALSE
      <3>1. o.at - 1 \in (o.at - 1) .. (o.at + o.words - 1)
        BY <1>1, <1>4, <1>8
      <3>. QED
        BY <1>15, <2>1, <3>1
    <2>. QED
      BY <2>1
  <1>17. Hd(o)' = Header(k, made + 1)
    BY <1>10, <1>11, <1>12 DEF Hd, HeaderOf
  <1>18. mem' \in [Addrs -> Words]
    <2>1. mem \in [Addrs -> Words] /\ made \in Nat
      BY ClientAssumption DEF BaseInv, TypeInv, TypeOK
    <2>2. made + 1 \in 1 .. MaxMade
      BY <2>1, ClientAssumption
    <2>3. Header(k, made + 1) \in Words /\ Nil \in Words
      BY <2>2 DEF Words
    <2>. QED
      BY <1>12, <2>1, <2>3
  <1>. QED
    BY <1>2, <1>8, <1>9, <1>10, <1>11, <1>13, <1>14, <1>15, <1>16, <1>17, <1>18 DEF PlaceStep

\* An allocation keeps the invariant between collections.
LEMMA PlacedKeeps ==
  ASSUME BaseInv, intact, intact', ClientInv, fresh = 0, pc \in {"client", "place"},
         Q!IInv', Q!MarksInv',
         NEW k \in Kinds, NEW s \in Slots, made < MaxMade,
         \/ P!AllocInActivePage(k.size) \/ P!AllocInNewPage(k.size)
         \/ P!FinishAlloc /\ k.size = req,
         Placed(k, s)
  PROVE  BaseInv' /\ ClientInv' /\ pc' = "client"
  <1>1. PICK o : PlaceStep(o, k, s)
    BY PlacedEffect
  <1>2. /\ o \notin objs /\ objs' = objs \cup {o} /\ o.words = k.size
        /\ unsafe' = unsafe /\ Hd(o)' = Header(k, made + 1)
        /\ stack' = [stack EXCEPT ![s] = Ptr(AddressOf(o))] /\ AddressOf(o) \in Addrs
    BY <1>1 DEF PlaceStep
  <1>3. /\ fresh' = IF k.ptrs = <<>> THEN 0 ELSE s
        /\ made' = made + 1 /\ want' = None /\ saved' = None
        /\ UNCHANGED <<unsafeStack, traceVars, gcs, disturbed>>
    BY DEF Placed
  <1>4. made \in Nat /\ made + 1 \in 0 .. MaxMade
    BY ClientAssumption DEF BaseInv, TypeInv, TypeOK
  <1>5. pc' = "client"
    BY <1>1 DEF PlaceStep, Q!IInv, Q!MapInv
  <1>6. ASSUME NEW q \in objs
        PROVE  /\ Hd(q)' = Hd(q) /\ Id(q)' = Id(q) /\ PtrsIn(q)' = PtrsIn(q)
               /\ \A i \in DOMAIN PtrsIn(q) : Word(q, i)' = Word(q, i)
    <2>1. /\ Hd(q) = mem[<<q.page, q.at - 1>>] /\ Plus(AddressOf(q), -1) = <<q.page, q.at - 1>>
          /\ q.at \in Nat \ {0} /\ q.words \in Nat \ {0}
      BY ObjectFacts
    <2>2. mem'[<<q.page, q.at - 1>>] = mem[<<q.page, q.at - 1>>]
      <3>1. q.at - 1 \in (q.at - 1) .. (q.at + q.words - 1)
        BY <2>1
      <3>. QED
        BY <1>1, <3>1 DEF PlaceStep
    <2>3. Hd(q)' = Hd(q)
      BY <2>1, <2>2 DEF Hd, HeaderOf
    <2>4. Id(q)' = Id(q) /\ PtrsIn(q)' = PtrsIn(q)
      BY <2>3 DEF Id, PtrsIn
    <2>5. ASSUME NEW i \in DOMAIN PtrsIn(q)
          PROVE  Word(q, i)' = Word(q, i)
      <3>1. FieldAt(q, i) = <<q.page, q.at + PtrsIn(q)[i]>> /\ PtrsIn(q)[i] \in 0 .. (q.words - 1)
        BY ObjectFacts
      <3>2. q.at + PtrsIn(q)[i] \in (q.at - 1) .. (q.at + q.words - 1)
        BY <2>1, <3>1
      <3>3. mem'[<<q.page, q.at + PtrsIn(q)[i]>>] = mem[<<q.page, q.at + PtrsIn(q)[i]>>]
        BY <1>1, <3>2 DEF PlaceStep
      <3>4. FieldAt(q, i)' = FieldAt(q, i)
        BY <2>4 DEF FieldAt
      <3>. QED
        BY <3>1, <3>3, <3>4 DEF Word
    <2>. QED
      BY <2>3, <2>4, <2>5
  <1>7. Id(o)' = made + 1 /\ PtrsIn(o)' = k.ptrs
    BY <1>2, WordFacts DEF Id, PtrsIn
  <1>8. HeadersInv'
    <2>1. ASSUME NEW q \in objs'
          PROVE  \E kd \in Kinds, id \in 1 .. made' : Hd(q)' = Header(kd, id) /\ q.words = kd.size
      <3>1. CASE q = o
        <4>1. made + 1 \in 1 .. made'
          BY <1>3, <1>4
        <4>. QED
          BY <1>2, <3>1, <4>1
      <3>2. CASE q \in objs
        <4>1. PICK kd \in Kinds, id \in 1 .. made : Hd(q) = Header(kd, id) /\ q.words = kd.size
          BY <3>2 DEF BaseInv, HeadersInv
        <4>2. id \in 1 .. made'
          BY <1>3, <1>4
        <4>. QED
          BY <1>6, <3>2, <4>1, <4>2
      <3>. QED
        BY <1>2, <3>1, <3>2
    <2>2. \A q \in objs : Id(q)' # made + 1
      <3>1. ASSUME NEW q \in objs
            PROVE  Id(q) # made + 1
        <4>1. Id(q) \in 1 .. made
          BY ObjectFacts
        <4>. QED
          BY <1>4, <4>1
      <3>. QED
        BY <1>6, <3>1
    <2>3. \A q, r \in objs : Id(q) = Id(r) => q = r
      BY DEF BaseInv, HeadersInv
    <2>4. \A q, r \in objs' : Id(q)' = Id(r)' => q = r
      BY <1>2, <1>6, <1>7, <2>2, <2>3
    <2>. QED
      BY <2>1, <2>4 DEF HeadersInv
  <1>9. stack \in [Slots -> StackWords]
    BY DEF BaseInv, TypeInv
  <1>10. stack' \in [Slots -> StackWords] /\ stack' \in [Slots -> Words]
    <2>1. Ptr(AddressOf(o)) \in StackWords /\ StackWords \subseteq Words
      BY <1>2 DEF StackWords, Words
    <2>. QED
      BY <1>2, <1>9, <2>1
  <1>11. TypeInv'
    <2>1. mem' \in [Addrs -> Words] /\ fresh' \in Slots \cup {0}
      BY <1>1, <1>3 DEF PlaceStep
    <2>2. /\ unsafeStack' = unsafeStack /\ next' = next /\ frames' = frames /\ gcs' = gcs
          /\ made' \in 0 .. MaxMade
      BY <1>3, <1>4 DEF traceVars
    <2>. QED
      BY <1>10, <2>1, <2>2 DEF BaseInv, TypeInv, TypeOK
  <1>12. BaseInv'
    BY <1>2, <1>5, <1>8, <1>11 DEF BaseInv, WantInv
  <1>13. FieldsInv'
    <2>1. ASSUME NEW q \in objs, NEW i \in DOMAIN PtrsIn(q)
          PROVE  Word(q, i)' = Nil \/ \E r \in objs' : Word(q, i)' = Ptr(AddressOf(r))
      <3>1. Word(q, i) = Nil \/ \E r \in objs : Word(q, i) = Ptr(AddressOf(r))
        BY DEF ClientInv, FieldsInv, Initialised
      <3>. QED
        BY <1>2, <1>6, <3>1
    <2>2. k.ptrs # <<>> => ~Initialised(o)'
      <3>1. stack'[s] = Ptr(AddressOf(o))
        BY <1>2, <1>9
      <3>2. s # 0
        BY DEF Slots
      <3>. QED
        BY <1>3, <3>1, <3>2 DEF Initialised
    <2>3. k.ptrs = <<>> => DOMAIN PtrsIn(o)' = {}
      BY <1>7
    <2>. QED
      BY <1>2, <1>6, <2>1, <2>2, <2>3 DEF FieldsInv
  <1>14. fresh' # 0 => \E q \in objs' : stack'[fresh'] = Ptr(AddressOf(q))
    BY <1>2, <1>3, <1>9
  <1>15. frames' = <<>> /\ saved' = None
    BY <1>3 DEF ClientInv, traceVars
  <1>. QED
    BY <1>5, <1>12, <1>13, <1>14, <1>15 DEF ClientInv

\* AllocDisturbsNone of an allocation.
LEMMA PlacedDisturbsNone ==
  ASSUME IInv, Sane, Q!IInv', intact', NEW k \in Kinds, NEW s \in Slots,
         Alloc(k, s) \/ FinishAlloc
  PROVE  \A o \in objs : \A w \in (o.at - 1) .. (o.at + o.words - 1) :
           mem'[<<o.page, w>>] = mem[<<o.page, w>>]
  <1>1. BaseInv /\ intact
    BY DEF IInv, Sane
  <1>2. CASE Alloc(k, s)
    <2>1. /\ made < MaxMade /\ pc = "client" /\ Placed(k, s)
          /\ P!AllocInActivePage(k.size) \/ P!AllocInNewPage(k.size)
      BY <1>2 DEF Alloc, P!AllocInActivePage, P!AllocInNewPage
    <2>2. \E o : PlaceStep(o, k, s)
      BY <1>1, <2>1, PlacedEffect
    <2>. QED
      BY <2>2 DEF PlaceStep
  <1>3. CASE FinishAlloc
    <2>1. P!FinishAlloc /\ Placed(want.kind, want.slot) /\ pc = "place"
      BY <1>3 DEF FinishAlloc, P!FinishAlloc
    <2>2. req # 0
      BY <1>1, <2>1, PagesAssumptions, KindFacts DEF BaseInv, Q!IInv
    <2>3. want.kind \in Kinds /\ want.slot \in Slots /\ want.kind.size = req /\ made < MaxMade
      BY <1>1, <2>1, <2>2 DEF BaseInv, WantInv
    <2>4. \E o : PlaceStep(o, want.kind, want.slot)
      BY <1>1, <2>1, <2>3, PlacedEffect
    <2>. QED
      BY <2>4 DEF PlaceStep
  <1>. QED
    BY <1>2, <1>3

-----------------------------------------------------------------------------
(* The client's writes.                                                    *)

LEMMA HoldsFacts ==
  ASSUME BaseInv, intact, NEW s \in Slots
  PROVE  /\ HoldsObject(s) => \E o \in objs : stack[s] = Ptr(AddressOf(o))
         /\ \A o \in objs : stack[s] = Ptr(AddressOf(o)) => HoldsObject(s)
  <1>1. ASSUME HoldsObject(s)
        PROVE  \E o \in objs : stack[s] = Ptr(AddressOf(o))
    <2>1. IsPtr(stack[s]) /\ stack[s] \in StackWords
      BY <1>1 DEF HoldsObject, BaseInv, TypeInv
    <2>2. PICK a \in Addrs : stack[s] = Ptr(a)
      BY <2>1, WordFacts DEF StackWords
    <2>3. PICK o \in objs : o.page = a[1] /\ o.at = a[2]
      BY <1>1, <2>2, WordFacts DEF HoldsObject, ObjectAt, Page
    <2>4. a = <<a[1], a[2]>>
      BY <2>2 DEF Addrs
    <2>5. a = AddressOf(o)
      BY <2>3, <2>4, AddressFacts
    <2>. QED
      BY <2>2, <2>5
  <1>2. ASSUME NEW o \in objs, stack[s] = Ptr(AddressOf(o))
        PROVE  HoldsObject(s)
    BY <1>2, TakenFacts, WordFacts DEF HoldsObject
  <1>. QED
    BY <1>1, <1>2

\* The fields of an object.
LEMMA FieldsFacts ==
  ASSUME NEW o
  PROVE  Fields(AddressOf(o)) = {FieldAt(o, i) : i \in DOMAIN PtrsIn(o)}
  BY DEF Fields, PtrsOf, FieldAt, PtrsIn, Hd

\* The client has nothing else to write than null pointers and pointers to
\* objects.
LEMMA KnownFacts ==
  ASSUME BaseInv, intact, NEW w \in Known
  PROVE  w = Nil \/ \E o \in objs : w = Ptr(AddressOf(o))
  BY HoldsFacts DEF Known

\* A write to fields of one object.
LEMMA WriteKeeps ==
  ASSUME BaseInv, intact, ClientInv, pc = "client", Q!IInv', Q!MarksInv',
         NEW o \in objs, \A q \in objs : Initialised(q) \/ q = o,
         mem' \in [Addrs -> Words],
         \A x \in Addrs : mem'[x] = mem[x] \/ mem'[x] \in Known,
         \A x \in Addrs : mem'[x] = mem[x] \/ \E i \in DOMAIN PtrsIn(o) : x = FieldAt(o, i),
         \A i \in DOMAIN PtrsIn(o) : mem'[FieldAt(o, i)] \in Known \/ Initialised(o),
         ClientOnly, UNCHANGED <<pageVars, stack>>
  PROVE  BaseInv' /\ ClientInv' /\ pc' = "client"
  <1>1. /\ objs' = objs /\ unsafe' = unsafe /\ pc' = pc
        /\ fresh' = 0 /\ saved' = None
        /\ UNCHANGED <<unsafeStack, want, traceVars, made, gcs, disturbed>>
    BY DEF pageVars, ClientOnly
  <1>2. ASSUME NEW q \in objs
        PROVE  Hd(q)' = Hd(q)
    <2>1. Plus(AddressOf(q), -1) \in Addrs
      BY ObjectFacts
    <2>2. \A i \in DOMAIN PtrsIn(o) : Plus(AddressOf(q), -1) # FieldAt(o, i)
      BY Apart
    <2>. QED
      BY <2>1, <2>2 DEF Hd, HeaderOf
  <1>3. ASSUME NEW q \in objs
        PROVE  Id(q)' = Id(q) /\ PtrsIn(q)' = PtrsIn(q) /\ \A i : FieldAt(q, i)' = FieldAt(q, i)
    BY <1>2 DEF Id, PtrsIn, FieldAt
  <1>4. HeadersInv'
    BY <1>1, <1>2, <1>3 DEF BaseInv, HeadersInv
  <1>5. TypeInv'
    <2>1. /\ next' = next /\ frames' = frames
      BY <1>1 DEF traceVars
    <2>. QED
      BY <1>1, <2>1 DEF BaseInv, TypeInv, TypeOK
  <1>6. BaseInv'
    BY <1>1, <1>4, <1>5 DEF BaseInv, WantInv
  <1>7. ASSUME NEW q \in objs, NEW i \in DOMAIN PtrsIn(q)
        PROVE  Word(q, i)' = Nil \/ \E r \in objs : Word(q, i)' = Ptr(AddressOf(r))
    <2>1. FieldAt(q, i) \in Addrs
      BY ObjectFacts
    <2>2. Word(q, i)' = mem'[FieldAt(q, i)]
      BY <1>3 DEF Word
    <2>3. CASE mem'[FieldAt(q, i)] \in Known
      BY <2>2, <2>3, KnownFacts
    <2>4. CASE mem'[FieldAt(q, i)] \notin Known
      <3>1. Word(q, i)' = Word(q, i)
        BY <2>1, <2>2, <2>4 DEF Word
      <3>2. Initialised(q)
        BY <1>7, <2>4
      <3>. QED
        BY <3>1, <3>2 DEF ClientInv, FieldsInv
    <2>. QED
      BY <2>3, <2>4
  <1>8. FieldsInv'
    BY <1>1, <1>3, <1>7 DEF FieldsInv
  <1>9. frames' = <<>>
    BY <1>1 DEF ClientInv, traceVars
  <1>. QED
    BY <1>1, <1>6, <1>8, <1>9 DEF ClientInv

LEMMA KnownIsWord ==
  ASSUME BaseInv, intact
  PROVE  Known \subseteq Words
  <1>1. ASSUME NEW w \in Known
        PROVE  w \in Words
    <2>1. w = Nil \/ \E o \in objs : w = Ptr(AddressOf(o))
      BY <1>1, KnownFacts
    <2>2. \A o \in objs : AddressOf(o) \in Addrs
      BY ObjectFacts
    <2>. QED
      BY <2>1, <2>2 DEF Words
  <1>. QED
    BY <1>1

LEMMA WrittenIntact ==
  ASSUME NEW fs, Written(fs), intact'
  PROVE  UNCHANGED pageVars
  <1>1. ~P!ClientStore
    BY DEF P!ClientStore
  <1>. QED
    BY <1>1 DEF Written

LEMMA InitialiseKeeps ==
  ASSUME BaseInv, intact, intact', ClientInv, Q!IInv', Q!MarksInv', Initialise
  PROVE  BaseInv' /\ ClientInv' /\ pc' = "client"
  <1> DEFINE fs == Fields(stack[fresh][2])
  <1>1. fresh # 0 /\ ClientOnly /\ UNCHANGED stack /\ Written(fs) /\ pc = "client"
    BY DEF Initialise, ClientOnly
  <1>2. PICK init \in [fs -> Known] : mem' = [x \in Addrs |-> IF x \in fs THEN init[x] ELSE mem[x]]
    BY DEF Initialise
  <1>3. UNCHANGED pageVars
    BY <1>1, WrittenIntact
  <1>4. PICK o \in objs : stack[fresh] = Ptr(AddressOf(o))
    BY <1>1 DEF ClientInv
  <1>5. fs = {FieldAt(o, i) : i \in DOMAIN PtrsIn(o)}
    BY <1>4, WordFacts, FieldsFacts
  <1>6. \A q \in objs : Initialised(q) \/ q = o
    BY <1>4, WordFacts, Apart DEF Initialised
  <1>7. mem \in [Addrs -> Words] /\ Known \subseteq Words
    BY KnownIsWord DEF BaseInv, TypeInv, TypeOK
  <1> HIDE DEF fs
  <1>8. mem' \in [Addrs -> Words]
    BY <1>2, <1>7
  <1>9. \A x \in Addrs : (mem'[x] = mem[x] /\ x \notin fs) \/ (mem'[x] \in Known /\ x \in fs)
    BY <1>2
  <1>10. \A i \in DOMAIN PtrsIn(o) : mem'[FieldAt(o, i)] \in Known
    <2>1. \A i \in DOMAIN PtrsIn(o) : FieldAt(o, i) \in Addrs
      BY ObjectFacts
    <2>. QED
      BY <1>5, <1>9, <2>1
  <1>11. \A x \in Addrs : mem'[x] = mem[x] \/ \E i \in DOMAIN PtrsIn(o) : x = FieldAt(o, i)
    BY <1>5, <1>9
  <1>. QED
    BY <1>1, <1>3, <1>6, <1>8, <1>9, <1>10, <1>11, WriteKeeps

LEMMA StoreKeeps ==
  ASSUME BaseInv, intact, intact', ClientInv, Q!IInv', Q!MarksInv', NEW s \in Slots, Store(s)
  PROVE  BaseInv' /\ ClientInv' /\ pc' = "client"
  <1>1. fresh = 0 /\ ClientOnly /\ UNCHANGED stack /\ pc = "client" /\ HoldsObject(s)
    BY DEF Store, ClientOnly
  <1>2. PICK f \in Fields(stack[s][2]), w \in Known :
          mem' = [mem EXCEPT ![f] = w] /\ Written({f})
    BY DEF Store
  <1>3. UNCHANGED pageVars
    BY <1>2, WrittenIntact
  <1>4. PICK o \in objs : stack[s] = Ptr(AddressOf(o))
    BY <1>1, HoldsFacts
  <1>5. PICK i \in DOMAIN PtrsIn(o) : f = FieldAt(o, i)
    BY <1>2, <1>4, WordFacts, FieldsFacts
  <1>6. \A q \in objs : Initialised(q)
    BY <1>1 DEF Initialised
  <1>7. mem \in [Addrs -> Words] /\ Known \subseteq Words /\ f \in Addrs
    BY <1>5, KnownIsWord, ObjectFacts DEF BaseInv, TypeInv, TypeOK
  <1>8. mem' \in [Addrs -> Words]
    BY <1>2, <1>7
  <1>9. \A x \in Addrs : mem'[x] = mem[x] \/ (mem'[x] \in Known /\ x = f)
    BY <1>2, <1>7
  <1>. QED
    BY <1>1, <1>3, <1>5, <1>6, <1>8, <1>9, WriteKeeps

\* What the client does to its stack.
LEMMA StackKeeps ==
  ASSUME BaseInv, intact, ClientInv, Q!IInv', Q!MarksInv', NEW s \in Slots,
         Push(s) \/ \E t \in Slots : Load(t, s)
  PROVE  BaseInv' /\ ClientInv' /\ pc' = "client"
  <1>1. fresh = 0 /\ ClientOnly /\ UNCHANGED <<pageVars, mem>> /\ pc = "client"
    BY DEF Push, Load, ClientOnly
  <1>2. /\ fresh' = 0 /\ saved' = None
        /\ UNCHANGED <<unsafeStack, want, traceVars, made, gcs, disturbed>>
    BY <1>1 DEF ClientOnly
  <1>3. stack \in [Slots -> StackWords]
    BY DEF BaseInv, TypeInv
  <1>4. \E w \in StackWords : stack' = [stack EXCEPT ![s] = w]
    <2>1. CASE Push(s)
      <3>1. PICK w \in {Nil} \cup {stack[t] : t \in Slots} \cup {Ptr(a) : a \in Strays} :
              stack' = [stack EXCEPT ![s] = w]
        BY <2>1 DEF Push
      <3>2. Strays \subseteq Addrs
        BY ClientAssumption, SamePages DEF Addrs, Q!PageIds
      <3>3. w \in StackWords
        BY <1>3, <3>1, <3>2 DEF StackWords
      <3>. QED
        BY <3>1, <3>3
    <2>2. CASE \E t \in Slots : Load(t, s)
      <3>1. PICK t \in Slots : Load(t, s)
        BY <2>2
      <3>2. PICK o \in objs : stack[t] = Ptr(AddressOf(o))
        BY <3>1, HoldsFacts DEF Load
      <3>3. PICK f \in Fields(AddressOf(o)) : stack' = [stack EXCEPT ![s] = mem[f]]
        BY <3>1, <3>2, WordFacts DEF Load
      <3>4. PICK i \in DOMAIN PtrsIn(o) : f = FieldAt(o, i)
        BY <3>3, FieldsFacts
      <3>5. mem[f] = Nil \/ \E q \in objs : mem[f] = Ptr(AddressOf(q))
        BY <1>1, <3>4 DEF ClientInv, FieldsInv, Initialised, Word
      <3>6. \A q \in objs : AddressOf(q) \in Addrs
        BY ObjectFacts
      <3>7. mem[f] \in StackWords
        BY <3>5, <3>6 DEF StackWords
      <3>. QED
        BY <3>3, <3>7
    <2>. QED
      BY <2>1, <2>2
  <1>5. stack' \in [Slots -> StackWords] /\ stack' \in [Slots -> Words]
    <2>1. StackWords \subseteq Words
      BY DEF StackWords, Words
    <2>. QED
      BY <1>3, <1>4, <2>1
  <1>6. TypeInv'
    BY <1>1, <1>2, <1>5 DEF BaseInv, TypeInv, TypeOK, traceVars
  <1>7. BaseInv'
    BY <1>1, <1>2, <1>6, SamePagesBase
  <1>8. FieldsInv'
    <2>1. objs' = objs /\ (\A q : PtrsIn(q)' = PtrsIn(q)) /\ (\A q, i : Word(q, i)' = Word(q, i))
      BY <1>1, SameWords
    <2>. QED
      BY <1>1, <2>1 DEF FieldsInv, ClientInv, Initialised
  <1>9. frames' = <<>> /\ pc' = "client"
    BY <1>1, <1>2 DEF ClientInv, traceVars, pageVars
  <1>. QED
    BY <1>2, <1>7, <1>8, <1>9 DEF ClientInv

\* h_delete_dbg leaves no pointer to an object.
LEMMA DeleteKeeps ==
  ASSUME BaseInv, intact, Q!IInv', Q!MarksInv', HDeleteDbg
  PROVE  BaseInv' /\ pc' = "deleted" /\ \A s \in Slots : ~HoldsObject(s)'
  <1>1. /\ pc' = "deleted" /\ UNCHANGED <<active, bump, amap, unsafe, req, objs, kept, intact>>
        /\ stack' = [s \in Slots |-> IF IsRoot(stack[s]) THEN Data ELSE stack[s]]
        /\ UNCHANGED <<mem, unsafeStack, want, traceVars, fresh, made, gcs, disturbed, saved>>
    BY DEF HDeleteDbg, P!HDelete
  <1>2. stack \in [Slots -> StackWords]
    BY DEF BaseInv, TypeInv
  <1>3. stack' \in [Slots -> StackWords] /\ stack' \in [Slots -> Words]
    <2>1. StackWords \subseteq Words /\ Data \in StackWords
      BY DEF StackWords, Words
    <2>. QED
      BY <1>1, <1>2, <2>1
  <1>4. TypeInv'
    BY <1>1, <1>3 DEF BaseInv, TypeInv, TypeOK, traceVars
  <1>5. \A q : Hd(q)' = Hd(q) /\ Id(q)' = Id(q)
    BY <1>1 DEF Hd, Id, HeaderOf
  <1>6. HeadersInv'
    BY <1>1, <1>5 DEF HeadersInv, BaseInv
  <1>7. BaseInv'
    BY <1>1, <1>4, <1>6 DEF BaseInv, WantInv
  <1>8. ASSUME NEW s \in Slots, HoldsObject(s)'
        PROVE  FALSE
    <2>1. stack'[s] # Data
      BY <1>8, WordFacts DEF HoldsObject
    <2>2. stack'[s] = stack[s] /\ ~IsRoot(stack[s])
      BY <1>1, <2>1
    <2>3. HoldsObject(s)
      BY <1>1, <1>8, <2>2 DEF HoldsObject, ObjectAt
    <2>4. PICK o \in objs : stack[s] = Ptr(AddressOf(o))
      BY <2>3, HoldsFacts
    <2>. QED
      BY <2>2, <2>4, MarkedFacts, WordFacts DEF IsRoot
  <1>. QED
    BY <1>1, <1>7, <1>8

LEMMA AllocStopsKeeps ==
  ASSUME BaseInv, intact, Q!IInv', Q!MarksInv', AllocStops
  PROVE  BaseInv' /\ pc' = "abort"
  <1>1. P!Stop
    BY DEF AllocStops, P!AllocStops, P!FinishStops
  <1>2. pc' = "abort" /\ UNCHANGED <<active, bump, amap, unsafe, req, objs, kept, intact>>
    BY <1>1 DEF P!Stop
  <1>3. UNCHANGED <<mem, stack, unsafeStack, want, traceVars, fresh, made, gcs, disturbed, saved>>
    BY DEF AllocStops
  <1>4. TypeInv'
    BY <1>2, <1>3 DEF BaseInv, TypeInv, TypeOK, traceVars
  <1>5. \A q : Hd(q)' = Hd(q) /\ Id(q)' = Id(q)
    BY <1>3 DEF Hd, Id, HeaderOf
  <1>6. HeadersInv'
    BY <1>2, <1>3, <1>5 DEF HeadersInv, BaseInv
  <1>. QED
    BY <1>2, <1>4, <1>6 DEF BaseInv, WantInv

-----------------------------------------------------------------------------
(* What the client sees, by objects.                                       *)

Reached(s) == {o \in objs : AddressOf(o) \in Reach(RootsBefore(s))}

NameInv ==
  /\ \A s \in Slots :
       /\ stack[s] \in {Nil, Data} \/ IsPtr(stack[s])
       /\ stack[s] \in {Nil, Data} => Name(stack[s]) = stack[s]
       /\ \A o \in objs : stack[s] = Ptr(AddressOf(o)) => Name(stack[s]) = Object(Id(o))
  /\ \A o \in objs : \A i \in DOMAIN PtrsIn(o) :
       /\ Word(o, i) = Nil => Name(Word(o, i)) = Nil
       /\ \A q \in objs : Word(o, i) = Ptr(AddressOf(q)) => Name(Word(o, i)) = Object(Id(q))

ReachInv ==
  /\ \A s, t, o : t \in 1 .. (s - 1) /\ s \in 1 .. (NumSlots + 1) /\ o \in objs /\ stack[t] = Ptr(AddressOf(o)) =>
       o \in Reached(s)
  /\ \A s : \A o \in Reached(s), q \in objs : \A i \in DOMAIN PtrsIn(o) :
       Word(o, i) = Ptr(AddressOf(q)) => q \in Reached(s)
  /\ \A s \in 1 .. (NumSlots + 1), X \in SUBSET objs :
       /\ \A t \in 1 .. (s - 1), o \in objs : stack[t] = Ptr(AddressOf(o)) => o \in X
       /\ \A o \in X, q \in objs : \A i \in DOMAIN PtrsIn(o) : Word(o, i) = Ptr(AddressOf(q)) => q \in X
       => Reached(s) \subseteq X
  /\ \A s, a : a \in Reach(RootsBefore(s)) => \E o \in Reached(s) : a = AddressOf(o)
  /\ \A o, q \in objs : AddressOf(q) \in Children(AddressOf(o)) <=>
       \E i \in DOMAIN PtrsIn(o) : Word(o, i) = Ptr(AddressOf(q))

ViewInv ==
  /\ View = [roots |-> [s \in Slots |-> Name(stack[s])], fields |-> View.fields]
  /\ \A e : e \in View.fields <=>
       \E o \in Reached(NumSlots + 1) : \E i \in DOMAIN PtrsIn(o) :
         e = <<Id(o), PtrsIn(o)[i], Name(Word(o, i))>>

\* Names of objects are their identities.
LEMMA NameFacts ==
  BaseInv /\ intact => NameInv
  <1>1. SUFFICES ASSUME BaseInv, intact
                 PROVE  NameInv
    OBVIOUS
  <1>2. Name(Nil) = Nil /\ Name(Data) = Data
    BY WordFacts DEF Name
  <1>3. ASSUME NEW o \in objs
        PROVE  Name(Ptr(AddressOf(o))) = Object(Id(o))
    <2>1. ObjectAt(AddressOf(o)) # {}
      BY <1>1, TakenFacts
    <2>. QED
      BY <2>1, WordFacts DEF Name, Object, Id, Hd
  <1>4. ASSUME NEW s \in Slots
        PROVE  stack[s] \in {Nil, Data} \/ IsPtr(stack[s])
    <2>1. stack[s] \in StackWords
      BY <1>1 DEF BaseInv, TypeInv
    <2>. QED
      BY <2>1, WordFacts DEF StackWords
  <1>. QED
    BY <1>2, <1>3, <1>4 DEF NameInv

\* The objects and their addresses.
LEMMA ObjectAddrsFacts ==
  ASSUME BaseInv, intact
  PROVE  ObjectAddrs = {AddressOf(o) : o \in objs}
  <1>1. \A o \in objs : o.words > 0
    BY DEF BaseInv, Q!MarksInv
  <1>. QED
    BY <1>1 DEF ObjectAddrs

\* A target of words is an object that one of them points to.
LEMMA TargetFacts ==
  ASSUME BaseInv, intact, NEW W,
         \A w \in W : w \in {Nil, Data} \/ \E a \in Addrs : w = Ptr(a)
  PROVE  \A a : a \in Targets(W) <=> \E o \in objs : a = AddressOf(o) /\ Ptr(a) \in W
  <1>1. ASSUME NEW o \in objs, Ptr(AddressOf(o)) \in W
        PROVE  AddressOf(o) \in Targets(W)
    <2>1. ObjectAt(Ptr(AddressOf(o))[2]) # {} /\ IsPtr(Ptr(AddressOf(o))) /\ Ptr(AddressOf(o))[2] = AddressOf(o)
      BY TakenFacts, WordFacts
    <2>. QED
      BY <1>1, <2>1 DEF Targets
  <1>2. ASSUME NEW w \in W, IsPtr(w), ObjectAt(w[2]) # {}
        PROVE  \E o \in objs : w[2] = AddressOf(o) /\ Ptr(w[2]) \in W
    <2>1. PICK a \in Addrs : w = Ptr(a)
      BY <1>2, WordFacts
    <2>2. w[2] = a
      BY <2>1, WordFacts
    <2>3. PICK o \in objs : o.page = a[1] /\ o.at = a[2]
      BY <1>2, <2>2 DEF ObjectAt, Page
    <2>4. a = <<a[1], a[2]>>
      BY DEF Addrs
    <2>5. a = AddressOf(o)
      BY <2>3, <2>4, AddressFacts
    <2>. QED
      BY <2>1, <2>2, <2>5
  <1>. QED
    BY <1>1, <1>2 DEF Targets

\* Reach is the least set that is closed.
LEMMA LeastClosed ==
  ASSUME NEW A
  PROVE  /\ A \subseteq ObjectAddrs => A \subseteq Reach(A)
         /\ \A a \in Reach(A) : Children(a) \cap ObjectAddrs \subseteq Reach(A)
         /\ \A X \in SUBSET ObjectAddrs :
              A \subseteq X /\ (\A a \in X : Children(a) \subseteq X) => Reach(A) \subseteq X
         /\ Reach(A) \subseteq ObjectAddrs
  BY DEF Reach

LEMMA ReachFacts ==
  BaseInv /\ intact /\ FieldsInv /\ fresh = 0 => ReachInv
  <1>1. SUFFICES ASSUME BaseInv, intact, FieldsInv, fresh = 0
                 PROVE  ReachInv
    OBVIOUS
  <1>2. ObjectAddrs = {AddressOf(o) : o \in objs}
    BY <1>1, ObjectAddrsFacts
  <1>3. \A o, q \in objs : AddressOf(o) = AddressOf(q) => o = q
    BY <1>1, Apart
  <1>4. \A o \in objs : AddressOf(o) \in Addrs
    BY <1>1, ObjectFacts
  <1>5. ASSUME NEW o \in objs, NEW a
        PROVE  a \in Children(AddressOf(o)) <=>
                 \E q \in objs : a = AddressOf(q) /\ \E i \in DOMAIN PtrsIn(o) : Word(o, i) = Ptr(AddressOf(q))
    <2> DEFINE W == {mem[f] : f \in Fields(AddressOf(o))}
    <2>1. W = {Word(o, i) : i \in DOMAIN PtrsIn(o)}
      BY FieldsFacts DEF Word
    <2>2. \A i \in DOMAIN PtrsIn(o) : Word(o, i) = Nil \/ \E q \in objs : Word(o, i) = Ptr(AddressOf(q))
      BY <1>1 DEF FieldsInv, Initialised
    <2>3. \A w \in W : w \in {Nil, Data} \/ \E b \in Addrs : w = Ptr(b)
      BY <1>4, <2>1, <2>2
    <2>4. a \in Targets(W) <=> \E q \in objs : a = AddressOf(q) /\ Ptr(a) \in W
      BY <1>1, <2>3, TargetFacts
    <2>. QED
      BY <2>1, <2>4 DEF Children
  <1>6. ASSUME NEW s \in 1 .. (NumSlots + 1), NEW a
        PROVE  a \in RootsBefore(s) <=>
                 \E o \in objs : a = AddressOf(o) /\ \E t \in 1 .. (s - 1) : stack[t] = Ptr(AddressOf(o))
    <2> DEFINE W == {stack[t] : t \in 1 .. (s - 1)}
    <2>1. 1 .. (s - 1) \subseteq Slots
      BY ClientAssumption DEF Slots
    <2>2. \A w \in W : w \in StackWords
      BY <1>1, <2>1 DEF BaseInv, TypeInv
    <2>3. \A w \in W : w \in {Nil, Data} \/ \E b \in Addrs : w = Ptr(b)
      BY <2>2 DEF StackWords
    <2>4. a \in Targets(W) <=> \E q \in objs : a = AddressOf(q) /\ Ptr(a) \in W
      BY <1>1, <2>3, TargetFacts
    <2>. QED
      BY <2>4 DEF RootsBefore
  <1>7. ASSUME NEW s, NEW t, NEW o, t \in 1 .. (s - 1), s \in 1 .. (NumSlots + 1), o \in objs,
               stack[t] = Ptr(AddressOf(o))
        PROVE  o \in Reached(s)
    <2>1. RootsBefore(s) \subseteq ObjectAddrs
      BY <1>2, <1>6, <1>7
    <2>2. AddressOf(o) \in RootsBefore(s)
      BY <1>6, <1>7
    <2>. QED
      BY <1>7, <2>1, <2>2, LeastClosed DEF Reached
  <1>8. ASSUME NEW s, NEW o \in Reached(s), NEW q \in objs, NEW i \in DOMAIN PtrsIn(o),
               Word(o, i) = Ptr(AddressOf(q))
        PROVE  q \in Reached(s)
    <2>1. o \in objs /\ AddressOf(o) \in Reach(RootsBefore(s))
      BY DEF Reached
    <2>2. AddressOf(q) \in Children(AddressOf(o)) /\ AddressOf(q) \in ObjectAddrs
      BY <1>2, <1>5, <1>8, <2>1
    <2>3. AddressOf(q) \in Reach(RootsBefore(s))
      BY <2>1, <2>2, LeastClosed
    <2>. QED
      BY <2>3 DEF Reached
  <1>9. ASSUME NEW s \in 1 .. (NumSlots + 1), NEW X \in SUBSET objs,
               \A t \in 1 .. (s - 1), o \in objs : stack[t] = Ptr(AddressOf(o)) => o \in X,
               \A o \in X, q \in objs : \A i \in DOMAIN PtrsIn(o) : Word(o, i) = Ptr(AddressOf(q)) => q \in X
        PROVE  Reached(s) \subseteq X
    <2> DEFINE Y == {AddressOf(o) : o \in X}
    <2>1. Y \subseteq ObjectAddrs
      BY <1>2
    <2>2. RootsBefore(s) \subseteq Y
      BY <1>6, <1>9
    <2>3. \A a \in Y : Children(a) \subseteq Y
      BY <1>5, <1>9
    <2> HIDE DEF Y
    <2>4. Reach(RootsBefore(s)) \subseteq Y
      BY <2>1, <2>2, <2>3, LeastClosed
    <2>. QED
      BY <1>3, <2>4 DEF Reached, Y
  <1>10. \A s, a : a \in Reach(RootsBefore(s)) => \E o \in Reached(s) : a = AddressOf(o)
    BY <1>2, LeastClosed DEF Reached
  <1>11. \A o, q \in objs : AddressOf(q) \in Children(AddressOf(o)) <=>
           \E i \in DOMAIN PtrsIn(o) : Word(o, i) = Ptr(AddressOf(q))
    BY <1>3, <1>5
  <1>. QED
    BY <1>7, <1>8, <1>9, <1>10, <1>11 DEF ReachInv

LEMMA ViewFacts ==
  BaseInv /\ intact /\ FieldsInv /\ fresh = 0 => ViewInv
  <1>1. SUFFICES ASSUME BaseInv, intact, FieldsInv, fresh = 0
                 PROVE  ViewInv
    OBVIOUS
  <1>2. ReachInv
    BY <1>1, ReachFacts
  <1>3. \A a : a \in Reachable <=> \E o \in Reached(NumSlots + 1) : a = AddressOf(o)
    BY <1>2 DEF ReachInv, Reachable, Reached
  <1>4. ASSUME NEW o
        PROVE  /\ HeaderOf(AddressOf(o))[3] = Id(o) /\ PtrsOf(AddressOf(o)) = PtrsIn(o)
               /\ \A i : mem[Plus(AddressOf(o), PtrsOf(AddressOf(o))[i])] = Word(o, i)
    BY DEF Id, Hd, PtrsOf, PtrsIn, Word, FieldAt
  <1>5. View.fields = UNION {{<<HeaderOf(a)[3], PtrsOf(a)[i], Name(mem[Plus(a, PtrsOf(a)[i])])>> :
                                i \in DOMAIN PtrsOf(a)} : a \in Reachable}
    BY DEF View
  <1>6. ASSUME NEW e
        PROVE  e \in View.fields <=>
                 \E a \in Reachable : \E i \in DOMAIN PtrsOf(a) :
                   e = <<HeaderOf(a)[3], PtrsOf(a)[i], Name(mem[Plus(a, PtrsOf(a)[i])])>>
    BY <1>5
  <1>7. ASSUME NEW e
        PROVE  e \in View.fields <=>
                 \E o \in Reached(NumSlots + 1) : \E i \in DOMAIN PtrsIn(o) :
                   e = <<Id(o), PtrsIn(o)[i], Name(Word(o, i))>>
    BY <1>3, <1>4, <1>6
  <1>8. View = [roots |-> [s \in Slots |-> Name(stack[s])], fields |-> View.fields]
    BY DEF View
  <1>. QED
    BY <1>7, <1>8 DEF ViewInv

-----------------------------------------------------------------------------
(* The beginning of a collection.                                          *)

\* Between collections every object lies on an active page.
LEMMA AllActive ==
  ASSUME BaseInv, intact, pc \in {"client", "place"}, NEW o \in objs
  PROVE  o.page \in active
  <1>1. /\ o.page \in Q!PageIds /\ o.at \in Nat \ {0} /\ o.words \in Nat \ {0}
        /\ o.at + o.words <= bump[o.page] /\ bump[o.page] \in Nat
    BY ObjectFacts
  <1>2. o.page \in Q!Passive => bump[o.page] = 0
    BY DEF BaseInv, Q!IInv, Q!MapInv
  <1>. QED
    BY <1>1, <1>2 DEF Q!Passive

\* The two steps that begin one.
Begins ==
  /\ BeginScan
  /\ pc' = "trace" /\ UNCHANGED <<active, bump, amap, unsafe, objs, intact>>
  /\ fresh = 0 /\ pc = "client"
  /\ unsafeStack' \in BOOLEAN
  /\ \/ req' = 0
     \/ want'.kind \in Kinds /\ want'.slot \in Slots /\ want'.kind.size = req' /\ made < MaxMade

LEMMA BeginsFacts ==
  ASSUME BaseInv, \/ \E k \in Kinds, s \in Slots : AllocCollects(k, s)
                  \/ \E mode \in {unsafeStack} \cup StackModes : HGc(mode)
  PROVE  Begins
  <1>1. unsafeStack \in BOOLEAN /\ StackModes \subseteq BOOLEAN
    BY ClientAssumption DEF BaseInv, TypeInv, TypeOK
  <1>2. ASSUME NEW k \in Kinds, NEW s \in Slots, AllocCollects(k, s)
        PROVE  Begins
    BY <1>1, <1>2 DEF AllocCollects, P!AllocCollects, P!StartTrace, Begins
  <1>3. ASSUME NEW mode \in {unsafeStack} \cup StackModes, HGc(mode)
        PROVE  Begins
    BY <1>1, <1>3 DEF HGc, P!HGc, P!StartTrace, Begins
  <1>. QED
    BY <1>2, <1>3

\* The heap that such a collection finds.
LEMMA BeginsGraph ==
  ASSUME BaseInv, intact, ClientInv, Begins, ~disturbed'
  PROVE  GraphInv'
  <1> DEFINE all == Reached(NumSlots + 1)
  <1>1. /\ unsafeStack' = FALSE /\ Collectable(FALSE)
        /\ made' = made /\ fresh = 0 /\ NumSlots \in Nat
    BY ClientAssumption DEF Begins, BeginScan
  <1>2. saved' = [mode |-> "safe", view |-> View, ids |-> {HeaderOf(a)[3] : a \in Reachable},
                  addrs |-> Reachable, collectable |-> Collectable(unsafeStack'),
                  stray |-> StrayOnStack, avail |-> Avail]
    BY <1>1 DEF Begins, BeginScan
  <1>3. NameInv /\ ReachInv /\ ViewInv
    BY <1>1, NameFacts, ReachFacts, ViewFacts DEF ClientInv
  <1>4. all \subseteq objs
    BY DEF Reached
  <1>5. \A o \in objs : HeaderOf(AddressOf(o))[3] = Id(o)
    BY DEF Id, Hd
  <1>6. Ids' = {Id(o) : o \in all}
    <2>1. Ids' = {HeaderOf(a)[3] : a \in Reachable}
      BY <1>2 DEF Ids
    <2>2. \A a : a \in Reachable <=> \E o \in all : a = AddressOf(o)
      BY <1>3 DEF ReachInv, Reachable, Reached
    <2>. QED
      BY <1>4, <1>5, <2>1, <2>2
  <1>7. Edges' = View.fields /\ \A s : Root(s)' = View.roots[s]
    BY <1>2 DEF Edges, Root
  <1>8. \A s \in Slots : Root(s)' = Name(stack[s])
    BY <1>3, <1>7 DEF ViewInv
  <1>9. \A e : e \in Edges' <=>
          \E o \in all : \E i \in DOMAIN PtrsIn(o) : e = <<Id(o), PtrsIn(o)[i], Name(Word(o, i))>>
    BY <1>3, <1>7 DEF ViewInv
  \* What an edge and a root stand for.
  <1>10. ASSUME NEW o \in all, NEW i \in DOMAIN PtrsIn(o)
         PROVE  \/ Word(o, i) = Nil /\ Name(Word(o, i)) = Nil
                \/ \E q \in all : Word(o, i) = Ptr(AddressOf(q)) /\ Name(Word(o, i)) = Object(Id(q))
    <2>1. Word(o, i) = Nil \/ \E q \in objs : Word(o, i) = Ptr(AddressOf(q))
      BY <1>1, <1>4 DEF ClientInv, FieldsInv, Initialised
    <2>2. \A q \in objs : Word(o, i) = Ptr(AddressOf(q)) => q \in all
      BY <1>3 DEF ReachInv
    <2>. QED
      BY <1>3, <1>4, <2>1, <2>2 DEF NameInv
  <1>11. ASSUME NEW s \in Slots
         PROVE  \/ stack[s] \in {Nil, Data} /\ Name(stack[s]) = stack[s]
                \/ \E q \in all : stack[s] = Ptr(AddressOf(q)) /\ Name(stack[s]) = Object(Id(q))
    <2>1. CASE IsPtr(stack[s])
      <3>1. ObjectAt(stack[s][2]) # {}
        BY <1>1, <2>1 DEF Collectable, StrayOnStack
      <3>2. HoldsObject(s)
        BY <2>1, <3>1 DEF HoldsObject
      <3>3. PICK q \in objs : stack[s] = Ptr(AddressOf(q))
        BY <3>2, HoldsFacts
      <3>4. NumSlots + 1 \in 1 .. (NumSlots + 1) /\ s \in 1 .. ((NumSlots + 1) - 1)
        BY <1>1 DEF Slots
      <3>5. q \in all
        BY <1>3, <3>3, <3>4 DEF ReachInv
      <3>. QED
        BY <1>3, <3>3, <3>5 DEF NameInv
    <2>2. CASE ~IsPtr(stack[s])
      BY <1>3, <2>2 DEF NameInv
    <2>. QED
      BY <2>1, <2>2
  <1> HIDE DEF all
  \* Two pointers to an object are one.
  <1>12. ASSUME NEW o \in all, NEW i \in DOMAIN PtrsIn(o), NEW q \in all, NEW j \in DOMAIN PtrsIn(q),
                NEW r \in all, Word(o, i) = Ptr(AddressOf(r)), Word(q, j) = Ptr(AddressOf(r))
         PROVE  o = q /\ i = j
    <2>1. /\ AddressOf(o) \in Reachable /\ AddressOf(q) \in Reachable /\ AddressOf(r) \in Reachable
      BY DEF all, Reached, Reachable
    <2>2. /\ FieldAt(o, i) \in Fields(AddressOf(o)) /\ FieldAt(q, j) \in Fields(AddressOf(q))
      BY FieldsFacts
    <2>3. FieldAt(o, i) \in Parents(AddressOf(r)) /\ FieldAt(q, j) \in Parents(AddressOf(r))
      BY <1>12, <2>1, <2>2 DEF Parents, Word
    <2>4. FieldAt(o, i) = FieldAt(q, j)
      BY <1>1, <2>1, <2>3 DEF Collectable
    <2>. QED
      BY <1>4, <2>4, Apart
  <1>13. \A o, q \in all : Id(o) = Id(q) => o = q
    BY <1>4 DEF BaseInv, HeadersInv
  \* What is reached from the first stack words is in every closed set of theirs.
  <1>14. ASSUME NEW s \in 1 .. (NumSlots + 1), NEW X, HasRoots(X, s)', Closed(X)', NEW o \in Reached(s)
         PROVE  o \in all /\ Id(o) \in X
    <2> DEFINE Y == {q \in all : Id(q) \in X}
    <2>1. \A t \in 1 .. (s - 1), q \in objs : stack[t] = Ptr(AddressOf(q)) => q \in Y
      <3>1. SUFFICES ASSUME NEW t \in 1 .. (s - 1), NEW q \in objs, stack[t] = Ptr(AddressOf(q))
                     PROVE  q \in Y
        OBVIOUS
      <3>2. t \in Slots /\ NumSlots + 1 \in 1 .. (NumSlots + 1) /\ t \in 1 .. ((NumSlots + 1) - 1)
        BY <1>1 DEF Slots
      <3>3. q \in all
        BY <1>3, <3>1, <3>2 DEF ReachInv, all
      <3>4. Root(t)' = Object(Id(q))
        BY <1>3, <1>8, <3>1, <3>2 DEF NameInv
      <3>5. Id(q) \in Ids'
        BY <1>6, <3>3
      <3>. QED
        BY <1>14, <3>3, <3>4, <3>5 DEF HasRoots
    <2>2. \A p \in Y, q \in objs : \A i \in DOMAIN PtrsIn(p) : Word(p, i) = Ptr(AddressOf(q)) => q \in Y
      <3>1. SUFFICES ASSUME NEW p \in Y, NEW q \in objs, NEW i \in DOMAIN PtrsIn(p),
                            Word(p, i) = Ptr(AddressOf(q))
                     PROVE  q \in Y
        OBVIOUS
      <3>2. q \in all
        BY <1>3, <3>1 DEF ReachInv, all
      <3>3. Name(Word(p, i)) = Object(Id(q)) /\ Id(q) \in Ids'
        BY <1>3, <1>4, <1>6, <3>1, <3>2 DEF NameInv
      <3> DEFINE e == <<Id(p), PtrsIn(p)[i], Name(Word(p, i))>>
      <3>4. e \in Edges' /\ e[1] \in X /\ e[3] = Object(Id(q))
        BY <1>9, <3>3
      <3>. QED
        BY <1>14, <3>2, <3>3, <3>4 DEF Closed
    <2>3. Reached(s) \subseteq Y
      BY <1>3, <1>4, <2>1, <2>2 DEF ReachInv
    <2>. QED
      BY <2>3
  <1>15. Ids' \subseteq 1 .. made'
    BY <1>1, <1>4, <1>6, ObjectFacts
  <1>16. Edges' \subseteq Ids' \X Nat \X ({Nil} \cup {Object(y) : y \in Ids'})
    <2>1. ASSUME NEW o \in all, NEW i \in DOMAIN PtrsIn(o)
          PROVE  <<Id(o), PtrsIn(o)[i], Name(Word(o, i))>> \in Ids' \X Nat \X ({Nil} \cup {Object(y) : y \in Ids'})
      <3>1. PtrsIn(o) \in Seq(Nat)
        BY <1>4, ObjectFacts
      <3>2. PtrsIn(o)[i] \in Nat
        BY <3>1
      <3>3. Id(o) \in Ids' /\ Name(Word(o, i)) \in {Nil} \cup {Object(y) : y \in Ids'}
        BY <1>6, <1>10
      <3>. QED
        BY <3>2, <3>3
    <2>. QED
      BY <1>9, <2>1
  <1>17. \A s \in Slots : Root(s)' \in {Nil, Data} \cup {Object(y) : y \in Ids'}
    BY <1>6, <1>8, <1>11
  <1>18. \A e, f \in Edges' : e[1] = f[1] /\ e[2] = f[2] => e[3] = f[3]
    <2>1. SUFFICES ASSUME NEW e \in Edges', NEW f \in Edges', e[1] = f[1], e[2] = f[2]
                   PROVE  e[3] = f[3]
      OBVIOUS
    <2>2. PICK o \in all : \E i \in DOMAIN PtrsIn(o) : e = <<Id(o), PtrsIn(o)[i], Name(Word(o, i))>>
      BY <1>9
    <2>3. PICK i \in DOMAIN PtrsIn(o) : e = <<Id(o), PtrsIn(o)[i], Name(Word(o, i))>>
      BY <2>2
    <2>4. PICK q \in all : \E j \in DOMAIN PtrsIn(q) : f = <<Id(q), PtrsIn(q)[j], Name(Word(q, j))>>
      BY <1>9
    <2>5. PICK j \in DOMAIN PtrsIn(q) : f = <<Id(q), PtrsIn(q)[j], Name(Word(q, j))>>
      BY <2>4
    <2>6. o = q /\ PtrsIn(o)[i] = PtrsIn(q)[j]
      BY <1>13, <2>1, <2>3, <2>5
    <2>7. PtrsIn(o) = Hd(o)[2].ptrs /\ Hd(o)[2] \in Kinds
      BY <1>4, ObjectFacts
    <2>8. i = j
      BY <2>6, <2>7, KindFacts
    <2>. QED
      BY <2>3, <2>5, <2>6, <2>8
  <1>19. \A e, f \in Edges' : e[3] = f[3] /\ e[3] # Nil => e[1] = f[1] /\ e[2] = f[2]
    <2>1. SUFFICES ASSUME NEW e \in Edges', NEW f \in Edges', e[3] = f[3], e[3] # Nil
                   PROVE  e[1] = f[1] /\ e[2] = f[2]
      OBVIOUS
    <2>2. PICK o \in all : \E i \in DOMAIN PtrsIn(o) : e = <<Id(o), PtrsIn(o)[i], Name(Word(o, i))>>
      BY <1>9
    <2>3. PICK i \in DOMAIN PtrsIn(o) : e = <<Id(o), PtrsIn(o)[i], Name(Word(o, i))>>
      BY <2>2
    <2>4. PICK q \in all : \E j \in DOMAIN PtrsIn(q) : f = <<Id(q), PtrsIn(q)[j], Name(Word(q, j))>>
      BY <1>9
    <2>5. PICK j \in DOMAIN PtrsIn(q) : f = <<Id(q), PtrsIn(q)[j], Name(Word(q, j))>>
      BY <2>4
    <2>6. PICK r \in all : Word(o, i) = Ptr(AddressOf(r)) /\ e[3] = Object(Id(r))
      BY <1>10, <2>1, <2>3
    <2>7. PICK u \in all : Word(q, j) = Ptr(AddressOf(u)) /\ f[3] = Object(Id(u))
      BY <1>10, <2>1, <2>5
    <2>8. r = u
      <3>1. Object(Id(r)) = Object(Id(u))
        BY <2>1, <2>6, <2>7
      <3>2. Id(r) = Id(u)
        BY <3>1, WordFacts
      <3>. QED
        BY <1>13, <3>2
    <2>9. o = q /\ i = j
      BY <1>12, <2>6, <2>7, <2>8
    <2>. QED
      BY <2>3, <2>5, <2>9
  <1>20. ASSUME NEW X \in SUBSET Ids', HasRoots(X, NumSlots + 1)', Closed(X)'
         PROVE  X = Ids'
    <2>1. NumSlots + 1 \in 1 .. (NumSlots + 1)
      BY <1>1
    <2>2. \A o \in all : Id(o) \in X
      BY <1>14, <1>20, <2>1 DEF all
    <2>. QED
      BY <1>6, <2>2
  <1>21. ASSUME NEW s \in Slots, NEW e \in Edges', Root(s)' = e[3], e[3] # Nil,
                NEW X \in SUBSET Ids', HasRoots(X, s)', Closed(X)'
         PROVE  e[1] \in X
    <2>1. PICK o \in all : \E i \in DOMAIN PtrsIn(o) : e = <<Id(o), PtrsIn(o)[i], Name(Word(o, i))>>
      BY <1>9
    <2>2. PICK i \in DOMAIN PtrsIn(o) : e = <<Id(o), PtrsIn(o)[i], Name(Word(o, i))>>
      BY <2>1
    <2>3. PICK r \in all : Word(o, i) = Ptr(AddressOf(r)) /\ e[3] = Object(Id(r))
      BY <1>10, <1>21, <2>2
    <2>4. PICK u \in all : stack[s] = Ptr(AddressOf(u)) /\ Root(s)' = Object(Id(u))
      BY <1>8, <1>11, <1>21, <2>3, WordFacts
    <2>5. r = u
      <3>1. Object(Id(r)) = Object(Id(u))
        BY <1>21, <2>3, <2>4
      <3>2. Id(r) = Id(u)
        BY <3>1, WordFacts
      <3>. QED
        BY <1>13, <3>2
    <2>6. IsPtr(stack[s]) /\ stack[s][2] = AddressOf(r)
      BY <2>4, <2>5, WordFacts
    <2>7. FieldAt(o, i) \in Parents(AddressOf(r))
      BY <2>3, FieldsFacts DEF Parents, Word, all, Reached, Reachable
    <2>8. PICK a \in Reach(RootsBefore(s)) : AddressOf(r) \in Children(a)
      BY <1>1, <2>6, <2>7 DEF Collectable
    <2>9. PICK q \in Reached(s) : a = AddressOf(q)
      BY <1>3 DEF ReachInv
    <2>10. s \in 1 .. (NumSlots + 1)
      BY <1>1 DEF Slots
    <2>11. q \in all /\ Id(q) \in X
      BY <1>14, <1>21, <2>10
    <2>12. PICK j \in DOMAIN PtrsIn(q) : Word(q, j) = Ptr(AddressOf(r))
      BY <1>3, <1>4, <2>8, <2>9, <2>11 DEF ReachInv
    <2>13. o = q
      BY <1>12, <2>3, <2>11, <2>12
    <2>. QED
      BY <2>2, <2>11, <2>13
  <1>22. saved'.mode = "safe"
    BY <1>2
  <1>23. saved'.view = [roots |-> [s \in Slots |-> Root(s)'], fields |-> Edges']
    <2>1. saved'.view = View
      BY <1>2
    <2>2. View = [roots |-> [s \in Slots |-> Name(stack[s])], fields |-> View.fields]
      BY <1>3 DEF ViewInv
    <2>3. [s \in Slots |-> Name(stack[s])] = [s \in Slots |-> Root(s)']
      BY <1>8
    <2>. QED
      BY <1>7, <2>1, <2>2, <2>3
  <1>. QED
    BY <1>15, <1>16, <1>17, <1>18, <1>19, <1>20, <1>21, <1>22, <1>23 DEF GraphInv

LEMMA BeginsKeeps ==
  ASSUME BaseInv, intact, ClientInv, Begins, ~disturbed', Q!IInv', Q!MarksInv'
  PROVE  BaseInv' /\ TraceInv'
  <1> DEFINE all == Reached(NumSlots + 1)
  <1>1. /\ unsafeStack' = FALSE /\ frames = <<>>
        /\ gcs < MaxGcs /\ gcs' = gcs + 1 /\ next' = 1
        /\ UNCHANGED <<mem, stack, frames, origin, fresh, made>>
        /\ pc' = "trace" /\ UNCHANGED <<active, unsafe, objs>>
        /\ fresh = 0 /\ pc = "client"
    BY DEF Begins, BeginScan, ClientInv
  <1>2. GraphInv'
    BY BeginsGraph
  <1>3. NameInv /\ ReachInv /\ ViewInv
    BY <1>1, NameFacts, ReachFacts, ViewFacts DEF ClientInv
  <1>4. /\ Ids' = {HeaderOf(a)[3] : a \in Reachable} /\ Edges' = View.fields
        /\ \A s : Root(s)' = View.roots[s]
    BY DEF Begins, BeginScan, Ids, Edges, Root
  <1>5. Ids' = {Id(o) : o \in all}
    <2>1. \A a : a \in Reachable <=> \E o \in all : a = AddressOf(o)
      BY <1>3 DEF ReachInv, Reachable, Reached
    <2>2. \A o \in all : HeaderOf(AddressOf(o))[3] = Id(o)
      BY DEF Id, Hd
    <2>. QED
      BY <1>4, <2>1, <2>2
  <1>6. /\ \A s \in Slots : Root(s)' = Name(stack[s])
        /\ \A e : e \in Edges' <=>
             \E o \in all : \E i \in DOMAIN PtrsIn(o) : e = <<Id(o), PtrsIn(o)[i], Name(Word(o, i))>>
    BY <1>3, <1>4 DEF ViewInv
  <1>7. all \subseteq objs /\ \A o, q \in objs : Id(o) = Id(q) => o = q
    BY DEF Reached, BaseInv, HeadersInv
  <1>8. /\ Copies' = {} /\ Originals' = objs
        /\ \A o : Hd(o)' = Hd(o) /\ Id(o)' = Id(o) /\ PtrsIn(o)' = PtrsIn(o)
        /\ \A o, i : Word(o, i)' = Word(o, i)
    <2>1. \A o \in objs : o.page \in active
      BY <1>1, AllActive
    <2>2. \A o : Hd(o)' = Hd(o) /\ Id(o)' = Id(o) /\ PtrsIn(o)' = PtrsIn(o)
      BY <1>1 DEF Hd, Id, PtrsIn, HeaderOf
    <2>3. \A o, i : Word(o, i)' = Word(o, i)
      BY <1>1, <2>2 DEF Word, FieldAt
    <2>. QED
      BY <1>1, <2>1, <2>2, <2>3 DEF Copies, Originals
  <1>9. TypeInv'
    <2>1. gcs' \in 0 .. MaxGcs /\ next' \in 1 .. (NumSlots + 1)
      BY <1>1, ClientAssumption DEF BaseInv, TypeInv, TypeOK
    <2>. QED
      BY <1>1, <2>1 DEF BaseInv, TypeInv, TypeOK
  <1>10. BaseInv'
    <2>1. HeadersInv'
      BY <1>1, <1>8 DEF BaseInv, HeadersInv
    <2>2. WantInv'
      BY <1>1 DEF Begins, WantInv
    <2>. QED
      BY <1>1, <1>9, <2>1, <2>2 DEF BaseInv
  <1>11. RootsInv'
    <2>1. ASSUME NEW s \in Slots
          PROVE  /\ ~(s < 1)
                 /\ Root(s)' \in {Nil, Data} => stack[s] = Root(s)'
                 /\ \A y \in Ids' : Root(s)' = Object(y) => ToOld(stack[s], y)'
      <3>1. ~(s < 1)
        BY DEF Slots
      <3>2. CASE IsPtr(stack[s])
        <4>1. Collectable(FALSE)
          BY <1>1 DEF Begins, BeginScan
        <4>2. HoldsObject(s)
          BY <3>2, <4>1 DEF HoldsObject, Collectable, StrayOnStack
        <4>3. PICK o \in objs : stack[s] = Ptr(AddressOf(o))
          BY <4>2, HoldsFacts
        <4>4. Root(s)' = Object(Id(o))
          BY <1>3, <1>6, <4>3 DEF NameInv
        <4>5. ASSUME NEW y, Root(s)' = Object(y)
              PROVE  ToOriginal(stack[s], y)'
          <5>1. y = Id(o)
            BY <4>4, <4>5, WordFacts
          <5>. QED
            BY <1>1, <1>8, <4>3, <5>1 DEF ToOriginal
        <4>6. ~(Root(s)' \in {Nil, Data})
          BY <4>4, WordFacts
        <4>. QED
          BY <3>1, <4>5, <4>6 DEF ToOld
      <3>3. CASE ~IsPtr(stack[s])
        <4>1. stack[s] \in {Nil, Data} /\ Root(s)' = stack[s]
          BY <1>3, <1>6, <3>3 DEF NameInv
        <4>. QED
          BY <3>1, <4>1, WordFacts
      <3>. QED
        BY <3>2, <3>3
    <2>. QED
      BY <1>1, <2>1 DEF RootsInv
  <1>12. EdgesInv'
    <2>1. ASSUME NEW e \in Edges'
          PROVE  \E o \in objs : \E i \in DOMAIN PtrsIn(o) : Id(o) = e[1] /\ PtrsIn(o)[i] = e[2]
      BY <1>6, <1>7
    <2>2. ASSUME NEW x \in Ids'
          PROVE  \E o \in objs : Id(o) = x
      BY <1>5, <1>7
    <2>. QED
      BY <1>1, <1>8, <2>1, <2>2 DEF EdgesInv
  <1>13. TracedInv'
    <2>1. ASSUME NEW o \in objs, Id(o) \in Ids', NEW i \in DOMAIN PtrsIn(o)
          PROVE  \E e \in Edges' :
                   /\ e[1] = Id(o) /\ e[2] = PtrsIn(o)[i]
                   /\ e[3] = Nil => Word(o, i) = Nil
                   /\ \A y \in Ids' : e[3] = Object(y) => FieldTraced(o, i, y)'
      <3> DEFINE e == <<Id(o), PtrsIn(o)[i], Name(Word(o, i))>>
      <3>1. o \in all
        BY <1>5, <1>7, <2>1
      <3>2. e \in Edges' /\ e[1] = Id(o) /\ e[2] = PtrsIn(o)[i] /\ e[3] = Name(Word(o, i))
        BY <1>6, <3>1
      <3>3. Word(o, i) = Nil \/ \E q \in objs : Word(o, i) = Ptr(AddressOf(q))
        BY <1>1 DEF ClientInv, FieldsInv, Initialised
      <3>4. CASE Word(o, i) = Nil
        <4>1. e[3] = Nil
          BY <1>3, <3>2, <3>4 DEF NameInv
        <4>. QED
          BY <3>2, <3>4, <4>1, WordFacts
      <3>5. CASE \E q \in objs : Word(o, i) = Ptr(AddressOf(q))
        <4>1. PICK q \in objs : Word(o, i) = Ptr(AddressOf(q))
          BY <3>5
        <4>2. e[3] = Object(Id(q))
          BY <1>3, <3>2, <4>1 DEF NameInv
        <4>3. ASSUME NEW y, e[3] = Object(y)
              PROVE  FieldTraced(o, i, y)'
          <5>1. y = Id(q)
            BY <4>2, <4>3, WordFacts
          <5>2. ToOriginal(Word(o, i), y)'
            BY <1>8, <4>1, <5>1 DEF ToOriginal
          <5>. QED
            BY <1>8, <5>2 DEF FieldTraced, ToOld
        <4>4. e[3] # Nil
          BY <4>2, WordFacts
        <4> HIDE DEF e
        <4>. QED
          BY <3>2, <4>3, <4>4
      <3>. QED
        BY <3>3, <3>4, <3>5
    <2>. QED
      BY <1>1, <1>8, <2>1 DEF TracedInv
  <1>14. ParentsInv' /\ FramesInv' /\ OriginInv'
    BY <1>1, <1>8 DEF ParentsInv, FramesInv, OriginInv
  <1>. QED
    BY <1>1, <1>2, <1>10, <1>11, <1>12, <1>13, <1>14 DEF TraceInv

-----------------------------------------------------------------------------
(* The end of a collection.                                                *)

\* When all roots are scanned and no call is in progress, the copies are the
\* heap that was found: the roots point to them, and their fields are its edges.
SameEdge(e, t, i) ==
  /\ e[1] = Id(t) /\ e[2] = PtrsIn(t)[i]
  /\ \/ e[3] = Nil /\ Word(t, i) = Nil
     \/ \E q \in Copies : Word(t, i) = Ptr(AddressOf(q)) /\ e[3] = Object(Id(q))
LEMMA TraceEnds ==
  ASSUME BaseInv, intact, TraceInv, frames = <<>>, next > NumSlots
  PROVE  /\ \A t \in Copies : \A i \in DOMAIN PtrsIn(t) : \E e \in Edges : SameEdge(e, t, i)
         /\ \A e \in Edges, t \in Copies : Id(t) = e[1] =>
              \E i \in DOMAIN PtrsIn(t) : PtrsIn(t)[i] = e[2]
         /\ \A s \in Slots :
              \/ stack[s] \in {Nil, Data} /\ Root(s) = stack[s]
              \/ \E t \in Copies : stack[s] = Ptr(AddressOf(t)) /\ Root(s) = Object(Id(t))
  <1>1. ASSUME NEW t \in Copies, NEW i \in DOMAIN PtrsIn(t)
        PROVE  \E e \in Edges : SameEdge(e, t, i)
    <2>1. t \in objs /\ Id(t) \in Ids /\ t \notin Originals
      BY DEF TraceInv, EdgesInv, Copies, Originals
    <2>2. PICK e \in Edges :
            /\ e[1] = Id(t) /\ e[2] = PtrsIn(t)[i]
            /\ e[3] = Nil => Word(t, i) = Nil
            /\ \A y \in Ids : e[3] = Object(y) => FieldTraced(t, i, y)
      BY <2>1 DEF TraceInv, TracedInv
    <2>3. ~Pending(t, i)
      BY DEF Pending
    <2>4. e[3] = Nil \/ \E y \in Ids : e[3] = Object(y)
      BY DEF TraceInv, GraphInv
    <2>5. ASSUME NEW y \in Ids, e[3] = Object(y)
          PROVE  ToCopy(Word(t, i), y)
      BY <2>1, <2>2, <2>3, <2>5 DEF FieldTraced
    <2>. QED
      BY <2>2, <2>4, <2>5 DEF ToCopy, SameEdge
  <1>2. ASSUME NEW e \in Edges, NEW t \in Copies, Id(t) = e[1]
        PROVE  \E i \in DOMAIN PtrsIn(t) : PtrsIn(t)[i] = e[2]
    <2>1. PICK o \in objs : \E i \in DOMAIN PtrsIn(o) : Id(o) = e[1] /\ PtrsIn(o)[i] = e[2]
      BY DEF TraceInv, EdgesInv
    <2>2. o = t
      BY <1>2, <2>1 DEF Copies, BaseInv, HeadersInv
    <2>. QED
      BY <2>1, <2>2
  <1>3. ASSUME NEW s \in Slots
        PROVE  \/ stack[s] \in {Nil, Data} /\ Root(s) = stack[s]
               \/ \E t \in Copies : stack[s] = Ptr(AddressOf(t)) /\ Root(s) = Object(Id(t))
    <2>1. Root(s) \in {Nil, Data} \/ \E y \in Ids : Root(s) = Object(y)
      BY DEF TraceInv, GraphInv
    <2>2. s < next
      BY ClientAssumption DEF Slots, BaseInv, TypeInv, TypeOK
    <2>3. ASSUME NEW y \in Ids, Root(s) = Object(y)
          PROVE  ToCopy(stack[s], y)
      BY <2>2, <2>3 DEF TraceInv, RootsInv
    <2>. QED
      BY <2>1, <2>3 DEF TraceInv, RootsInv, ToCopy
  <1>. QED
    BY <1>1, <1>2, <1>3

\* A sweep frees every page that was active.
LEMMA SweepEffect ==
  ASSUME BaseInv, intact, TraceInv, Sweep
  PROVE  /\ objs' = Copies
         /\ \A p \in Q!PageIds : ~unsafe'[p]
         /\ pc = "trace" /\ pc' = IF req = 0 THEN "client" ELSE "place"
         /\ req' = req /\ intact' = intact /\ next' = 1 /\ frames = <<>> /\ next > NumSlots
         /\ UNCHANGED <<mem, stack, unsafeStack, want, frames, fresh, made, gcs, disturbed, saved>>
         /\ \A q : Hd(q)' = Hd(q) /\ Id(q)' = Id(q) /\ PtrsIn(q)' = PtrsIn(q)
         /\ \A q, i : Word(q, i)' = Word(q, i)
  <1>1. /\ frames = <<>> /\ next > NumSlots /\ next' = 1
        /\ UNCHANGED <<mem, stack, unsafeStack, want, frames, fresh, made, gcs, disturbed, saved>>
    BY DEF Sweep
  <1>2. Q!Sweep
    BY SameActions DEF Sweep
  <1>3. /\ \A p \in Q!PageIds : ~unsafe[p]
        /\ active \subseteq Q!PageIds
    BY DEF BaseInv, Q!IInv, Q!TypeOK
  <1>4. Q!Freed = active
    BY <1>3 DEF Q!Freed
  <1>5. objs' = Copies
    BY <1>2, <1>4 DEF Q!Sweep, Copies
  <1>6. \A p \in Q!PageIds : ~unsafe'[p]
    BY <1>2, <1>3 DEF Q!Sweep
  <1>7. \A q : Hd(q)' = Hd(q) /\ Id(q)' = Id(q) /\ PtrsIn(q)' = PtrsIn(q)
    BY <1>1 DEF Hd, Id, PtrsIn, HeaderOf
  <1>8. \A q, i : Word(q, i)' = Word(q, i)
    BY <1>1, <1>7 DEF Word, FieldAt
  <1>. QED
    BY <1>1, <1>2, <1>5, <1>6, <1>7, <1>8 DEF Q!Sweep

LEMMA SweepKeepsBase ==
  ASSUME BaseInv, intact, TraceInv, Sweep, Q!IInv', Q!MarksInv'
  PROVE  BaseInv' /\ FieldsInv'
  <1>1. /\ objs' = Copies /\ Copies \subseteq objs
        /\ \A p \in Q!PageIds : ~unsafe'[p]
        /\ pc = "trace" /\ pc' \in {"client", "place"} /\ req' = req /\ next' = 1
        /\ UNCHANGED <<mem, stack, unsafeStack, want, frames, fresh, made, gcs>>
    BY SweepEffect DEF Copies
  <1>2. \A q : Hd(q)' = Hd(q) /\ Id(q)' = Id(q) /\ PtrsIn(q)' = PtrsIn(q)
    BY SweepEffect
  <1>3. \A q, i : Word(q, i)' = Word(q, i)
    BY SweepEffect
  <1>4. TypeInv'
    <2>1. next' \in 1 .. (NumSlots + 1)
      BY <1>1, ClientAssumption
    <2>. QED
      BY <1>1, <2>1 DEF BaseInv, TypeInv, TypeOK
  <1>5. HeadersInv'
    BY <1>1, <1>2 DEF BaseInv, HeadersInv
  <1>6. WantInv'
    BY <1>1 DEF BaseInv, WantInv
  <1>7. FieldsInv'
    <2>1. \A t \in Copies : \A i \in DOMAIN PtrsIn(t) :
            Word(t, i) = Nil \/ \E q \in Copies : Word(t, i) = Ptr(AddressOf(q))
      BY TraceEnds, SweepEffect DEF SameEdge
    <2>. QED
      BY <1>1, <1>2, <1>3, <2>1 DEF FieldsInv
  <1>. QED
    BY <1>1, <1>4, <1>5, <1>6, <1>7 DEF BaseInv

\* And the client sees what it saw before.
LEMMA SweepView ==
  ASSUME BaseInv, intact, TraceInv, Sweep, BaseInv', FieldsInv'
  PROVE  View' = saved.view /\ {Id(o) : o \in Copies} = Ids
  <1>1. /\ objs' = Copies /\ Copies \subseteq objs
        /\ fresh' = 0 /\ stack' = stack /\ saved' = saved /\ intact'
        /\ \A q : Hd(q)' = Hd(q) /\ Id(q)' = Id(q) /\ PtrsIn(q)' = PtrsIn(q)
        /\ \A q, i : Word(q, i)' = Word(q, i)
    <2>1. \A q : Hd(q)' = Hd(q) /\ Id(q)' = Id(q) /\ PtrsIn(q)' = PtrsIn(q)
      BY SweepEffect
    <2>2. \A q, i : Word(q, i)' = Word(q, i)
      BY SweepEffect
    <2>3. objs' = Copies /\ fresh' = fresh /\ stack' = stack /\ saved' = saved /\ intact' = intact
      BY SweepEffect
    <2>. QED
      BY <2>1, <2>2, <2>3 DEF TraceInv, Copies
  <1>2. NameInv'
    BY <1>1, NameFacts, PTL
  <1>3. ReachInv'
    <2>1. (BaseInv /\ intact /\ FieldsInv /\ fresh = 0)'
      BY <1>1
    <2>. QED
      BY <2>1, ReachFacts, PTL
  <1>4. ViewInv'
    <2>1. (BaseInv /\ intact /\ FieldsInv /\ fresh = 0)'
      BY <1>1
    <2>. QED
      BY <2>1, ViewFacts, PTL
  <1>5. /\ \A t \in Copies : \A i \in DOMAIN PtrsIn(t) : \E e \in Edges : SameEdge(e, t, i)
        /\ \A e \in Edges, t \in Copies : Id(t) = e[1] => \E i \in DOMAIN PtrsIn(t) : PtrsIn(t)[i] = e[2]
        /\ \A s \in Slots :
             \/ stack[s] \in {Nil, Data} /\ Root(s) = stack[s]
             \/ \E t \in Copies : stack[s] = Ptr(AddressOf(t)) /\ Root(s) = Object(Id(t))
    BY TraceEnds, SweepEffect
  <1>6. PICK R : R = Reached(NumSlots + 1)'
    OBVIOUS
  <1>7. R \subseteq Copies
    BY <1>1, <1>6 DEF Reached
  <1>8. \A t \in Slots, q \in Copies : stack[t] = Ptr(AddressOf(q)) => q \in R
    <2>1. \A t \in Slots : t \in 1 .. ((NumSlots + 1) - 1) /\ NumSlots + 1 \in 1 .. (NumSlots + 1)
      BY ClientAssumption DEF Slots
    <2>. QED
      BY <1>1, <1>3, <1>6, <2>1 DEF ReachInv
  <1>9. \A o \in R, q \in Copies : \A i \in DOMAIN PtrsIn(o) : Word(o, i) = Ptr(AddressOf(q)) => q \in R
    BY <1>1, <1>3, <1>6 DEF ReachInv
  <1>10. \A o, q \in objs : Id(o) = Id(q) => o = q
    BY DEF BaseInv, HeadersInv
  <1> DEFINE X == {Id(t) : t \in R}
  <1>11. X \subseteq Ids /\ \A t \in Copies : Id(t) \in Ids
    BY <1>7 DEF TraceInv, EdgesInv
  <1>12. HasRoots(X, NumSlots + 1)
    <2>1. SUFFICES ASSUME NEW t \in Slots, NEW y \in Ids, Root(t) = Object(y)
                   PROVE  y \in X
      BY ClientAssumption DEF HasRoots, Slots
    <2>2. ~(stack[t] \in {Nil, Data} /\ Root(t) = stack[t])
      BY <2>1, WordFacts
    <2>3. PICK q \in Copies : stack[t] = Ptr(AddressOf(q)) /\ Root(t) = Object(Id(q))
      BY <1>5, <2>2
    <2>4. y = Id(q)
      BY <2>1, <2>3, WordFacts
    <2>. QED
      BY <1>8, <2>3, <2>4
  <1>13. Closed(X)
    <2>1. SUFFICES ASSUME NEW e \in Edges, NEW y \in Ids, e[1] \in X, e[3] = Object(y)
                   PROVE  y \in X
      BY DEF Closed
    <2>2. PICK o \in R : e[1] = Id(o)
      BY <2>1
    <2>3. PICK i \in DOMAIN PtrsIn(o) : PtrsIn(o)[i] = e[2]
      BY <1>5, <1>7, <2>2
    <2>4. PICK f \in Edges : SameEdge(f, o, i)
      BY <1>5, <1>7
    <2>5. e[3] = f[3]
      BY <2>2, <2>3, <2>4 DEF SameEdge, TraceInv, GraphInv
    <2>6. f[3] # Nil
      BY <2>1, <2>5, WordFacts
    <2>7. PICK q \in Copies : Word(o, i) = Ptr(AddressOf(q)) /\ f[3] = Object(Id(q))
      BY <2>4, <2>6 DEF SameEdge
    <2>8. y = Id(q)
      <3>1. Object(y) = Object(Id(q))
        BY <2>1, <2>5, <2>7
      <3>. QED
        BY <3>1, WordFacts
    <2>. QED
      BY <1>9, <2>7, <2>8
  <1>14. X = Ids
    BY <1>11, <1>12, <1>13 DEF TraceInv, GraphInv
  <1>15. R = Copies
    BY <1>7, <1>10, <1>11, <1>14 DEF Copies
  <1>16. \A s \in Slots : Name(stack[s])' = Root(s)
    BY <1>1, <1>2, <1>5 DEF NameInv
  <1>17. ASSUME NEW t \in Copies, NEW i \in DOMAIN PtrsIn(t), NEW e \in Edges, SameEdge(e, t, i)
         PROVE  e = <<Id(t), PtrsIn(t)[i], Name(Word(t, i))'>>
    <2>1. e[3] = Name(Word(t, i))'
      BY <1>1, <1>2, <1>17 DEF NameInv, SameEdge
    <2>2. e = <<e[1], e[2], e[3]>>
      BY DEF TraceInv, GraphInv
    <2>. QED
      BY <1>17, <2>1, <2>2 DEF SameEdge
  <1>18. ASSUME NEW e
         PROVE  e \in View'.fields <=> e \in Edges
    <2>1. e \in View'.fields <=>
            \E t \in R : \E i \in DOMAIN PtrsIn(t) : e = <<Id(t), PtrsIn(t)[i], Name(Word(t, i))'>>
      BY <1>1, <1>4, <1>6 DEF ViewInv
    <2>2. ASSUME NEW t \in R, NEW i \in DOMAIN PtrsIn(t), e = <<Id(t), PtrsIn(t)[i], Name(Word(t, i))'>>
          PROVE  e \in Edges
      BY <1>5, <1>7, <1>17, <2>2
    <2>3. ASSUME e \in Edges
          PROVE  \E t \in R : \E i \in DOMAIN PtrsIn(t) : e = <<Id(t), PtrsIn(t)[i], Name(Word(t, i))'>>
      <3>1. e[1] \in Ids
        BY <2>3 DEF TraceInv, GraphInv
      <3>2. PICK t \in R : Id(t) = e[1]
        BY <1>14, <3>1
      <3>3. PICK i \in DOMAIN PtrsIn(t) : PtrsIn(t)[i] = e[2]
        BY <1>5, <1>7, <2>3, <3>2
      <3>4. PICK f \in Edges : SameEdge(f, t, i)
        BY <1>5, <1>7
      <3>5. e[3] = f[3] /\ e[1] = f[1] /\ e[2] = f[2]
        BY <2>3, <3>2, <3>3, <3>4 DEF SameEdge, TraceInv, GraphInv
      <3>6. e = <<e[1], e[2], e[3]>> /\ f = <<f[1], f[2], f[3]>>
        BY <2>3 DEF TraceInv, GraphInv
      <3>7. e = f
        BY <3>5, <3>6
      <3>. QED
        BY <1>7, <1>17, <3>4, <3>7
    <2>. QED
      BY <2>1, <2>2, <2>3
  <1>19. \A e : e \in View'.fields <=> e \in Edges
    BY <1>18
  <1>20. View' = [roots |-> [s \in Slots |-> Name(stack[s])'], fields |-> View'.fields]
    BY <1>4 DEF ViewInv
  <1>21. saved.view = [roots |-> [s \in Slots |-> Root(s)], fields |-> Edges]
    BY DEF TraceInv, GraphInv
  <1>22. [s \in Slots |-> Name(stack[s])'] = [s \in Slots |-> Root(s)]
    BY <1>16
  <1>23. {Id(o) : o \in Copies} = Ids
    BY <1>14, <1>15
  <1>24. PICK fs : fs = View'.fields
    OBVIOUS
  <1>25. \A e : e \in fs <=> e \in Edges
    BY <1>19, <1>24
  <1>26. fs = Edges
    BY <1>25
  <1>27. View' = [roots |-> [s \in Slots |-> Root(s)], fields |-> Edges]
    BY <1>20, <1>22, <1>24, <1>26
  <1>. QED
    BY <1>21, <1>23, <1>27

LEMMA SweepKeeps ==
  ASSUME BaseInv, intact, TraceInv, Sweep, Q!IInv', Q!MarksInv'
  PROVE  BaseInv' /\ ClientInv' /\ pc' \in {"client", "place"}
  <1>1. BaseInv' /\ FieldsInv'
    BY SweepKeepsBase
  <1>2. View' = saved.view /\ {Id(o) : o \in Copies} = Ids
    BY <1>1, SweepView
  <1>3. /\ objs' = Copies /\ frames' = <<>> /\ fresh' = 0 /\ saved' = saved
        /\ pc' \in {"client", "place"}
    BY SweepEffect DEF TraceInv
  <1>4. \A q : Id(q)' = Id(q)
    BY SweepEffect
  <1>5. saved.mode = "safe"
    BY DEF TraceInv, GraphInv
  <1>. QED
    BY <1>1, <1>2, <1>3, <1>4, <1>5 DEF ClientInv, Ids

-----------------------------------------------------------------------------
(* Every step.                                                             *)

\* The page map and the history are not repaired.
LEMMA SaneBefore ==
  ASSUME [Next]_vars, Sane'
  PROVE  Sane
  <1>1. disturbed' = disturbed \/ (BeginScan /\ disturbed' = (disturbed \/ unsafeStack' \/ ~Collectable(unsafeStack')))
    BY DEF Next, Client, Collect, Alloc, Placed, AllocCollects, FinishAlloc, AllocStops, Initialise,
       ClientOnly, HGc, BeginScan, Push, Load, Store, HDeleteDbg, ScanSkips, ScanVisits, ScanStops,
       ChildSkipped, ChildVisited, ChildStops, ChildrenDone, Sweep, vars
  <1>2. ASSUME NEW n, P!ActivateAndPlace(n)
        PROVE  intact
    BY <1>2 DEF P!ActivateAndPlace, P!Place, Sane
  <1>3. ASSUME NEW n, P!AllocInActivePage(n)
        PROVE  intact
    BY <1>3 DEF P!AllocInActivePage, P!Place, Sane
  <1>4. ASSUME NEW o, NEW n, P!Copy(o, n)
        PROVE  intact
    BY <1>4 DEF P!Copy, Sane
  <1>5. ASSUME NEW n, P!AllocInNewPage(n) \/ P!FinishAlloc
        PROVE  intact
    BY <1>2, <1>5 DEF P!AllocInNewPage, P!FinishAlloc
  <1>6. ASSUME \/ P!FinishStops \/ P!HDelete \/ P!HGc \/ P!TraceStops \/ P!Sweep
               \/ \E n : P!AllocCollects(n) \/ P!AllocStops(n) \/ P!CopyFails(n)
               \/ \E o : P!Pin(o)
               \/ UNCHANGED pageVars
        PROVE  intact
    BY <1>6 DEF P!FinishStops, P!HDelete, P!HGc, P!TraceStops, P!Sweep, P!AllocCollects, P!AllocStops,
       P!CopyFails, P!Pin, P!StartTrace, P!Stop, pageVars, Sane
  <1>7. ASSUME NEW fs, Written(fs)
        PROVE  intact
    BY <1>6, <1>7, WrittenIntact DEF Sane
  <1>8. ASSUME NEW loc, NEW a, NEW calls, VisitSafe(loc, a, calls)
        PROVE  intact
    BY <1>4, <1>6, <1>8 DEF VisitSafe, VisitForwarded, VisitCopies
  <1>9. ASSUME NEW s, NEW a, VisitUnsafe(s, a)
        PROVE  intact
    BY <1>6, <1>9 DEF VisitUnsafe, VisitForwarded
  <1>10. ASSUME NEW a, VisitSafeStops(a)
         PROVE  intact
    BY <1>6, <1>10 DEF VisitSafeStops
  <1>11. Client => intact
    BY <1>3, <1>5, <1>6, <1>7 DEF Client, Alloc, AllocCollects, FinishAlloc, AllocStops, Initialise,
       HGc, Push, Load, Store, HDeleteDbg
  <1>12. Collect => intact
    BY <1>6, <1>8, <1>9, <1>10 DEF Collect, ScanSkips, ScanVisits, ScanStops, ChildSkipped, ChildVisited,
       ChildStops, ChildrenDone, Sweep
  <1>13. UNCHANGED vars => intact
    BY <1>6 DEF vars, pageVars
  <1>14. intact
    BY <1>11, <1>12, <1>13 DEF Next
  <1>15. ~disturbed' => ~disturbed
    BY <1>1, Zenon
  <1>. QED
    BY <1>14, <1>15 DEF Sane

\* A step that changes nothing.
LEMMA StutterKeeps ==
  ASSUME IInv, Sane, Q!IInv', Q!MarksInv', UNCHANGED vars
  PROVE  IInv'
  <1>1. /\ UNCHANGED <<pageVars, mem, stack, unsafeStack, want, next, frames, origin, fresh, made, gcs, saved>>
        /\ UNCHANGED <<pageVars, mem>> /\ pc' = pc /\ objs' = objs /\ intact
    BY DEF vars, traceVars, pageVars, Sane
  <1>2. BaseInv
    BY DEF IInv
  <1>3. TypeInv'
    BY <1>1, <1>2 DEF BaseInv, TypeInv, TypeOK
  <1>4. BaseInv'
    BY <1>1, <1>2, <1>3, SamePagesBase
  <1>5. /\ \A a : HeaderOf(a)' = HeaderOf(a)
        /\ \A q : Hd(q)' = Hd(q) /\ Id(q)' = Id(q) /\ PtrsIn(q)' = PtrsIn(q)
        /\ \A q, i : Word(q, i)' = Word(q, i)
    BY <1>1, SameWords
  <1>6. Copies' = Copies /\ Headed' = Headed
    BY <1>1, SameWords
  <1>7. ASSUME TraceInv
        PROVE  TraceInv'
    <2>1. RootsInv'
      <3>1. \A w, y : (ToCopy(w, y)' <=> ToCopy(w, y)) /\ (ToOld(w, y)' <=> ToOld(w, y))
        BY <1>1, SameWords
      <3>2. Ids' = Ids /\ \A s : Root(s)' = Root(s)
        BY <1>1 DEF Ids, Root
      <3>. QED
        BY <1>1, <1>7, <3>1, <3>2 DEF TraceInv, RootsInv
    <2>2. FramesInv'
      BY <1>1, <1>5, <1>6, <1>7 DEF TraceInv, FramesInv
    <2>3. OriginInv'
      BY <1>1, <1>5, <1>6, <1>7 DEF TraceInv, OriginInv
    <2>4. \A o, i : Pending(o, i)' <=> Pending(o, i)
      BY <1>1 DEF Pending
    <2>. QED
      BY <1>1, <1>2, <1>7, <2>1, <2>2, <2>3, <2>4, QuietStep
  <1>8. View' = View
    <2>1. /\ \A a : ObjectAt(a)' = ObjectAt(a) /\ PtrsOf(a)' = PtrsOf(a)
          /\ \A a : Fields(a)' = Fields(a) /\ ObjectAddrs' = ObjectAddrs
      BY <1>1, <1>5 DEF ObjectAt, PtrsOf, Fields, ObjectAddrs
    <2>2. \A w : Name(w)' = Name(w)
      BY <1>5, <2>1 DEF Name
    <2>3. \A W : Targets(W)' = Targets(W)
      BY <2>1 DEF Targets
    <2>4. \A a : Children(a)' = Children(a)
      BY <1>1, <2>1 DEF Children, Targets
    <2>5. Reachable' = Reachable
      <3>1. RootsBefore(NumSlots + 1)' = RootsBefore(NumSlots + 1)
        BY <1>1, <2>1 DEF RootsBefore, Targets
      <3>2. \A A : Reach(A)' = Reach(A)
        BY <2>1, <2>4 DEF Reach
      <3>. QED
        BY <3>1, <3>2 DEF Reachable
    <2>. QED
      BY <1>1, <1>5, <2>1, <2>2, <2>5 DEF View
  <1>9. ASSUME ClientInv
        PROVE  ClientInv'
    BY <1>1, <1>5, <1>8, <1>9 DEF ClientInv, FieldsInv, Initialised
  <1>10. ASSUME NEW s \in Slots, ~HoldsObject(s)
         PROVE  ~HoldsObject(s)'
    BY <1>1, <1>10 DEF HoldsObject, ObjectAt
  <1>. QED
    BY <1>1, <1>4, <1>7, <1>9, <1>10 DEF IInv

\* A step of the client or of a call that it has made.
LEMMA ClientStep ==
  ASSUME IInv, Sane, Sane', Q!IInv', Q!MarksInv', Client
  PROVE  IInv'
  <1>1. BaseInv /\ intact /\ intact' /\ ~disturbed'
    BY DEF IInv, Sane
  <1>2. pc \in {"client", "place"} => ClientInv
    BY DEF IInv, Sane
  <1>3. ASSUME NEW k \in Kinds, NEW s \in Slots, Alloc(k, s)
        PROVE  IInv'
    <2>1. /\ made < MaxMade /\ fresh = 0 /\ Placed(k, s) /\ pc = "client"
          /\ P!AllocInActivePage(k.size) \/ P!AllocInNewPage(k.size)
      BY <1>3 DEF Alloc, P!AllocInActivePage, P!AllocInNewPage
    <2>. QED
      BY <1>1, <1>2, <2>1, PlacedKeeps DEF IInv
  <1>4. ASSUME FinishAlloc
        PROVE  IInv'
    <2>1. P!FinishAlloc /\ pc = "place" /\ Placed(want.kind, want.slot)
      BY <1>4 DEF FinishAlloc, P!FinishAlloc
    <2>2. ClientInv /\ fresh = 0
      BY <1>2, <2>1 DEF ClientInv
    <2>3. req # 0
      BY <1>1, <2>1, KindFacts DEF BaseInv, Q!IInv
    <2>4. /\ want.kind \in Kinds /\ want.slot \in Slots /\ want.kind.size = req
          /\ made < MaxMade
      BY <1>1, <2>1, <2>3 DEF BaseInv, WantInv
    <2>. QED
      BY <1>1, <2>1, <2>2, <2>4, PlacedKeeps DEF IInv
  <1>5. ASSUME \/ \E k \in Kinds, s \in Slots : AllocCollects(k, s)
               \/ \E mode \in {unsafeStack} \cup StackModes : HGc(mode)
        PROVE  IInv'
    <2>1. Begins
      BY <1>1, <1>5, BeginsFacts
    <2>2. pc = "client" /\ pc' = "trace"
      BY <2>1 DEF Begins
    <2>3. BaseInv' /\ TraceInv'
      BY <1>1, <1>2, <2>1, <2>2, BeginsKeeps
    <2>. QED
      BY <2>2, <2>3 DEF IInv
  <1>6. ASSUME AllocStops
        PROVE  IInv'
    BY <1>1, <1>6, AllocStopsKeeps DEF IInv
  <1>7. ASSUME Initialise
        PROVE  IInv'
    <2>1. pc = "client"
      BY <1>7 DEF Initialise, ClientOnly
    <2>. QED
      BY <1>1, <1>2, <1>7, <2>1, InitialiseKeeps DEF IInv
  <1>8. ASSUME NEW s \in Slots, Store(s)
        PROVE  IInv'
    <2>1. pc = "client"
      BY <1>8 DEF Store, ClientOnly
    <2>. QED
      BY <1>1, <1>2, <1>8, <2>1, StoreKeeps DEF IInv
  <1>9. ASSUME NEW s \in Slots, Push(s) \/ \E t \in Slots : Load(t, s)
        PROVE  IInv'
    <2>1. pc = "client"
      BY <1>9 DEF Push, Load, ClientOnly
    <2>. QED
      BY <1>1, <1>2, <1>9, <2>1, StackKeeps DEF IInv
  <1>10. ASSUME HDeleteDbg
         PROVE  IInv'
    BY <1>1, <1>10, DeleteKeeps DEF IInv
  <1>. QED
    BY <1>3, <1>4, <1>5, <1>6, <1>7, <1>8, <1>9, <1>10 DEF Client

\* A step of a collection.
LEMMA CollectStep ==
  ASSUME IInv, Sane, Sane', Q!IInv', Q!MarksInv', Collect
  PROVE  IInv'
  <1>1. BaseInv /\ intact /\ intact'
    BY DEF IInv, Sane
  <1>2. pc = "trace" /\ TraceInv
    <2>1. pc = "trace"
      BY DEF Collect, ScanSkips, ScanVisits, ScanStops, ChildSkipped, ChildVisited, ChildStops,
         InChildren, ChildrenDone, Sweep, P!Sweep
    <2>. QED
      BY <2>1 DEF IInv, Sane
  <1>3. ASSUME BaseInv', TraceInv', pc' = pc
        PROVE  IInv'
    BY <1>2, <1>3 DEF IInv
  <1>4. CASE ScanSkips
    <2>1. UNCHANGED pageVars
      BY <1>4 DEF ScanSkips
    <2>2. pc' = pc
      BY <2>1 DEF pageVars
    <2>. QED
      BY <1>1, <1>2, <1>3, <1>4, <2>2, ScanSkipsKeeps
  <1>5. CASE ScanVisits
    BY <1>1, <1>2, <1>3, <1>5, ScanVisitsKeeps
  <1>6. CASE ChildSkipped
    <2>1. UNCHANGED pageVars
      BY <1>6 DEF ChildSkipped
    <2>2. pc' = pc
      BY <2>1 DEF pageVars
    <2>. QED
      BY <1>1, <1>2, <1>3, <1>6, <2>2, ChildSkippedKeeps
  <1>7. CASE ChildVisited
    BY <1>1, <1>2, <1>3, <1>7, ChildVisitedKeeps
  <1>8. CASE ChildrenDone
    <2>1. UNCHANGED pageVars
      BY <1>8 DEF ChildrenDone
    <2>2. pc' = pc
      BY <2>1 DEF pageVars
    <2>. QED
      BY <1>1, <1>2, <1>3, <1>8, <2>2, ChildrenDoneKeeps
  <1>9. CASE ScanStops \/ ChildStops
    BY <1>1, <1>9, TraceStopsKeeps DEF IInv
  <1>10. CASE Sweep
    BY <1>1, <1>2, <1>10, SweepKeeps DEF IInv
  <1>. QED
    BY <1>4, <1>5, <1>6, <1>7, <1>8, <1>9, <1>10 DEF Collect

LEMMA IInvStep ==
  ASSUME IInv, [Next]_vars
  PROVE  IInv'
  <1>1. CASE Sane'
    <2>1. Sane
      BY <1>1, SaneBefore
    <2>2. Q!IInv' /\ Q!MarksInv'
      BY <1>1, <2>1, PagesInvStep DEF Sane
    <2>. QED
      BY <1>1, <2>1, <2>2, ClientStep, CollectStep, StutterKeeps DEF Next
  <1>2. CASE ~Sane'
    BY <1>2 DEF IInv
  <1>. QED
    BY <1>1, <1>2

LEMMA IInvInit == Init => IInv
  <1>1. SUFFICES ASSUME Init
                 PROVE  IInv
    OBVIOUS
  <1>2. /\ active = {} /\ bump = [p \in Q!PageIds |-> 0] /\ amap = [p \in Q!PageIds |-> {}]
        /\ unsafe = [p \in Q!PageIds |-> FALSE] /\ pc = "client" /\ req = 0
        /\ objs = {} /\ kept = {} /\ intact = TRUE
    BY <1>1, SameActions DEF Init, Q!Init
  <1>3. Q!IInv
    BY <1>2, PagesAssumptions DEF Q!IInv, Q!TypeOK, Q!PCs, Q!MapInv, Q!Passive
  <1>4. Q!MarksInv
    BY <1>2 DEF Q!MarksInv
  <1>5. TypeInv
    <2>1. Nil \in Words /\ Nil \in StackWords
      BY DEF Words, StackWords
    <2>2. /\ mem = [a \in Addrs |-> Nil] /\ stack = [s \in Slots |-> Nil]
          /\ unsafeStack \in StackModes /\ next = 1 /\ frames = <<>> /\ fresh = 0 /\ made = 0 /\ gcs = 0
      BY <1>1 DEF Init
    <2>3. /\ mem \in [Addrs -> Words] /\ stack \in [Slots -> Words] /\ stack \in [Slots -> StackWords]
      BY <2>1, <2>2
    <2>4. /\ next \in 1 .. (NumSlots + 1) /\ made \in 0 .. MaxMade /\ gcs \in 0 .. MaxGcs
          /\ unsafeStack \in BOOLEAN
      BY <2>2, ClientAssumption
    <2>5. DOMAIN frames = {} /\ frames \in Seq(FrameType)
      BY <2>2
    <2>. QED
      BY <2>2, <2>3, <2>4, <2>5 DEF TypeInv, TypeOK
  <1>6. HeadersInv /\ WantInv
    BY <1>2 DEF HeadersInv, WantInv
  <1>7. ClientInv
    BY <1>1, <1>2 DEF Init, ClientInv, FieldsInv
  <1>. QED
    BY <1>2, <1>3, <1>4, <1>5, <1>6, <1>7 DEF IInv, BaseInv

-----------------------------------------------------------------------------
(* Theorems.                                                               *)

\* The invariant of client and collection together, in every reachable state in
\* which no store has hit the page map and every collection began with a safe
\* stack, on a heap that this collector preserves.
THEOREM Inductive == Spec => []IInv
  <1>. QED
    BY IInvInit, IInvStep, PTL DEF Spec

\* Every word of the heap and of the stack is one that the collector knows: nothing,
\* a pointer into the heap, a header or a forwarding address; the calls of
\* traverse_children stay within their objects' pointers.
THEOREM TypeCorrect == Spec => [](Sane => TypeOK)
  <1>1. IInv => (Sane => TypeOK)
    BY DEF IInv, BaseInv, TypeInv
  <1>. QED
    BY <1>1, Inductive, PTL

\* h_gc does not show: between collections the client sees the stack, the objects
\* and the pointers in them that it saw when the last one began.
THEOREM CollectionTransparent == Spec => [](Sane => Transparent)
  <1>1. IInv => (Sane => Transparent)
    BY DEF IInv, ClientInv, Transparent, Collected
  <1>. QED
    BY <1>1, Inductive, PTL

\* h_gc frees the objects that the stack did not lead to, and no other.
THEOREM CollectionFrees == Spec => [](Sane => GarbageFreed)
  <1>1. IInv => (Sane => GarbageFreed)
    BY DEF IInv, ClientInv, GarbageFreed, Collected, Id, Hd
  <1>. QED
    BY <1>1, Inductive, PTL

\* After h_delete_dbg no word of the stack points to an object.
THEOREM DeleteKills == Spec => [](Sane => ObjectsKilled)
  <1>1. IInv => (Sane => ObjectsKilled)
    BY DEF IInv, ObjectsKilled
  <1>. QED
    BY <1>1, Inductive, PTL

\* The trace stops the program only when no passive page has room for a copy: it
\* takes no pointer for an invalid one.
LEMMA AbortStep ==
  ASSUME IInv, Sane, [Next]_vars, pc = "trace", pc' = "abort"
  PROVE  \E k \in Kinds : P!WithRoom(P!Passive, k.size) = {}
  <1>1. BaseInv /\ intact /\ TraceInv
    BY DEF IInv, Sane
  <1>2. ScanStops \/ ChildStops
    <2>1. ~Client
      BY DEF Client, Alloc, AllocCollects, FinishAlloc, AllocStops, Initialise, HGc, Push, Load, Store,
         HDeleteDbg, ClientOnly, P!AllocInActivePage, P!AllocInNewPage, P!AllocCollects, P!FinishAlloc,
         P!AllocStops, P!FinishStops, P!HGc, P!HDelete
    <2>2. Collect
      BY <2>1 DEF Next, vars, pageVars
    <2>3. ScanVisits \/ ChildVisited => pc' = pc
      BY DEF ScanVisits, ChildVisited, VisitSafe, VisitUnsafe, VisitForwarded, VisitCopies, P!Copy,
         P!Pin, pageVars
    <2>4. ~Sweep
      BY DEF Sweep, P!Sweep
    <2>5. ~(ScanSkips \/ ChildSkipped \/ ChildrenDone)
      BY DEF ScanSkips, ChildSkipped, ChildrenDone, pageVars
    <2>. QED
      BY <2>2, <2>3, <2>4, <2>5 DEF Collect
  <1>3. PICK o \in objs : P!CopyFails(o.words)
    BY <1>1, <1>2, StopsForRoom
  <1>4. \E k \in Kinds : o.words = k.size
    BY <1>1 DEF BaseInv, HeadersInv
  <1>. QED
    BY <1>3, <1>4 DEF P!CopyFails


\* The trace aborts only when no passive page has room for a copy: on such a heap
\* the assertions of traverse_and_copy hold.
THEOREM TraceNeverAborts == Spec /\ []Sane => CollectableNeverAborts
  <1>1. IInv /\ Sane /\ [Next]_vars =>
          [intact /\ pc = "trace" /\ saved.collectable /\ ~saved.stray /\ pc' = "abort"
             => \E k \in Kinds : P!WithRoom(P!Passive, k.size) = {}]_vars
    BY AbortStep
  <1>. QED
    BY <1>1, Inductive, PTL DEF Spec, CollectableNeverAborts

\* Only an allocation makes an object.
LEMMA AllocStep ==
  ASSUME IInv, Sane, Next, made' # made, intact'
  PROVE  \A o \in objs : \A w \in (o.at - 1) .. (o.at + o.words - 1) :
           mem'[<<o.page, w>>] = mem[<<o.page, w>>]
  <1>1. Q!IInv'
    BY PagesInvStep
  <1>2. FinishAlloc \/ \E k \in Kinds, s \in Slots : Alloc(k, s)
    BY DEF Next, Client, Collect, AllocCollects, AllocStops, Initialise, ClientOnly, HGc, BeginScan,
       Push, Load, Store, HDeleteDbg, ScanSkips, ScanVisits, ScanStops, ChildSkipped, ChildVisited,
       ChildStops, ChildrenDone, Sweep
  <1>3. FinishAlloc => \E k \in Kinds, s \in Slots : TRUE
    <2>1. SUFFICES ASSUME FinishAlloc
                   PROVE  \E k \in Kinds, s \in Slots : TRUE
      OBVIOUS
    <2>2. pc = "place" /\ BaseInv
      BY <2>1 DEF FinishAlloc, P!FinishAlloc, IInv, Sane
    <2>3. req # 0
      BY <2>2, KindFacts DEF BaseInv, Q!IInv
    <2>. QED
      BY <2>2, <2>3 DEF BaseInv, WantInv
  <1>. QED
    BY <1>1, <1>2, <1>3, PlacedDisturbsNone

\* An allocation, or one that had to wait for a collection, changes no word of
\* another object, although p_reset zeroes the page that it activates.
THEOREM AllocKeepsObjects == Spec /\ []Sane => AllocDisturbsNone
  <1>1. IInv /\ Sane /\ [Next]_vars =>
          [made' # made /\ intact' =>
             \A o \in objs : \A w \in (o.at - 1) .. (o.at + o.words - 1) :
               mem'[<<o.page, w>>] = mem[<<o.page, w>>]]_vars
    BY AllocStep
  <1>. QED
    BY <1>1, Inductive, PTL DEF Spec, AllocDisturbsNone

\* A step is one of Pages or leaves the pages alone.
LEMMA PagesRefined ==
  ASSUME IInv, Sane, [Next]_vars
  PROVE  [P!Next]_(P!vars)
  <1>1. Q!Next => P!Next
    BY SameActions DEF Q!Next, P!Next, Q!Pin, P!Pin
  <1>. QED
    BY <1>1, PagesStep DEF pageVars, P!vars

\* What happens to the pages is a behaviour of module Pages: h_alloc_struct and
\* h_gc use the page map, the bump pointers and the allocation maps as Pages has
\* it, and copy only what is an object.
THEOREM PagesImplemented == Spec /\ []Sane => PagesSpec
  <1>1. Init => P!Init
    BY DEF Init
  <1>2. IInv /\ Sane /\ [Next]_vars => [P!Next]_(P!vars)
    BY PagesRefined
  <1>. QED
    BY <1>1, <1>2, Inductive, PTL DEF Spec, PagesSpec, P!Spec

-----------------------------------------------------------------------------
(* How pages are filled.                                                   *)

\* The objects of a page, and the words that each takes, header included.
On(p) == {o \in objs : o.page = p}
Extents == [o \in objs |-> o.words + 1]
Payloads == [o \in objs |-> o.words]

\* There is no word below the bump pointer that no object has.
Covers(o, p, w) == o.page = p /\ o.at - 1 <= w /\ w < o.at + o.words
Packed(p) == \A w \in 0 .. (bump[p] - 1) : \E o \in objs : Covers(o, p, w)

\* X are the objects that lie below word w of page p, and they fill it to there.
Below(p, X, w) ==
  /\ X \in SUBSET On(p)
  /\ w \in Nat /\ w <= bump[p]
  /\ \A o \in X : o.at + o.words <= w
  /\ \A o \in On(p) \ X : w <= o.at - 1
  /\ SumFunctionOnSet(Extents, X) = w

PageOk(p) == BaseInv /\ intact /\ IsFiniteSet(objs) /\ p \in Q!PageIds /\ Packed(p)

LEMMA OnFacts ==
  ASSUME NEW p, PageOk(p)
  PROVE  /\ IsFiniteSet(On(p)) /\ On(p) \subseteq objs
         /\ bump[p] \in Nat /\ bump[p] <= PageWords
         /\ \A o \in On(p) : /\ o \in objs /\ o.page = p
                             /\ o.at \in Nat \ {0} /\ o.words \in Nat \ {0}
                             /\ o.at + o.words <= bump[p]
         /\ \A o, q \in On(p) : o # q => o.at + o.words < q.at \/ q.at + q.words < o.at
         /\ \A X \in SUBSET On(p) :
              IsFiniteSet(X) /\ \A o \in X : Extents[o] = o.words + 1 /\ Payloads[o] = o.words
  <1>1. IsFiniteSet(On(p)) /\ On(p) \subseteq objs
    BY FS_Subset DEF On, PageOk
  <1>2. bump[p] \in Nat /\ bump[p] <= PageWords
    BY DEF PageOk, BaseInv, Q!IInv, Q!TypeOK, Q!MapInv
  <1>3. ASSUME NEW o \in On(p)
        PROVE  /\ o \in objs /\ o.page = p
               /\ o.at \in Nat \ {0} /\ o.words \in Nat \ {0}
               /\ o.at + o.words <= bump[p]
    <2>1. o \in objs /\ o.page = p
      BY DEF On
    <2>. QED
      BY <2>1, ObjectFacts DEF PageOk
  <1>4. ASSUME NEW o \in On(p), NEW q \in On(p), o # q
        PROVE  o.at + o.words < q.at \/ q.at + q.words < o.at
    BY <1>3, <1>4 DEF PageOk, BaseInv, Q!IInv, Q!MapInv, Q!Before
  <1>5. ASSUME NEW X \in SUBSET On(p)
        PROVE  IsFiniteSet(X) /\ \A o \in X : Extents[o] = o.words + 1 /\ Payloads[o] = o.words
    BY <1>1, FS_Subset DEF Extents, Payloads
  <1>. QED
    BY <1>1, <1>2, <1>3, <1>4, <1>5

LEMMA NoneBelow ==
  ASSUME NEW p, PageOk(p)
  PROVE  Below(p, {}, 0)
  <1>1. \A o \in On(p) : 0 <= o.at - 1
    BY OnFacts
  <1>. QED
    BY <1>1, OnFacts, SumEmpty DEF Below

\* The next object lies at the word to which the page is filled.
LEMMA NextBelow ==
  ASSUME NEW p, PageOk(p), NEW X, NEW w, Below(p, X, w), X # On(p)
  PROVE  \E o \in On(p) \ X : o.at - 1 = w /\ Below(p, X \cup {o}, o.at + o.words)
  <1>1. PICK q \in On(p) : q \notin X
    BY DEF Below
  <1>2. w \in 0 .. (bump[p] - 1)
    BY <1>1, OnFacts DEF Below
  <1>3. PICK o \in objs : Covers(o, p, w)
    BY <1>2 DEF PageOk, Packed
  <1>4. o \in On(p)
    BY <1>3 DEF On, Covers
  <1>5. o.at \in Nat \ {0} /\ o.words \in Nat \ {0} /\ o.at + o.words <= bump[p]
    BY <1>4, OnFacts
  <1>6. o \notin X
    BY <1>2, <1>3, <1>5 DEF Below, Covers
  <1>7. o.at - 1 = w
    BY <1>2, <1>3, <1>4, <1>5, <1>6 DEF Below, Covers
  <1> DEFINE v == o.at + o.words
  <1>8. v \in Nat /\ v <= bump[p] /\ w < v
    BY <1>5, <1>7
  <1>9. X \cup {o} \in SUBSET On(p)
    BY <1>4 DEF Below
  <1>10. ASSUME NEW r \in X \cup {o}
         PROVE  r.at + r.words <= v
    <2>1. r.at \in Nat /\ r.words \in Nat
      BY <1>9, OnFacts
    <2>2. CASE r = o
      BY <1>5, <2>2
    <2>3. CASE r \in X
      BY <1>2, <1>8, <2>1, <2>3 DEF Below
    <2>. QED
      BY <2>2, <2>3
  <1>11. ASSUME NEW r \in On(p) \ (X \cup {o})
         PROVE  v <= r.at - 1
    <2>1. r.at \in Nat /\ r.words \in Nat /\ w <= r.at - 1
      BY OnFacts DEF Below
    <2>2. v < r.at \/ r.at + r.words < o.at
      BY <1>4, OnFacts
    <2>. QED
      BY <1>5, <1>7, <2>1, <2>2
  <1>12. SumFunctionOnSet(Extents, X \cup {o}) = v
    <2>1. IsFiniteSet(X) /\ \A r \in X \cup {o} : Extents[r] \in Int
      BY <1>9, OnFacts DEF Below
    <2>2. SumFunctionOnSet(Extents, X \cup {o}) = Extents[o] + SumFunctionOnSet(Extents, X)
      BY <1>6, <2>1, SumAdd
    <2>3. Extents[o] = o.words + 1 /\ SumFunctionOnSet(Extents, X) = w
      BY <1>9, OnFacts DEF Below
    <2>. QED
      BY <1>5, <1>7, <2>2, <2>3
  <1> HIDE DEF v
  <1>13. Below(p, X \cup {o}, v)
    BY <1>8, <1>9, <1>10, <1>11, <1>12 DEF Below
  <1>. QED
    BY <1>4, <1>6, <1>7, <1>13 DEF v

\* So that in the end the objects fill the page to its bump pointer.
LEMMA OnFills ==
  ASSUME NEW p, PageOk(p)
  PROVE  SumFunctionOnSet(Extents, On(p)) = bump[p]
  <1> DEFINE S == On(p)
             B == {T \in SUBSET S : \E w : Below(p, S \ T, w)}
  <1>1. S \in B
    <2>1. S \ S = {}
      OBVIOUS
    <2>. QED
      BY <2>1, NoneBelow
  <1>2. IsFiniteSet(S) /\ B \subseteq SUBSET S /\ B # {}
    BY <1>1, OnFacts
  <1>3. PICK T \in B : \A U \in B : U \subseteq T => U = T
    <2> HIDE DEF B, S
    <2>. QED
      BY <1>2, MinimalSubset
  <1>4. T \in SUBSET S
    BY <1>3
  <1>5. PICK w : Below(p, S \ T, w)
    BY <1>3
  <1>6. T = {}
    <2>. SUFFICES ASSUME T # {} PROVE FALSE
      OBVIOUS
    <2>1. S \ T # On(p)
      BY <1>4
    <2>2. PICK o \in On(p) \ (S \ T) : Below(p, (S \ T) \cup {o}, o.at + o.words)
      BY <1>5, <2>1, NextBelow
    <2>3. o \in T /\ (S \ T) \cup {o} = S \ (T \ {o})
      BY <1>4, <2>2
    <2>4. T \ {o} \in B
      BY <1>4, <2>2, <2>3
    <2>. QED
      BY <1>3, <2>3, <2>4
  <1>7. S \ T = On(p)
    BY <1>6
  <1>8. Below(p, On(p), w)
    BY <1>5, <1>7
  <1>9. w = bump[p]
    <2>. SUFFICES ASSUME w # bump[p] PROVE FALSE
      OBVIOUS
    <2>1. w \in 0 .. (bump[p] - 1)
      BY <1>8, OnFacts DEF Below
    <2>2. PICK o \in objs : Covers(o, p, w)
      BY <2>1 DEF PageOk, Packed
    <2>3. o \in On(p) /\ w < o.at + o.words
      BY <2>2 DEF On, Covers
    <2>. QED
      BY <1>8, <2>1, <2>3, OnFacts DEF Below
  <1>. QED
    BY <1>8, <1>9 DEF Below

-----------------------------------------------------------------------------
(* What the steps do to the pages.                                         *)

\* A collection begins, for an allocation only if the pressure allows it.
Starts == Begins /\ (req' = 0 \/ Q!PressureAtMostOne)

\* An allocation puts an object of n words on page p.
Puts(p, n) ==
  /\ pc \in {"client", "place"} /\ pc' = "client"
  /\ p \in Q!PageIds /\ n \in Nat \ {0} /\ \E k \in Kinds : k.size = n
  /\ \/ active' = active
     \/ active' = active \cup {p} /\ (pc = "place" \/ Q!PressureAtMostOne)
  /\ bump' = [bump EXCEPT ![p] = bump[p] + n + 1]
  /\ objs' = objs \cup {[page |-> p, at |-> bump[p] + 1, words |-> n]}
  /\ saved' = None

\* A copy moves object o to p, the first passive page with room for it.
Moves(o, p) ==
  /\ pc = "trace" /\ pc' = "trace" /\ req' = req /\ o \in Originals
  /\ \A q \in Q!PageIds \ active : q < p => bump[q] + o.words + 1 > PageWords
  /\ p \in Q!PageIds \ active /\ active' = active
  /\ bump' = [bump EXCEPT ![p] = bump[p] + o.words + 1]
  /\ objs' = (objs \ {o}) \cup {[page |-> p, at |-> bump[p] + 1, words |-> o.words]}
  /\ saved' = saved

\* A sweep resets the pages that were active.
Sweeps ==
  /\ pc = "trace" /\ pc' = (IF req = 0 THEN "client" ELSE "place")
  /\ objs' = Copies /\ saved' = saved
  /\ active' = {p \in Q!PageIds \ active : bump[p] # 0}
  /\ bump' = [p \in Q!PageIds |-> IF p \in active THEN 0 ELSE bump[p]]

\* Every other step leaves the objects where they are.
Rests ==
  /\ UNCHANGED <<active, bump, objs, req>>
  /\ pc' = pc \/ pc' \in {"abort", "deleted"}
  /\ saved' \in {None, saved}

LEMMA PutsStep ==
  ASSUME IInv, Sane, Sane', Q!IInv',
         FinishAlloc \/ \E k \in Kinds, s \in Slots : Alloc(k, s)
  PROVE  \E p, n : Puts(p, n)
  <1>1. BaseInv /\ intact /\ intact' /\ bump \in [Q!PageIds -> Nat]
    BY DEF IInv, Sane, BaseInv, Q!IInv, Q!TypeOK
  <1>2. ASSUME pc \in {"client", "place"}, saved' = None, NEW k \in Kinds, NEW n, n = k.size,
               \/ P!AllocInActivePage(n) \/ P!AllocInNewPage(n)
               \/ P!FinishAlloc /\ n = req
        PROVE  \E p, m : Puts(p, m)
    <2>1. n \in Nat \ {0}
      BY <1>2, KindFacts
    <2> DEFINE Map(p, m, ok) ==
                 /\ ok => intact
                 /\ ok => \/ m = active
                          \/ m = active \cup {p} /\ (pc = "place" \/ Q!PressureAtMostOne)
    <2>2. PICK p \in Q!PageIds : \E m, ok : Q!Place(p, n, m, ok) /\ Map(p, m, ok)
      <3>1. \A p : Map(p, active, intact)
        OBVIOUS
      <3>2. ASSUME pc = "place" \/ Q!PressureAtMostOne
            PROVE  \A p : Map(p, (active \ Q!HitBits(p, 0, PageWords - 1)) \cup {p},
                              intact /\ active \cap Q!HitBits(p, 0, PageWords - 1) = {})
        BY <3>2
      <3> HIDE DEF Map
      <3>3. CASE Q!AllocInActivePage(n)
        BY <3>1, <3>3 DEF Q!AllocInActivePage
      <3>4. ASSUME Q!ActivateAndPlace(n), pc = "place" \/ Q!PressureAtMostOne
            PROVE  \E p \in Q!PageIds : \E m, ok : Q!Place(p, n, m, ok) /\ Map(p, m, ok)
        BY <3>2, <3>4 DEF Q!ActivateAndPlace
      <3>5. CASE Q!AllocInNewPage(n)
        BY <3>4, <3>5 DEF Q!AllocInNewPage
      <3>6. CASE Q!FinishAlloc /\ n = req
        BY <3>4, <3>6 DEF Q!FinishAlloc
      <3>. QED
        BY <1>2, <3>3, <3>5, <3>6, SameActions
    <2>3. /\ bump' = [bump EXCEPT ![p] = bump[p] + n + 1]
          /\ objs' = objs \cup {[page |-> p, at |-> bump[p] + 1, words |-> n]}
          /\ pc' \in {"client", "overrun"}
      BY <2>2 DEF Q!Place, Q!BumpAfter
    <2>4. \/ active' = active
          \/ active' = active \cup {p} /\ (pc = "place" \/ Q!PressureAtMostOne)
      <3>1. PICK m, ok : Q!Place(p, n, m, ok) /\ Map(p, m, ok)
        BY <2>2
      <3>2. active' \in Q!DataMaps(m, p, bump[p], bump[p]) /\ ok /\ ~Q!HitsMap(p, bump[p], bump[p])
        BY <1>1, <3>1 DEF Q!Place, Q!HeaderMaps, Q!CopiedMaps
      <3>3. active' = m
        BY <3>2, PagesAssumptions, Q!MapsSame
      <3>. QED
        BY <3>1, <3>2, <3>3
    <2>5. pc' = "client"
      BY <1>1, <2>3 DEF Q!IInv, Q!MapInv
    <2>. QED
      BY <1>2, <2>1, <2>3, <2>4, <2>5 DEF Puts
  <1>3. ASSUME NEW k \in Kinds, NEW s \in Slots, Alloc(k, s)
        PROVE  \E p, n : Puts(p, n)
    <2>1. /\ pc = "client" /\ saved' = None
          /\ P!AllocInActivePage(k.size) \/ P!AllocInNewPage(k.size)
      BY <1>3 DEF Alloc, Placed, P!AllocInActivePage, P!AllocInNewPage
    <2>. QED
      BY <1>2, <2>1
  <1>4. ASSUME FinishAlloc
        PROVE  \E p, n : Puts(p, n)
    <2>1. P!FinishAlloc /\ pc = "place" /\ saved' = None
      BY <1>4 DEF FinishAlloc, Placed, P!FinishAlloc
    <2>2. req # 0
      BY <1>1, <2>1, KindFacts DEF BaseInv, Q!IInv
    <2>3. want.kind \in Kinds /\ want.kind.size = req
      BY <1>1, <2>1, <2>2 DEF BaseInv, WantInv
    <2>. QED
      BY <1>2, <2>1, <2>3
  <1>. QED
    BY <1>3, <1>4

LEMMA MovesStep ==
  ASSUME IInv, Sane, Sane', ScanVisits \/ ChildVisited
  PROVE  Rests \/ \E o, p : Moves(o, p)
  <1>1. BaseInv /\ intact /\ intact' /\ bump \in [Q!PageIds -> Nat]
    BY DEF IInv, Sane, BaseInv, Q!IInv, Q!TypeOK
  <1>2. pc = "trace" /\ TraceInv
    BY DEF ScanVisits, ChildVisited, InChildren, IInv
  <1>3. saved' = saved
    BY DEF ScanVisits, ChildVisited
  <1>4. ASSUME NEW o \in Originals, NEW loc, NEW calls, VisitCopies(loc, AddressOf(o), calls)
        PROVE  \E p : Moves(o, p)
    <2>1. o \in objs /\ Q!Copy(o, o.words)
      BY <1>1, <1>4, CopyOfPages
    <2>2. PICK p \in Q!PageIds :
            /\ Q!IsFirst(p, Q!WithRoom(Q!Passive, o.words))
            /\ bump' = [bump EXCEPT ![p] = Q!BumpAfter(@, o.words)]
            /\ objs' = (objs \ {o}) \cup {[page |-> p, at |-> bump[p] + 1, words |-> o.words]}
            /\ pc' = pc /\ req' = req
      BY <2>1 DEF Q!Copy
    <2>6. active' = active
      BY <1>1, <2>1, CopySame
    <2>3. p \notin active
      BY <2>2 DEF Q!IsFirst, Q!WithRoom, Q!Passive
    <2>5. \A q \in Q!PageIds \ active : q < p => bump[q] + o.words + 1 > PageWords
      <3>1. ASSUME NEW q \in Q!PageIds \ active, q < p
            PROVE  bump[q] + o.words + 1 > PageWords
        <4>1. q \in Nat /\ p \in Nat /\ bump[q] \in Nat /\ o.words \in Nat /\ PageWords \in Nat
          BY <1>1, <2>1, ObjectFacts, PagesAssumption DEF Q!PageIds
        <4>2. q \notin Q!WithRoom(Q!Passive, o.words)
          BY <2>2, <3>1, <4>1 DEF Q!IsFirst
        <4>3. ~(PageWords - bump[q] >= o.words + 1)
          BY <4>2 DEF Q!WithRoom, Q!Passive, Q!FreeSpace
        <4>. QED
          BY <4>1, <4>3
      <3>. QED
        BY <3>1
    <2>4. bump' = [bump EXCEPT ![p] = bump[p] + o.words + 1]
      BY <1>1, <2>2 DEF Q!BumpAfter
    <2>. QED
      BY <1>1, <1>2, <1>3, <2>2, <2>3, <2>4, <2>5, <2>6 DEF Moves
  <1>5. ASSUME ScanVisits
        PROVE  Rests \/ \E o, p : Moves(o, p)
    <2>1. \/ UNCHANGED pageVars
          \/ \E o \in Originals : \E loc, calls : VisitCopies(loc, AddressOf(o), calls)
      BY <1>1, <1>2, <1>5, RootVisit DEF VisitForwarded
    <2>. QED
      BY <1>3, <1>4, <2>1 DEF Rests, pageVars
  <1>6. ASSUME ChildVisited
        PROVE  \E o, p : Moves(o, p)
    <2>1. \E o \in Originals : \E loc, calls : VisitCopies(loc, AddressOf(o), calls)
      BY <1>1, <1>2, <1>6, ChildVisit
    <2>. QED
      BY <1>4, <2>1
  <1>. QED
    BY <1>5, <1>6

LEMMA SweepsStep ==
  ASSUME IInv, Sane, Sweep
  PROVE  Sweeps
  <1>1. BaseInv /\ intact /\ pc = "trace" /\ TraceInv
    BY DEF IInv, Sane, Sweep, P!Sweep
  <1>2. Q!Sweep /\ saved' = saved /\ objs' = Copies
    BY <1>1, SameActions, SweepEffect DEF Sweep
  <1>3. Q!Freed = active
    BY <1>1 DEF Q!Freed, BaseInv, Q!IInv, Q!TypeOK
  <1>. QED
    BY <1>1, <1>2, <1>3 DEF Sweeps, Q!Sweep, Q!SweptBump, Q!SweptActive, Q!Passive

LEMMA PageEffects ==
  ASSUME IInv, Sane, Sane', Q!IInv', [Next]_vars
  PROVE  Starts \/ Rests \/ Sweeps \/ (\E p, n : Puts(p, n)) \/ (\E o, p : Moves(o, p))
  <1>1. BaseInv /\ intact'
    BY DEF IInv, Sane
  <1>2. ASSUME \/ \E k \in Kinds, s \in Slots : AllocCollects(k, s)
               \/ \E mode \in {unsafeStack} \cup StackModes : HGc(mode)
        PROVE  Starts
    <2>1. req' = 0 \/ Q!PressureAtMostOne
      BY <1>2, SameHelpers DEF AllocCollects, P!AllocCollects, HGc, P!HGc, P!StartTrace
    <2>. QED
      BY <1>1, <1>2, <2>1, BeginsFacts DEF Starts
  <1>3. AllocStops => Rests
    BY DEF AllocStops, P!AllocStops, P!FinishStops, P!Stop, Rests
  <1>4. ASSUME Initialise \/ \E s \in Slots : Store(s)
        PROVE  Rests
    <2>1. saved' = None /\ \E fs : Written(fs)
      BY <1>4 DEF Initialise, Store, ClientOnly
    <2>2. UNCHANGED pageVars
      BY <1>1, <2>1, WrittenIntact
    <2>. QED
      BY <2>1, <2>2 DEF Rests, pageVars
  <1>5. ASSUME \E s \in Slots : Push(s) \/ \E t \in Slots : Load(s, t)
        PROVE  Rests
    BY <1>5 DEF Push, Load, ClientOnly, Rests, pageVars
  <1>6. HDeleteDbg => Rests
    BY DEF HDeleteDbg, P!HDelete, Rests
  <1>7. ScanSkips \/ ChildSkipped \/ ChildrenDone \/ UNCHANGED vars => Rests
    BY DEF ScanSkips, ChildSkipped, ChildrenDone, vars, pageVars, Rests
  <1>8. ScanStops \/ ChildStops => Rests
    BY DEF ScanStops, ChildStops, VisitSafeStops, P!CopyFails, P!TraceStops, P!Stop, Rests
  <1>. QED
    BY <1>2, <1>3, <1>4, <1>5, <1>6, <1>7, <1>8, PutsStep, MovesStep, SweepsStep
       DEF Next, Client, Collect

-----------------------------------------------------------------------------
(* No step leaves a gap.                                                   *)

\* A collection copies to pages that it fills from their first word on.
InTurn(p) == pc \in {"client", "place"} \/ (pc = "trace" /\ p \notin active)
Filled == \A p \in Q!PageIds : InTurn(p) => Packed(p)

\* Objects stay where they are unless they are on an active page that a
\* collection frees.
KeepsCover(p) ==
  \A o \in objs, w \in Int : Covers(o, p, w) => \E q \in objs' : Covers(q, p, w)

LEMMA PackedStays ==
  ASSUME NEW p, Packed(p), bump'[p] = bump[p], bump[p] \in Nat, KeepsCover(p)
  PROVE  Packed(p)'
  <1>1. ASSUME NEW w \in 0 .. (bump[p] - 1)
        PROVE  \E q \in objs' : Covers(q, p, w)
    <2>1. PICK o \in objs : Covers(o, p, w)
      BY DEF Packed
    <2>. QED
      BY <2>1 DEF KeepsCover
  <1>2. \A q, w : Covers(q, p, w)' <=> Covers(q, p, w)
    BY DEF Covers
  <1>. QED
    BY <1>1, <1>2 DEF Packed

LEMMA EmptyPacked ==
  ASSUME NEW p, bump[p] = 0
  PROVE  Packed(p)
  BY DEF Packed

\* A page to which an object is appended.
LEMMA AppendPacked ==
  ASSUME NEW p, Packed(p), bump[p] \in Nat, NEW n \in Nat \ {0}, KeepsCover(p),
         bump'[p] = bump[p] + n + 1,
         [page |-> p, at |-> bump[p] + 1, words |-> n] \in objs'
  PROVE  Packed(p)'
  <1>1. ASSUME NEW w \in 0 .. (bump'[p] - 1)
        PROVE  \E q \in objs' : Covers(q, p, w)
    <2>1. CASE w < bump[p]
      <3>1. w \in 0 .. (bump[p] - 1)
        BY <1>1, <2>1
      <3>2. PICK o \in objs : Covers(o, p, w)
        BY <3>1 DEF Packed
      <3>. QED
        BY <3>1, <3>2 DEF KeepsCover
    <2>2. CASE bump[p] <= w
      <3> DEFINE new == [page |-> p, at |-> bump[p] + 1, words |-> n]
      <3>1. new.page = p /\ new.at = bump[p] + 1 /\ new.words = n
        OBVIOUS
      <3>2. new \in objs'
        OBVIOUS
      <3> HIDE DEF new
      <3>3. Covers(new, p, w)
        BY <1>1, <2>2, <3>1 DEF Covers
      <3>. QED
        BY <3>2, <3>3
    <2>. QED
      BY <1>1, <2>1, <2>2
  <1>2. \A q, w : Covers(q, p, w)' <=> Covers(q, p, w)
    BY DEF Covers
  <1>. QED
    BY <1>1, <1>2 DEF Packed

LEMMA FilledStep ==
  ASSUME BaseInv, intact, Filled,
         Starts \/ Rests \/ Sweeps \/ (\E p, n : Puts(p, n)) \/ (\E o, p : Moves(o, p))
  PROVE  Filled'
  <1>1. bump \in [Q!PageIds -> Nat]
    BY DEF BaseInv, Q!IInv, Q!TypeOK
  <1>2. ASSUME objs \subseteq objs', NEW p
        PROVE  KeepsCover(p)
    BY <1>2 DEF KeepsCover
  <1>3. ASSUME Starts \/ Rests
        PROVE  Filled'
    <2>1. UNCHANGED <<active, bump, objs>> /\ \A p : InTurn(p)' => InTurn(p)
      BY <1>3 DEF Starts, Begins, Rests, InTurn
    <2>2. \A p : KeepsCover(p)
      BY <1>2, <2>1
    <2>. QED
      BY <1>1, <2>1, <2>2, PackedStays DEF Filled
  <1>4. ASSUME Sweeps
        PROVE  Filled'
    <2>1. ASSUME NEW p \in Q!PageIds
          PROVE  Packed(p)'
      <3>1. CASE p \in active
        BY <1>1, <1>4, <3>1 DEF Sweeps, Packed
      <3>2. CASE p \notin active
        <4>1. Packed(p) /\ bump'[p] = bump[p]
          BY <1>1, <1>4, <3>2 DEF Filled, InTurn, Sweeps
        <4>2. KeepsCover(p)
          BY <1>4, <3>2 DEF Sweeps, Copies, KeepsCover, Covers
        <4>. QED
          BY <1>1, <4>1, <4>2, PackedStays
      <3>. QED
        BY <3>1, <3>2
    <2>. QED
      BY <2>1 DEF Filled
  <1>5. ASSUME NEW r, NEW n, Puts(r, n)
        PROVE  Filled'
    <2>1. /\ objs \subseteq objs' /\ pc \in {"client", "place"} /\ n \in Nat \ {0}
          /\ [page |-> r, at |-> bump[r] + 1, words |-> n] \in objs'
          /\ bump' = [bump EXCEPT ![r] = bump[r] + n + 1]
      BY <1>5 DEF Puts
    <2>2. ASSUME NEW p \in Q!PageIds
          PROVE  Packed(p)'
      <3>1. Packed(p) /\ KeepsCover(p)
        BY <1>2, <2>1 DEF Filled, InTurn
      <3>2. CASE p = r
        BY <1>1, <2>1, <3>1, <3>2, AppendPacked
      <3>3. CASE p # r
        BY <1>1, <2>1, <3>1, <3>3, PackedStays
      <3>. QED
        BY <3>2, <3>3
    <2>. QED
      BY <2>2 DEF Filled
  <1>6. ASSUME NEW o, NEW r, Moves(o, r)
        PROVE  Filled'
    <2>1. /\ pc' = "trace" /\ active' = active /\ r \notin active
          /\ [page |-> r, at |-> bump[r] + 1, words |-> o.words] \in objs'
          /\ bump' = [bump EXCEPT ![r] = bump[r] + o.words + 1]
          /\ objs \ {o} \subseteq objs' /\ o \in Originals
      BY <1>6 DEF Moves
    <2>2. o.words \in Nat \ {0} /\ o.page \in active
      BY <2>1, ObjectFacts DEF Originals
    <2>3. ASSUME NEW p \in Q!PageIds, p \notin active
          PROVE  Packed(p)'
      <3>1. Packed(p)
        BY <1>6, <2>3 DEF Filled, InTurn, Moves
      <3>2. KeepsCover(p)
        BY <2>1, <2>2, <2>3 DEF KeepsCover, Covers
      <3>3. CASE p = r
        BY <1>1, <2>1, <2>2, <3>1, <3>2, <3>3, AppendPacked
      <3>4. CASE p # r
        BY <1>1, <2>1, <3>1, <3>2, <3>4, PackedStays
      <3>. QED
        BY <3>3, <3>4
    <2>. QED
      BY <2>1, <2>3 DEF Filled, InTurn
  <1>. QED
    BY <1>3, <1>4, <1>5, <1>6

-----------------------------------------------------------------------------
(* The room that is left.                                                  *)

\* The words that the objects take, and the words that there are.
InUse == SumFunctionOnSet(Extents, objs)
Whole == [p \in Q!PageIds |-> PageWords]
Capacity == SumFunctionOnSet(Whole, Q!PageIds)

\* A collection takes no more words than were in use before it.
RoomInv ==
  saved # None /\ pc \in {"client", "place", "trace"} =>
    saved.avail \in Int /\ saved.avail + InUse <= Capacity

LEMMA UseFacts ==
  ASSUME BaseInv, intact, IsFiniteSet(objs)
  PROVE  /\ \A o \in objs : Extents[o] = o.words + 1 /\ Extents[o] \in Nat /\ Extents[o] \in Int
         /\ InUse \in Nat
  <1>1. ASSUME NEW o \in objs
        PROVE  Extents[o] = o.words + 1 /\ Extents[o] \in Nat
    <2>1. o.words \in Nat
      BY ObjectFacts
    <2>2. Extents[o] = o.words + 1
      BY DEF Extents
    <2>. QED
      BY <2>1, <2>2
  <1>2. InUse \in Nat
    BY <1>1, SumNat DEF InUse
  <1>. QED
    BY <1>1, <1>2

LEMMA CapacityFacts ==
  /\ IsFiniteSet(Q!PageIds)
  /\ Capacity \in Nat
  <1>1. NumPages - 1 \in Int
    BY PagesAssumption
  <1>2. IsFiniteSet(Q!PageIds)
    BY <1>1, FS_Interval DEF Q!PageIds
  <1>3. \A p \in Q!PageIds : Whole[p] \in Nat
    BY PagesAssumption DEF Whole
  <1>. QED
    BY <1>2, <1>3, SumNat DEF Capacity

\* The objects of some pages fill them to their bump pointers.
LEMMA PagesUse ==
  ASSUME BaseInv, intact, IsFiniteSet(objs), NEW T \in SUBSET Q!PageIds, \A p \in T : Packed(p)
  PROVE  SumFunctionOnSet(Extents, {o \in objs : o.page \in T}) = SumFunctionOnSet(bump, T)
  <1> DEFINE S == {o \in objs : o.page \in T}
             home == [o \in S |-> o.page]
  <1>1. IsFiniteSet(S) /\ IsFiniteSet(T)
    BY CapacityFacts, FS_Subset
  <1>2. \A o \in S : Extents[o] \in Int /\ home[o] \in T
    BY UseFacts
  <1>3. ASSUME NEW p \in T
        PROVE  bump[p] = SumFunctionOnSet(Extents, Grouped(S, home, p))
    <2>1. Grouped(S, home, p) = On(p)
      BY DEF Grouped, On
    <2>2. PageOk(p)
      BY DEF PageOk
    <2>. QED
      BY <2>1, <2>2, OnFills
  <1> HIDE DEF home, S
  <1>4. SumFunctionOnSet(Extents, S) = SumFunctionOnSet(bump, T)
    BY <1>1, <1>2, <1>3, SumGrouped
  <1>. QED
    BY <1>4 DEF S

\* Between collections what is not in use is available.
LEMMA AvailIs ==
  ASSUME BaseInv, intact, IsFiniteSet(objs), Filled, pc \in {"client", "place"}
  PROVE  Avail \in Int /\ Avail + InUse = Capacity
  <1> DEFINE free == [p \in P!PageIds |-> P!FreeSpace(p)]
  <1>1. bump \in [Q!PageIds -> Nat] /\ PageWords \in Nat
    BY PagesAssumption DEF BaseInv, Q!IInv, Q!TypeOK
  <1>2. InUse = SumFunctionOnSet(bump, Q!PageIds)
    <2>1. objs = {o \in objs : o.page \in Q!PageIds}
      BY ObjectFacts
    <2>2. \A p \in Q!PageIds : Packed(p)
      BY DEF Filled, InTurn
    <2>. QED
      BY <2>1, <2>2, PagesUse DEF InUse
  <1>3. \A p \in Q!PageIds : bump[p] \in Int /\ free[p] \in Int /\ Whole[p] = bump[p] + free[p]
    BY <1>1, SamePages DEF Whole, P!FreeSpace
  <1>4. Avail = SumFunctionOnSet(free, Q!PageIds)
    BY SamePages DEF Avail, SumFunction
  <1> HIDE DEF free
  <1>5. Capacity = SumFunctionOnSet(bump, Q!PageIds) + SumFunctionOnSet(free, Q!PageIds)
    BY <1>3, CapacityFacts, SumPlus DEF Capacity
  <1>6. SumFunctionOnSet(free, Q!PageIds) \in Int
    BY <1>3, CapacityFacts, SumInt
  <1>. QED
    BY <1>2, <1>4, <1>5, <1>6, UseFacts

\* A step keeps the objects finite in number, and only an allocation takes words.
LEMMA UseStep ==
  ASSUME BaseInv, intact, IsFiniteSet(objs),
         Starts \/ Rests \/ Sweeps \/ (\E p, n : Puts(p, n)) \/ (\E o, p : Moves(o, p))
  PROVE  /\ IsFiniteSet(objs')
         /\ (\E p, n : Puts(p, n)) \/ (InUse' \in Int /\ InUse' <= InUse)
  <1>1. ASSUME objs' = objs
        PROVE  IsFiniteSet(objs') /\ InUse' = InUse
    BY <1>1 DEF InUse, Extents
  <1>2. InUse \in Nat
    BY UseFacts
  <1>3. ASSUME Sweeps
        PROVE  IsFiniteSet(objs') /\ InUse' <= InUse /\ InUse' \in Int
    <2>1. objs' \in SUBSET objs
      BY <1>3 DEF Sweeps, Copies
    <2>2. IsFiniteSet(objs')
      BY <2>1, FS_Subset
    <2>3. \A o \in objs' : Extents[o] \in Int /\ Extents[o] = Extents'[o]
      <3>1. \A o \in objs' : Extents'[o] = o.words + 1
        BY DEF Extents
      <3>. QED
        BY <2>1, <3>1, UseFacts
    <2>4. SumFunctionOnSet(Extents, objs') = SumFunctionOnSet(Extents', objs')
      BY <2>2, <2>3, SumSame
    <2>5. SumFunctionOnSet(Extents, objs') <= InUse
      BY <2>1, UseFacts, SumPart DEF InUse
    <2>6. SumFunctionOnSet(Extents, objs') \in Int
      BY <2>2, <2>3, SumInt
    <2>. QED
      BY <2>1, <2>2, <2>4, <2>5, <2>6 DEF InUse
  <1>4. ASSUME NEW p, NEW n, Puts(p, n)
        PROVE  IsFiniteSet(objs')
    BY <1>4, FS_AddElement DEF Puts
  <1>5. ASSUME NEW o, NEW p, Moves(o, p)
        PROVE  IsFiniteSet(objs') /\ InUse' = InUse
    <2> DEFINE new == [page |-> p, at |-> bump[p] + 1, words |-> o.words]
               S == objs \ {o}
    <2>1. o \in objs /\ objs' = S \cup {new} /\ p \in Q!PageIds
      BY <1>5 DEF Moves, Originals
    <2>2. new \notin S
      <3>1. ASSUME new \in objs
            PROVE  FALSE
        <4>1. new.at + new.words <= bump[new.page] /\ bump[new.page] \in Nat /\ new.words \in Nat
          BY <3>1, ObjectFacts
        <4>2. new.page = p /\ new.at = bump[p] + 1
          OBVIOUS
        <4> HIDE DEF new
        <4>. QED
          BY <4>1, <4>2
      <3>. QED
        BY <3>1
    <2>3. IsFiniteSet(S)
      BY FS_Subset
    <2>4. /\ \A q \in objs' : Extents'[q] = q.words + 1
          /\ \A q \in objs : Extents[q] = q.words + 1 /\ Extents[q] \in Int
      BY UseFacts DEF Extents
    <2>5. new.words = o.words
      OBVIOUS
    <2> HIDE DEF new
    <2>6. Extents'[new] = Extents[o] /\ Extents[o] \in Int
      BY <2>1, <2>4, <2>5
    <2>7. \A q \in S : Extents[q] \in Int /\ Extents[q] = Extents'[q]
      BY <2>1, <2>4
    <2>8. SumFunctionOnSet(Extents, S) = SumFunctionOnSet(Extents', S)
      <3> HIDE DEF S
      <3>. QED
        BY <2>3, <2>7, SumSame
    <2>9. SumFunctionOnSet(Extents, objs) = Extents[o] + SumFunctionOnSet(Extents, S)
      BY <2>1, <2>4, SumTake
    <2>10. \A q \in S \cup {new} : Extents'[q] \in Int
      BY <2>6, <2>7
    <2>11. IsFiniteSet(S \cup {new})
           /\ SumFunctionOnSet(Extents', S \cup {new}) = Extents'[new] + SumFunctionOnSet(Extents', S)
      <3> HIDE DEF S
      <3>. QED
        BY <2>2, <2>3, <2>10, SumAdd
    <2>. QED
      BY <2>1, <2>6, <2>8, <2>9, <2>11 DEF InUse
  <1>6. Starts \/ Rests => objs' = objs
    BY DEF Starts, Begins, Rests
  <1>. QED
    BY <1>1, <1>2, <1>3, <1>4, <1>5, <1>6

LEMMA RoomStep ==
  ASSUME BaseInv, intact, IsFiniteSet(objs), Filled, RoomInv,
         Starts \/ Rests \/ Sweeps \/ (\E p, n : Puts(p, n)) \/ (\E o, p : Moves(o, p))
  PROVE  IsFiniteSet(objs') /\ RoomInv'
  <1>1. IsFiniteSet(objs') /\ ((\E p, n : Puts(p, n)) \/ (InUse' \in Int /\ InUse' <= InUse))
    BY UseStep
  <1>2. Capacity' = Capacity /\ Capacity \in Nat /\ InUse \in Nat
    BY UseFacts, CapacityFacts DEF Capacity, Whole
  <1>3. ASSUME Starts
        PROVE  RoomInv'
    <2>1. pc = "client" /\ saved'.avail = Avail /\ InUse' = InUse
      BY <1>3 DEF Starts, Begins, BeginScan, InUse, Extents
    <2>2. Avail \in Int /\ Avail + InUse = Capacity
      BY <2>1, AvailIs
    <2>. QED
      BY <1>2, <2>1, <2>2 DEF RoomInv
  <1>4. ASSUME ~Starts, saved' # None, pc' \in {"client", "place", "trace"}
        PROVE  saved'.avail \in Int /\ saved'.avail + InUse' <= Capacity'
    <2>1. saved' = saved /\ pc \in {"client", "place", "trace"} /\ ~ \E p, n : Puts(p, n)
      BY <1>4 DEF Rests, Sweeps, Puts, Moves
    <2>2. saved.avail \in Int /\ saved.avail + InUse <= Capacity
      BY <1>4, <2>1 DEF RoomInv
    <2>. QED
      BY <1>1, <1>2, <2>1, <2>2
  <1>. QED
    BY <1>1, <1>3, <1>4 DEF RoomInv

\* What every state of a sane behaviour has.
SumsInv == Sane => IsFiniteSet(objs) /\ Filled /\ RoomInv

LEMMA SumsInit == Init => SumsInv
  <1>1. ASSUME Init
        PROVE  IsFiniteSet(objs) /\ Filled /\ RoomInv
    <2>1. objs = {} /\ bump = [p \in Q!PageIds |-> 0] /\ saved = None
      BY <1>1, SameActions DEF Init, Q!Init
    <2>. QED
      BY <2>1, FS_EmptySet DEF Filled, Packed, RoomInv
  <1>. QED
    BY <1>1 DEF SumsInv

LEMMA SumsStep ==
  ASSUME IInv, SumsInv, [Next]_vars
  PROVE  SumsInv'
  <1>1. ASSUME Sane'
        PROVE  IsFiniteSet(objs') /\ Filled' /\ RoomInv'
    <2>1. Sane
      BY <1>1, SaneBefore
    <2>2. BaseInv /\ intact /\ IsFiniteSet(objs) /\ Filled /\ RoomInv
      BY <2>1 DEF IInv, Sane, SumsInv
    <2>3. Starts \/ Rests \/ Sweeps \/ (\E p, n : Puts(p, n)) \/ (\E o, p : Moves(o, p))
      BY <1>1, <2>1, PagesInvStep, PageEffects
    <2>. QED
      BY <2>2, <2>3, FilledStep, RoomStep
  <1>. QED
    BY <1>1 DEF SumsInv

LEMMA SumsInductive == Spec => []SumsInv
  <1>. QED
    BY SumsInit, SumsStep, Inductive, PTL DEF Spec

\* h_gc with a safe stack returns at least 0: the memory available after it is no
\* less than before, for a copy takes as many words as what it is a copy of, nothing is
\* copied twice, and pages are filled without gaps.
THEOREM CollectionGivesBack == Spec => [](Sane => SafeGcCollects)
  <1>1. IInv /\ SumsInv => (Sane => SafeGcCollects)
    <2>1. SUFFICES ASSUME IInv, SumsInv, Sane, Collected
                   PROVE  Avail >= saved.avail
      BY DEF SafeGcCollects
    <2>2. BaseInv /\ intact /\ IsFiniteSet(objs) /\ Filled /\ RoomInv
      BY <2>1 DEF IInv, Sane, SumsInv
    <2>3. saved # None /\ pc \in {"client", "place"}
      BY <2>1 DEF Collected
    <2>4. saved.avail \in Int /\ saved.avail + InUse <= Capacity
      BY <2>2, <2>3 DEF RoomInv
    <2>. QED
      BY <2>2, <2>3, <2>4, AvailIs, UseFacts
  <1>. QED
    BY <1>1, Inductive, SumsInductive, PTL

-----------------------------------------------------------------------------
(* The walk of h_used.                                                     *)

\* It visits as many headers as there are objects on the page.
LEMMA MarksCount ==
  ASSUME NEW p, PageOk(p)
  PROVE  Cardinality(amap[p]) = Cardinality(On(p)) /\ Cardinality(On(p)) \in Nat
  <1> DEFINE f == [o \in On(p) |-> Q!Block(o.at)]
  <1>1. IsFiniteSet(On(p)) /\ Cardinality(On(p)) \in Nat
    BY OnFacts, FS_CardinalityType
  <1>2. \A b : b \in amap[p] <=> \E o \in On(p) : b = Q!Block(o.at)
    BY DEF PageOk, BaseInv, Q!MarksInv, On
  <1>3. ASSUME NEW o \in On(p), NEW q \in On(p), Q!Block(o.at) = Q!Block(q.at)
        PROVE  o = q
    <2>1. o \in objs /\ q \in objs /\ o.page = q.page
      BY OnFacts
    <2>2. Q!TypeOK /\ Q!MapInv /\ \A r \in objs : r.words > 0
      BY DEF PageOk, BaseInv, Q!IInv, Q!MarksInv
    <2>. QED
      BY <1>3, <2>1, <2>2, PagesAssumptions, Q!OneOwner
  <1>4. f \in [On(p) -> amap[p]] /\ \A o \in On(p) : f[o] = Q!Block(o.at)
    BY <1>2
  <1> HIDE DEF f
  <1>5. f \in Bijection(On(p), amap[p])
    BY <1>2, <1>3, <1>4 DEF Bijection, Injection, Surjection, IsInjective
  <1>. QED
    BY <1>1, <1>5, FS_Bijection DEF ExistsBijection

\* The words at which it visits them.
Steps(p, at, n) == at = [k \in 0 .. n |-> IF k = 0 THEN 0 ELSE NextHeader(p, at[k-1])]

LEMMA StepsExist ==
  ASSUME NEW p, NEW n \in Nat
  PROVE  \E at : Steps(p, at, n)
  <1> DEFINE B == {m \in Nat : ~ \E at : Steps(p, at, m)}
  <1>. SUFFICES ASSUME n \in B PROVE FALSE
    OBVIOUS
  <1>1. PICK m \in B : \A k \in B : m <= k
    <2>1. B \subseteq Nat /\ B # {}
      OBVIOUS
    <2> HIDE DEF B
    <2>. QED
      BY <2>1, LeastNumber
  <1>2. m \in Nat /\ ~ \E at : Steps(p, at, m)
    BY <1>1
  <1>3. CASE m = 0
    <2> DEFINE at == [k \in 0 .. 0 |-> 0]
    <2>1. Steps(p, at, 0)
      BY DEF Steps
    <2>. QED
      BY <1>2, <1>3, <2>1
  <1>4. CASE m # 0
    <2>1. m - 1 \in Nat /\ m - 1 \notin B
      BY <1>1, <1>2, <1>4
    <2>2. PICK at : Steps(p, at, m - 1)
      BY <2>1
    <2> DEFINE more == [k \in 0 .. m |-> IF k = 0 THEN 0 ELSE NextHeader(p, at[k-1])]
    <2>3. \A k \in 0 .. (m - 1) : at[k] = IF k = 0 THEN 0 ELSE NextHeader(p, at[k-1])
      BY <2>2 DEF Steps
    <2>4. \A k \in 0 .. (m - 1) : more[k] = at[k]
      BY <1>2, <2>3
    <2>5. \A k \in 0 .. m : k # 0 => k - 1 \in 0 .. (m - 1)
      BY <1>2
    <2>6. \A k \in 0 .. m : k # 0 => NextHeader(p, at[k-1]) = NextHeader(p, more[k-1])
      BY <2>4, <2>5
    <2>7. more = [k \in 0 .. m |-> IF k = 0 THEN 0 ELSE NextHeader(p, more[k-1])]
      BY <2>6, Zenon
    <2>8. Steps(p, more, m)
      <3> HIDE DEF more
      <3>. QED
        BY <2>7 DEF Steps
    <2>. QED
      BY <1>2, <2>8
  <1>. QED
    BY <1>3, <1>4

\* The headers hs that it finds there.
Walk(p, n, at, hs) ==
  /\ n = Cardinality(On(p)) /\ n \in Nat
  /\ Steps(p, at, n)
  /\ hs = [k \in 1 .. n |-> mem[<<p, at[k-1]>>]]

LEMMA HeadersWalked ==
  ASSUME NEW p, PageOk(p)
  PROVE  \E n, at : Walk(p, n, at, HeadersOf(p))
  <1> DEFINE n == Cardinality(amap[p])
             at == CHOOSE a : Steps(p, a, n)
  <1>1. n = Cardinality(On(p)) /\ n \in Nat
    BY MarksCount
  <1>2. Steps(p, at, n)
    BY <1>1, StepsExist
  <1>3. HeadersOf(p) = [k \in 1 .. n |-> mem[<<p, at[k-1]>>]]
    BY DEF HeadersOf, Steps
  <1> HIDE DEF n, at
  <1>. QED
    BY <1>1, <1>2, <1>3 DEF Walk

LEMMA WalkFacts ==
  ASSUME NEW p, NEW n, NEW at, NEW hs, Walk(p, n, at, hs)
  PROVE  /\ n = Cardinality(On(p)) /\ n \in Nat
         /\ \A k \in 1 .. n : hs[k] = mem[<<p, at[k-1]>>]
         /\ DOMAIN hs = 1 .. n
         /\ at[0] = 0
         /\ \A k \in 1 .. n : at[k] = NextHeader(p, at[k-1])
  <1>1. n = Cardinality(On(p)) /\ n \in Nat
    BY DEF Walk
  <1>2. hs = [k \in 1 .. n |-> mem[<<p, at[k-1]>>]]
    BY DEF Walk
  <1>3. at = [k \in 0 .. n |-> IF k = 0 THEN 0 ELSE NextHeader(p, at[k-1])]
    BY DEF Walk, Steps
  <1>4. 0 \in 0 .. n /\ \A k \in 1 .. n : k \in 0 .. n /\ k # 0
    BY <1>1
  <1>. QED
    BY <1>1, <1>2, <1>3, <1>4

\* The headers of the objects of a set.
LEMMA HeaderThere ==
  ASSUME NEW p, PageOk(p), NEW o \in On(p)
  PROVE  /\ mem[<<p, o.at - 1>>][1] = "header"
         /\ mem[<<p, o.at - 1>>][2].size = o.words
  <1>1. o \in objs /\ o.page = p
    BY OnFacts
  <1>. QED
    BY <1>1, ObjectFacts DEF PageOk

\* After k headers the k lowest objects have been counted.
HeaderSizes(hs, n) == [k \in 1 .. n |-> hs[k][2].size]
Counted(p, hs, n, X, k) ==
  /\ Cardinality(X) = k
  /\ \A j \in 1 .. k : hs[j][1] = "header" /\ hs[j][2].size \in Nat
  /\ SumFunctionOnSet(HeaderSizes(hs, n), 1 .. k) = SumFunctionOnSet(Payloads, X)
WalkedTo(p, at, hs, n, k) ==
  \E X, w : Below(p, X, w) /\ Counted(p, hs, n, X, k) /\ (k < n => at[k] = w)

LEMMA WalkStep ==
  ASSUME NEW p, PageOk(p), NEW n, NEW at, NEW hs, Walk(p, n, at, hs),
         NEW k \in Nat, k < n, WalkedTo(p, at, hs, n, k)
  PROVE  WalkedTo(p, at, hs, n, k + 1)
  <1>1. n \in Nat /\ n = Cardinality(On(p))
    BY WalkFacts
  <1>2. PICK X, w : Below(p, X, w) /\ Counted(p, hs, n, X, k) /\ at[k] = w
    BY DEF WalkedTo
  <1>3. X # On(p) /\ X \in SUBSET On(p)
    BY <1>1, <1>2 DEF Counted, Below
  <1>4. PICK o \in On(p) \ X : o.at - 1 = w /\ Below(p, X \cup {o}, o.at + o.words)
    BY <1>2, <1>3, NextBelow
  <1>5. /\ o.at \in Nat \ {0} /\ o.words \in Nat \ {0} /\ bump[p] \in Nat /\ bump[p] <= PageWords
        /\ IsFiniteSet(X)
    BY <1>3, OnFacts
  <1>6. k + 1 \in 1 .. n /\ (k + 1) - 1 = k
    BY <1>1
  <1>7. hs[k + 1] = mem[<<p, o.at - 1>>]
    BY <1>2, <1>4, <1>6, WalkFacts
  <1>8. hs[k + 1][1] = "header" /\ hs[k + 1][2].size = o.words
    BY <1>4, <1>7, HeaderThere
  <1>9. Counted(p, hs, n, X \cup {o}, k + 1)
    <2>1. Cardinality(X \cup {o}) = k + 1
      BY <1>2, <1>4, <1>5, FS_AddElement DEF Counted
    <2>2. \A j \in 1 .. (k + 1) : hs[j][1] = "header" /\ hs[j][2].size \in Nat
      <3>1. \A j \in 1 .. k : hs[j][1] = "header" /\ hs[j][2].size \in Nat
        BY <1>2 DEF Counted
      <3>2. \A j \in 1 .. (k + 1) : j \in 1 .. k \/ j = k + 1
        OBVIOUS
      <3>. QED
        BY <1>5, <1>8, <3>1, <3>2
    <2> DEFINE sz == HeaderSizes(hs, n)
    <2>3. \A j \in 1 .. (k + 1) : sz[j] = hs[j][2].size
      BY <1>1, <1>6 DEF HeaderSizes
    <2> HIDE DEF sz
    <2>4. 1 .. (k + 1) = (1 .. k) \cup {k + 1} /\ k + 1 \notin 1 .. k /\ IsFiniteSet(1 .. k)
      <3>1. 1 \in Int /\ k \in Int
        OBVIOUS
      <3>2. IsFiniteSet(1 .. k)
        BY <3>1, FS_Interval
      <3>3. 1 .. (k + 1) = (1 .. k) \cup {k + 1} /\ k + 1 \notin 1 .. k
        OBVIOUS
      <3>. QED
        BY <3>2, <3>3
    <2>5. \A j \in (1 .. k) \cup {k + 1} : sz[j] \in Int
      <3>1. \A j \in 1 .. (k + 1) : sz[j] \in Int
        BY <2>2, <2>3
      <3>. QED
        BY <2>4, <3>1
    <2>6. SumFunctionOnSet(sz, (1 .. k) \cup {k + 1}) = sz[k + 1] + SumFunctionOnSet(sz, 1 .. k)
      BY <2>4, <2>5, SumAdd
    <2>7. \A q \in X \cup {o} : Payloads[q] = q.words /\ Payloads[q] \in Int
      BY <1>3, <1>4, OnFacts
    <2>8. SumFunctionOnSet(Payloads, X \cup {o}) = Payloads[o] + SumFunctionOnSet(Payloads, X)
      BY <1>4, <1>5, <2>7, SumAdd
    <2>9. sz[k + 1] = o.words /\ Payloads[o] = o.words
      <3>1. k + 1 \in 1 .. (k + 1)
        OBVIOUS
      <3>. QED
        BY <1>8, <2>3, <2>7, <3>1
    <2>10. SumFunctionOnSet(sz, 1 .. k) = SumFunctionOnSet(Payloads, X)
      BY <1>2 DEF Counted, sz
    <2>. QED
      BY <2>1, <2>2, <2>4, <2>6, <2>8, <2>9, <2>10 DEF Counted, sz
  <1>10. ASSUME k + 1 < n
         PROVE  at[k + 1] = o.at + o.words
    <2>1. X \cup {o} # On(p)
      <3>1. Cardinality(X \cup {o}) = k + 1
        BY <1>9 DEF Counted
      <3>2. Cardinality(On(p)) # k + 1
        BY <1>1, <1>10
      <3>. QED
        BY <3>1, <3>2
    <2>2. PICK q \in On(p) : q \notin X \cup {o}
      BY <1>3, <1>4, <2>1
    <2>3. o.at + o.words <= q.at - 1
      BY <1>4, <2>2 DEF Below
    <2>4. q.at \in Nat /\ q.words \in Nat \ {0} /\ q.at + q.words <= bump[p]
      BY OnFacts
    <2>5. o.at + o.words < PageWords
      BY <1>5, <2>3, <2>4, PagesAssumption
    <2>6. at[k + 1] = NextHeader(p, at[k])
      BY <1>6, WalkFacts
    <2>7. mem[<<p, w>>] = hs[k + 1] /\ w + o.words + 1 = o.at + o.words
      <3>1. mem[<<p, w>>] = hs[k + 1]
        BY <1>4, <1>7
      <3>2. w + o.words + 1 = o.at + o.words
        BY <1>4, <1>5
      <3>. QED
        BY <3>1, <3>2
    <2>8. ~(o.at + o.words >= PageWords)
      BY <1>5, <2>5, PagesAssumption
    <2>. QED
      BY <1>2, <1>8, <2>6, <2>7, <2>8 DEF NextHeader
  <1>. QED
    BY <1>4, <1>9, <1>10 DEF WalkedTo

LEMMA WalkAll ==
  ASSUME NEW p, PageOk(p), NEW n, NEW at, NEW hs, Walk(p, n, at, hs)
  PROVE  WalkedTo(p, at, hs, n, n)
  <1> DEFINE B == {m \in Nat : m <= n /\ ~WalkedTo(p, at, hs, n, m)}
  <1>1. n \in Nat
    BY WalkFacts
  <1>. SUFFICES ASSUME n \in B PROVE FALSE
    BY <1>1
  <1>2. PICK m \in B : \A k \in B : m <= k
    <2>1. B \subseteq Nat /\ B # {}
      BY <1>1
    <2> HIDE DEF B
    <2>. QED
      BY <2>1, LeastNumber
  <1>3. m \in Nat /\ m <= n /\ ~WalkedTo(p, at, hs, n, m)
    BY <1>2
  <1>4. m # 0
    <2>1. Below(p, {}, 0)
      BY NoneBelow
    <2>2. Counted(p, hs, n, {}, 0)
      <3>1. Cardinality({}) = 0
        BY FS_EmptySet
      <3>2. 1 .. 0 = {}
        OBVIOUS
      <3>. QED
        BY <3>1, <3>2, SumEmpty DEF Counted
    <2>3. at[0] = 0
      BY WalkFacts
    <2>4. WalkedTo(p, at, hs, n, 0)
      BY <2>1, <2>2, <2>3 DEF WalkedTo
    <2>. QED
      BY <1>3, <2>4
  <1>5. m - 1 \in Nat /\ m - 1 < n /\ (m - 1) + 1 = m
    BY <1>1, <1>3, <1>4
  <1>6. WalkedTo(p, at, hs, n, m - 1)
    BY <1>2, <1>3, <1>5
  <1>7. WalkedTo(p, at, hs, n, (m - 1) + 1)
    <2> HIDE DEF B
    <2>. QED
      BY <1>5, <1>6, WalkStep
  <1>. QED
    BY <1>3, <1>5, <1>7

\* So that it counts the words of the objects of the page.
LEMMA PageUsed ==
  ASSUME NEW p, PageOk(p)
  PROVE  /\ \A k \in DOMAIN HeadersOf(p) : HeadersOf(p)[k][1] = "header"
         /\ UsedOnPage(p) = SumFunctionOnSet(Payloads, On(p))
  <1> DEFINE hs == HeadersOf(p)
  <1>1. PICK n, at : Walk(p, n, at, hs)
    BY HeadersWalked
  <1>2. n = Cardinality(On(p)) /\ n \in Nat /\ DOMAIN hs = 1 .. n
    <2> HIDE DEF hs
    <2>. QED
      BY <1>1, WalkFacts
  <1>3. WalkedTo(p, at, hs, n, n)
    <2> HIDE DEF hs
    <2>. QED
      BY <1>1, WalkAll
  <1>4. PICK X, w : Below(p, X, w) /\ Counted(p, hs, n, X, n)
    BY <1>3 DEF WalkedTo
  <1>5. X = On(p)
    <2>1. X \in SUBSET On(p) /\ Cardinality(X) = n
      BY <1>4 DEF Below, Counted
    <2>. QED
      BY <1>2, <2>1, OnFacts, FS_Subset
  <1>6. \A k \in 1 .. n : hs[k][1] = "header"
    BY <1>4 DEF Counted
  <1>7. SumFunctionOnSet(HeaderSizes(hs, n), 1 .. n) = SumFunctionOnSet(Payloads, On(p))
    BY <1>4, <1>5 DEF Counted
  <1>8. UsedOnPage(p) = SumFunctionOnSet(HeaderSizes(hs, n), 1 .. n)
    <2>1. UsedOnPage(p) = SumFunction([k \in DOMAIN hs |-> hs[k][2].size])
      BY DEF UsedOnPage
    <2>2. [k \in DOMAIN hs |-> hs[k][2].size] = HeaderSizes(hs, n)
      BY <1>2 DEF HeaderSizes
    <2>3. DOMAIN HeaderSizes(hs, n) = 1 .. n
      BY DEF HeaderSizes
    <2> HIDE DEF hs
    <2>. QED
      BY <2>1, <2>2, <2>3 DEF SumFunction
  <1>. QED
    BY <1>2, <1>6, <1>7, <1>8

LEMMA AllUsed ==
  ASSUME BaseInv, intact, IsFiniteSet(objs), Filled, pc = "client"
  PROVE  HUsed = SumFunctionOnSet(Payloads, objs)
  <1> DEFINE home == [o \in objs |-> o.page]
             used == [p \in active |-> UsedOnPage(p)]
  <1>1. active \subseteq Q!PageIds
    BY DEF BaseInv, Q!IInv, Q!TypeOK
  <1>2. IsFiniteSet(active)
    BY <1>1, CapacityFacts, FS_Subset
  <1>3. \A p \in active : PageOk(p)
    BY <1>1 DEF PageOk, Filled, InTurn
  <1>4. \A p \in active : \A k \in DOMAIN HeadersOf(p) : HeadersOf(p)[k][1] = "header"
    BY <1>3, PageUsed
  <1>5. HUsed = SumFunction(used)
    <2>1. active \cap P!PageIds = active
      BY <1>1, SamePages
    <2>. QED
      BY <1>4, <2>1 DEF HUsed
  <1>6. \A p \in active : used[p] = SumFunctionOnSet(Payloads, Grouped(objs, home, p))
    <2>1. \A p : Grouped(objs, home, p) = On(p)
      BY DEF Grouped, On
    <2>2. \A p \in active : UsedOnPage(p) = SumFunctionOnSet(Payloads, On(p))
      BY <1>3, PageUsed
    <2>. QED
      BY <2>1, <2>2
  <1>7. \A o \in objs : Payloads[o] \in Int /\ home[o] \in active
    <2>1. ASSUME NEW o \in objs
          PROVE  o.words \in Nat /\ o.page \in active
      BY ObjectFacts, AllActive
    <2>. QED
      BY <2>1 DEF Payloads
  <1>8. DOMAIN used = active
    OBVIOUS
  <1> HIDE DEF home, used
  <1>9. SumFunctionOnSet(Payloads, objs) = SumFunctionOnSet(used, active)
    BY <1>2, <1>6, <1>7, SumGrouped
  <1>. QED
    BY <1>5, <1>8, <1>9 DEF SumFunction

\* Between collections h_used is the words of the objects that there are: its walk
\* from header to header visits every object of an active page, once, and nothing else.
THEOREM UsedCounts == Spec => []UsedExact
  <1>1. IInv /\ SumsInv => UsedExact
    <2>1. SUFFICES ASSUME IInv, SumsInv, Sane, pc = "client"
                   PROVE  HUsed = SumFunction([o \in objs |-> o.words])
      BY DEF UsedExact, Sane
    <2>2. BaseInv /\ intact /\ IsFiniteSet(objs) /\ Filled
      BY <2>1 DEF IInv, Sane, SumsInv
    <2>3. HUsed = SumFunctionOnSet(Payloads, objs) /\ DOMAIN Payloads = objs
      BY <2>1, <2>2, AllUsed DEF Payloads
    <2>4. SumFunction(Payloads) = SumFunctionOnSet(Payloads, objs)
      BY <2>3 DEF SumFunction
    <2>. QED
      BY <2>3, <2>4 DEF Payloads
  <1>. QED
    BY <1>1, Inductive, SumsInductive, PTL

-----------------------------------------------------------------------------
(* The pages that objects of one size need.                                *)

\* Every object takes d words, so that a page holds at most F words of objects,
\* and a page without room for another one holds F.
Unit(d) == \A k \in Kinds : k.size + 1 = d
Multiple(d, x) == \E m \in Nat : x = m * d
IsFull(F, d) ==
  /\ F \in Nat \ {0}
  /\ \A x \in Nat : Multiple(d, x) /\ x <= PageWords => x <= F /\ (x + d > PageWords => x = F)

LEMMA FullExists ==
  ASSUME NEW d \in 1 .. PageWords
  PROVE  \E F : IsFull(F, d)
  <1> DEFINE B == {m \in Nat : m * d + d > PageWords}
  <1>1. PageWords \in Nat \ {0} /\ d \in Nat \ {0}
    BY PagesAssumption
  <1>2. PICK c \in B : \A m \in B : c <= m
    <2>1. PageWords * 1 <= PageWords * d
      <3>1. 1 * PageWords <= d * PageWords
        BY <1>1, TimesMono
      <3>. QED
        BY <1>1, <3>1
    <2>2. PageWords \in B
      BY <1>1, <2>1
    <2>3. B \subseteq Nat /\ B # {}
      BY <2>2
    <2> HIDE DEF B
    <2>. QED
      BY <2>3, LeastNumber
  <1>3. c \in Nat /\ c * d + d > PageWords /\ c * d \in Nat
    BY <1>1, <1>2
  <1>4. c # 0
    BY <1>1, <1>3
  <1>5. 1 * d <= c * d
    BY <1>1, <1>3, <1>4, TimesMono
  <1>6. ASSUME NEW m \in Nat, m * d <= PageWords
        PROVE  m * d <= c * d /\ (m * d + d > PageWords => m * d = c * d)
    <2>1. m <= c
      <3>1. ASSUME c + 1 <= m
            PROVE  FALSE
        <4>1. (c + 1) * d <= m * d
          BY <1>1, <1>3, <3>1, TimesMono
        <4>2. (c + 1) * d = c * d + d
          BY <1>1, <1>3
        <4>3. m * d \in Nat
          BY <1>1
        <4>. QED
          BY <1>1, <1>3, <1>6, <4>1, <4>2, <4>3
      <3>. QED
        BY <1>3, <3>1
    <2>2. m * d <= c * d
      BY <1>1, <1>3, <2>1, TimesMono
    <2>3. ASSUME m * d + d > PageWords
          PROVE  m = c
      <3>1. m \in B
        BY <2>3
      <3>. QED
        BY <1>2, <1>3, <2>1, <3>1
    <2>. QED
      BY <2>2, <2>3
  <1>7. c * d \in Nat \ {0}
    BY <1>1, <1>3, <1>5
  <1>8. IsFull(c * d, d)
    BY <1>6, <1>7 DEF IsFull, Multiple
  <1>. QED
    BY <1>8

\* When all objects take d words: pages are filled with them, one page after the other
\* by a collection, so that no more pages are needed than before it; at most one page
\* more than half becomes active.
Mounting(d) ==
  \A p, q \in Q!PageIds \ active : p < q /\ bump[q] # 0 => bump[p] + d > PageWords
Paced(d, F) ==
  /\ \A p \in Q!PageIds : Multiple(d, bump[p])
  /\ pc = "trace" => Mounting(d) /\ InUse <= Cardinality(active) * F
  /\ Cardinality(active) <= Q!Half + 1
  /\ pc = "place" \/ (pc = "trace" /\ req # 0) => Cardinality(active) <= Q!Half
OneSize(d, F) == d \in 1 .. PageWords /\ Unit(d) /\ IsFull(F, d)

LEMMA MultipleNext ==
  ASSUME NEW d \in Nat, NEW x \in Nat, Multiple(d, x)
  PROVE  Multiple(d, x + d)
  <1>1. PICK m \in Nat : x = m * d
    BY DEF Multiple
  <1>2. (m + 1) * d = x + d /\ m + 1 \in Nat
    BY <1>1
  <1>. QED
    BY <1>2 DEF Multiple

LEMMA ActiveFacts ==
  ASSUME BaseInv, intact
  PROVE  /\ active \subseteq Q!PageIds /\ IsFiniteSet(active) /\ Cardinality(active) \in Nat
         /\ Q!Half \in Nat
         /\ Q!PressureAtMostOne => Cardinality(active) <= Q!Half
         /\ bump \in [Q!PageIds -> Nat] /\ PageWords \in Nat
  <1>1. active \subseteq Q!PageIds /\ bump \in [Q!PageIds -> Nat]
    BY DEF BaseInv, Q!IInv, Q!TypeOK
  <1>2. IsFiniteSet(active) /\ Cardinality(active) \in Nat
    BY <1>1, CapacityFacts, FS_Subset, FS_CardinalityType
  <1>3. Q!Half \in Nat /\ PageWords \in Nat
    BY PagesAssumption DEF Q!Half
  <1>4. Q!PressureAtMostOne => Cardinality(active) <= Q!Half
    BY DEF Q!PressureAtMostOne, Q!Cardinality, Cardinality
  <1>. QED
    BY <1>1, <1>2, <1>3, <1>4

\* A collection begins with at most F words of objects on every active page.
LEMMA PacedStart ==
  ASSUME BaseInv, intact, IsFiniteSet(objs), Filled, NEW d, NEW F, OneSize(d, F), Paced(d, F), Starts
  PROVE  Paced(d, F)'
  <1>1. /\ pc = "client" /\ pc' = "trace" /\ UNCHANGED <<active, bump, objs>>
        /\ req' = 0 \/ Q!PressureAtMostOne
    BY DEF Starts, Begins
  <1>2. \A p \in Q!PageIds \ active : bump[p] = 0
    BY <1>1 DEF BaseInv, Q!IInv, Q!MapInv, Q!Passive
  <1>3. Mounting(d)'
    BY <1>1, <1>2 DEF Mounting
  <1>4. InUse <= Cardinality(active) * F
    <2>1. InUse = SumFunctionOnSet(bump, active)
      <3>1. objs = {o \in objs : o.page \in active}
        BY <1>1, AllActive
      <3>2. \A p \in active : Packed(p)
        BY <1>1, ActiveFacts DEF Filled, InTurn
      <3>. QED
        BY <3>1, <3>2, ActiveFacts, PagesUse DEF InUse
    <2>2. ASSUME NEW p \in active
          PROVE  bump[p] \in Int /\ bump[p] <= F
      <3>1. p \in Q!PageIds /\ bump[p] \in Nat
        BY ActiveFacts
      <3>2. bump[p] <= PageWords /\ Multiple(d, bump[p])
        BY <3>1 DEF BaseInv, Q!IInv, Q!MapInv, Paced
      <3>. QED
        BY <3>1, <3>2 DEF OneSize, IsFull
    <2>3. F \in Nat
      BY DEF OneSize, IsFull
    <2>. QED
      BY <2>1, <2>2, <2>3, ActiveFacts, SumBounds
  <1>5. InUse' = InUse
    BY <1>1 DEF InUse, Extents
  <1>6. req' # 0 => Cardinality(active) <= Q!Half
    BY <1>1, ActiveFacts
  <1>. QED
    BY <1>1, <1>3, <1>4, <1>5, <1>6 DEF Paced

LEMMA PacedPuts ==
  ASSUME BaseInv, intact, NEW d, NEW F, OneSize(d, F), Paced(d, F), NEW r, NEW n, Puts(r, n)
  PROVE  Paced(d, F)'
  <1>1. /\ pc \in {"client", "place"} /\ pc' = "client" /\ r \in Q!PageIds /\ n + 1 = d /\ n \in Nat
        /\ bump' = [bump EXCEPT ![r] = bump[r] + n + 1]
    BY DEF Puts, OneSize, Unit
  <1>2. ASSUME NEW p \in Q!PageIds
        PROVE  Multiple(d, bump'[p])
    <2>1. Multiple(d, bump[p]) /\ bump[p] \in Nat /\ d \in Nat
      BY <1>1, ActiveFacts DEF Paced
    <2>2. bump'[p] = bump[p] \/ bump'[p] = bump[p] + d
      BY <1>1, <2>1, ActiveFacts
    <2>. QED
      BY <2>1, <2>2, MultipleNext
  <1>3. Cardinality(active') <= Q!Half + 1
    <2>1. CASE active' = active
      BY <2>1 DEF Paced
    <2>2. CASE active' = active \cup {r} /\ (pc = "place" \/ Q!PressureAtMostOne)
      <3>1. Cardinality(active) <= Q!Half
        BY <2>2, ActiveFacts DEF Paced
      <3>2. Cardinality(active \cup {r}) <= Cardinality(active) + 1
        BY ActiveFacts, FS_AddElement
      <3>3. Cardinality(active \cup {r}) \in Nat
        BY ActiveFacts, FS_AddElement, FS_CardinalityType
      <3>. QED
        BY <2>2, <3>1, <3>2, <3>3, ActiveFacts
    <2>. QED
      BY <2>1, <2>2 DEF Puts
  <1>. QED
    BY <1>1, <1>2, <1>3 DEF Paced

LEMMA PacedMoves ==
  ASSUME BaseInv, intact, IsFiniteSet(objs), NEW d, NEW F, OneSize(d, F), Paced(d, F),
         NEW o, NEW r, Moves(o, r)
  PROVE  Paced(d, F)'
  <1>1. /\ pc = "trace" /\ pc' = "trace" /\ req' = req /\ active' = active /\ r \in Q!PageIds \ active
        /\ bump' = [bump EXCEPT ![r] = bump[r] + o.words + 1]
        /\ \A q \in Q!PageIds \ active : q < r => bump[q] + o.words + 1 > PageWords
        /\ o \in objs
    BY DEF Moves, Originals
  <1>2. o.words + 1 = d /\ d \in Nat /\ o.words \in Nat
    <2>1. \E k \in Kinds : o.words = k.size
      BY <1>1 DEF BaseInv, HeadersInv
    <2>2. o.words + 1 = d
      BY <2>1 DEF OneSize, Unit
    <2>3. d \in Nat
      BY ActiveFacts DEF OneSize
    <2>4. o.words \in Nat
      BY <1>1, ObjectFacts
    <2>. QED
      BY <2>2, <2>3, <2>4
  <1>3. ASSUME NEW p \in Q!PageIds
        PROVE  /\ bump[p] \in Nat /\ Multiple(d, bump[p])
               /\ bump'[p] = IF p = r THEN bump[p] + d ELSE bump[p]
    <2>1. bump[p] \in Nat /\ Multiple(d, bump[p])
      BY ActiveFacts DEF Paced
    <2>2. bump'[p] = IF p = r THEN bump[p] + d ELSE bump[p]
      BY <1>1, <1>2, <2>1, ActiveFacts
    <2>. QED
      BY <2>1, <2>2
  <1>4. \A p \in Q!PageIds : Multiple(d, bump'[p])
    BY <1>2, <1>3, MultipleNext
  <1>5. ASSUME NEW p \in Q!PageIds \ active, NEW q \in Q!PageIds \ active, p < q, bump'[q] # 0
        PROVE  bump'[p] + d > PageWords
    <2>1. bump[p] + d > PageWords
      <3>1. CASE q = r
        <4>1. bump[p] + o.words + 1 > PageWords
          BY <1>1, <1>5, <3>1
        <4>. QED
          BY <1>2, <1>3, <4>1
      <3>2. CASE q # r
        <4>1. bump[q] # 0
          BY <1>3, <1>5, <3>2
        <4>. QED
          BY <1>1, <1>5, <4>1 DEF Paced, Mounting
      <3>. QED
        BY <3>1, <3>2
    <2>2. bump'[p] >= bump[p] /\ bump[p] \in Nat /\ bump'[p] \in Nat
      BY <1>2, <1>3
    <2>. QED
      BY <1>2, <2>1, <2>2, ActiveFacts
  <1>6. Mounting(d)'
    BY <1>1, <1>5 DEF Mounting
  <1>7. InUse' <= Cardinality(active) * F
    <2>1. ~ \E p, n : Puts(p, n)
      BY <1>1 DEF Puts
    <2>2. InUse' \in Int /\ InUse' <= InUse
      BY <2>1, UseStep
    <2>3. InUse <= Cardinality(active) * F /\ InUse \in Nat
      BY <1>1, UseFacts DEF Paced
    <2>4. Cardinality(active) * F \in Nat
      BY ActiveFacts DEF OneSize, IsFull
    <2>. QED
      BY <2>2, <2>3, <2>4
  <1>. QED
    BY <1>1, <1>4, <1>6, <1>7 DEF Paced

\* A sweep leaves no more pages active than there were.
LEMMA PacedSweeps ==
  ASSUME BaseInv, intact, IsFiniteSet(objs), Filled, NEW d, NEW F, OneSize(d, F), Paced(d, F), Sweeps
  PROVE  Paced(d, F)'
  <1> DEFINE U == {p \in Q!PageIds \ active : bump[p] # 0}
             T == Q!PageIds \ active
             S == {o \in objs : o.page \in T}
  <1>1. /\ pc = "trace" /\ pc' = (IF req = 0 THEN "client" ELSE "place") /\ active' = U
        /\ bump' = [p \in Q!PageIds |-> IF p \in active THEN 0 ELSE bump[p]]
    BY DEF Sweeps
  <1>2. /\ U \in SUBSET T /\ U \in SUBSET Q!PageIds /\ T \in SUBSET Q!PageIds
        /\ IsFiniteSet(U) /\ IsFiniteSet(T) /\ Cardinality(U) \in Nat
    BY CapacityFacts, FS_Subset, FS_CardinalityType
  <1>3. \A p \in T : bump[p] \in Nat /\ bump[p] \in Int
    BY ActiveFacts
  <1>4. SumFunctionOnSet(bump, U) <= Cardinality(active) * F
    <2>1. SumFunctionOnSet(bump, U) <= SumFunctionOnSet(bump, T)
      <3> HIDE DEF U, T
      <3>. QED
        BY <1>2, <1>3, SumPart
    <2>2. SumFunctionOnSet(Extents, S) = SumFunctionOnSet(bump, T)
      <3>1. \A p \in T : Packed(p)
        BY <1>1 DEF Filled, InTurn
      <3> HIDE DEF T
      <3>. QED
        BY <1>2, <3>1, PagesUse
    <2>3. SumFunctionOnSet(Extents, S) <= InUse
      <3>1. S \in SUBSET objs
        OBVIOUS
      <3> HIDE DEF S
      <3>. QED
        BY <3>1, UseFacts, SumPart DEF InUse
    <2>4. InUse <= Cardinality(active) * F /\ InUse \in Nat
      BY <1>1, UseFacts DEF Paced
    <2>5. Cardinality(active) * F \in Nat
      BY ActiveFacts DEF OneSize, IsFull
    <2>6. SumFunctionOnSet(bump, U) \in Int /\ SumFunctionOnSet(bump, T) \in Int
      <3> HIDE DEF U, T
      <3>. QED
        BY <1>2, <1>3, SumInt
    <2> HIDE DEF U, T, S
    <2>. QED
      BY <2>1, <2>2, <2>3, <2>4, <2>5, <2>6
  <1>5. Cardinality(U) <= Cardinality(active)
    <2>. SUFFICES ASSUME U # {} PROVE Cardinality(U) <= Cardinality(active)
      BY FS_EmptySet, ActiveFacts
    <2> DEFINE B == {NumPages - p : p \in U}
    <2>1. PICK last \in U : \A p \in U : p <= last
      <3>1. B \subseteq Nat /\ B # {}
        BY <1>2, PagesAssumption DEF Q!PageIds
      <3>2. PICK b \in B : \A c \in B : b <= c
        <4> HIDE DEF B
        <4>. QED
          BY <3>1, LeastNumber
      <3>3. PICK q \in U : b = NumPages - q
        BY <3>2
      <3>4. \A p \in U : NumPages - q <= NumPages - p
        BY <3>2, <3>3
      <3>5. \A p \in U : p \in Int /\ NumPages \in Int
        BY <1>2, PagesAssumption DEF Q!PageIds
      <3> HIDE DEF U, B
      <3>. QED
        BY <3>3, <3>4, <3>5
    <2>2. ASSUME NEW p \in U \ {last}
          PROVE  bump[p] = F
      <3>1. p < last
        BY <2>1, <1>2 DEF Q!PageIds
      <3>2. bump[p] + d > PageWords
        BY <1>1, <3>1 DEF Paced, Mounting
      <3>3. p \in Q!PageIds /\ bump[p] \in Nat /\ Multiple(d, bump[p]) /\ bump[p] <= PageWords
        BY ActiveFacts DEF Paced, BaseInv, Q!IInv, Q!MapInv
      <3>. QED
        BY <3>2, <3>3 DEF OneSize, IsFull
    <2>3. F \in Nat \ {0} /\ bump[last] \in Nat \ {0}
      BY ActiveFacts DEF OneSize, IsFull
    <2> HIDE DEF U
    <2>4. IsFiniteSet(U \ {last}) /\ Cardinality(U \ {last}) = Cardinality(U) - 1
      BY <1>2, FS_RemoveElement
    <2>5. SumFunctionOnSet(bump, U) = bump[last] + SumFunctionOnSet(bump, U \ {last})
      BY <1>2, <1>3, SumTake
    <2>6. SumFunctionOnSet(bump, U \ {last}) >= (Cardinality(U) - 1) * F
      <3>1. \A p \in U \ {last} : bump[p] \in Int /\ bump[p] >= F
        BY <2>2, <2>3
      <3>. QED
        BY <2>3, <2>4, <3>1, SumBounds
    <2>7. SumFunctionOnSet(bump, U \ {last}) \in Int
      <3>1. \A p \in U \ {last} : bump[p] \in Int
        BY <2>2, <2>3
      <3>. QED
        BY <2>4, <3>1, SumInt
    <2>. SUFFICES ASSUME Cardinality(active) + 1 <= Cardinality(U) PROVE FALSE
      BY <1>2, ActiveFacts
    <2>8. Cardinality(U) - 1 \in Nat /\ Cardinality(active) <= Cardinality(U) - 1
      BY <1>2, ActiveFacts
    <2>9. Cardinality(active) * F <= (Cardinality(U) - 1) * F
      BY <2>3, <2>8, ActiveFacts, TimesMono
    <2>10. Cardinality(active) * F \in Nat /\ (Cardinality(U) - 1) * F \in Nat
      BY <2>3, <2>8, ActiveFacts
    <2>. QED
      BY <1>4, <2>3, <2>5, <2>6, <2>7, <2>9, <2>10
  <1>6. \A p \in Q!PageIds : Multiple(d, bump'[p])
    <2>1. Multiple(d, 0)
      <3>1. 0 = 0 * d
        BY ActiveFacts DEF OneSize
      <3>. QED
        BY <3>1 DEF Multiple
    <2>. QED
      BY <1>1, <2>1 DEF Paced
  <1>7. Cardinality(active') <= Cardinality(active) /\ Cardinality(active') \in Nat
    BY <1>1, <1>2, <1>5
  <1>8. Cardinality(active) <= Q!Half + 1 /\ (req # 0 => Cardinality(active) <= Q!Half)
    BY <1>1 DEF Paced
  <1> HIDE DEF U, T, S
  <1>. QED
    BY <1>1, <1>6, <1>7, <1>8, ActiveFacts DEF Paced

LEMMA PacedRests ==
  ASSUME NEW d, NEW F, Paced(d, F), Rests
  PROVE  Paced(d, F)'
  <1>1. /\ UNCHANGED <<active, bump, objs, req>>
        /\ pc' = pc \/ pc' \in {"abort", "deleted"}
    BY DEF Rests
  <1>2. InUse' = InUse /\ (Mounting(d)' <=> Mounting(d))
    BY <1>1 DEF InUse, Extents, Mounting
  <1>. QED
    BY <1>1, <1>2 DEF Paced

PressureInv == Sane => \A d, F : OneSize(d, F) => Paced(d, F)

LEMMA PressureInit == Init => PressureInv
  <1>1. SUFFICES ASSUME Init, NEW d, NEW F, OneSize(d, F)
                 PROVE  Paced(d, F)
    BY DEF PressureInv
  <1>2. active = {} /\ bump = [p \in Q!PageIds |-> 0] /\ pc = "client"
    BY <1>1, SameActions DEF Init, Q!Init
  <1>3. Multiple(d, 0)
    <2>1. 0 = 0 * d
      BY <1>1, PagesAssumption DEF OneSize
    <2>. QED
      BY <2>1 DEF Multiple
  <1>4. Cardinality(active) = 0 /\ Q!Half \in Nat
    BY <1>2, FS_EmptySet, PagesAssumption DEF Q!Half
  <1>. QED
    BY <1>2, <1>3, <1>4 DEF Paced

LEMMA PressureStep ==
  ASSUME IInv, SumsInv, PressureInv, [Next]_vars
  PROVE  PressureInv'
  <1>1. ASSUME Sane', NEW d, NEW F, OneSize(d, F)
        PROVE  Paced(d, F)'
    <2>1. Sane
      BY <1>1, SaneBefore
    <2>2. BaseInv /\ intact /\ IsFiniteSet(objs) /\ Filled /\ Paced(d, F)
      BY <1>1, <2>1 DEF IInv, Sane, SumsInv, PressureInv
    <2>3. Starts \/ Rests \/ Sweeps \/ (\E p, n : Puts(p, n)) \/ (\E o, p : Moves(o, p))
      BY <1>1, <2>1, PagesInvStep, PageEffects
    <2>4. Starts => Paced(d, F)'
      BY <1>1, <2>2, PacedStart
    <2>5. Rests => Paced(d, F)'
      BY <2>2, PacedRests
    <2>6. Sweeps => Paced(d, F)'
      BY <1>1, <2>2, PacedSweeps
    <2>7. ASSUME NEW p, NEW n, Puts(p, n)
          PROVE  Paced(d, F)'
      BY <1>1, <2>2, <2>7, PacedPuts
    <2>8. ASSUME NEW o, NEW p, Moves(o, p)
          PROVE  Paced(d, F)'
      BY <1>1, <2>2, <2>8, PacedMoves
    <2>. QED
      BY <2>3, <2>4, <2>5, <2>6, <2>7, <2>8
  <1>2. \A d, F : OneSize(d, F)' <=> OneSize(d, F)
    BY DEF OneSize, Unit, IsFull, Multiple
  <1>. QED
    BY <1>1, <1>2 DEF PressureInv

\* With objects of one size at most one page more than half is active, however many
\* collections there have been.
THEOREM PressureKept == Spec => []PressureBounded
  <1>1. Spec => []PressureInv
    BY PressureInit, PressureStep, Inductive, SumsInductive, PTL DEF Spec
  <1>2. PressureInv => PressureBounded
    <2>1. SUFFICES ASSUME PressureInv, Sane, \A j, k \in Kinds : j.size = k.size
                   PROVE  Cardinality(active) <= P!Half + 1
      BY DEF PressureBounded, Sane
    <2>2. PICK d \in 1 .. PageWords : Unit(d)
      <3>1. CASE Kinds = {}
        BY <3>1, PagesAssumption DEF Unit
      <3>2. CASE Kinds # {}
        <4>1. PICK k \in Kinds : TRUE
          BY <3>2
        <4>2. k.size \in Nat \ {0} /\ k.size < PageWords
          BY KindFacts
        <4>3. k.size + 1 \in 1 .. PageWords
          BY <4>2, PagesAssumption
        <4>4. Unit(k.size + 1)
          BY <2>1 DEF Unit
        <4>. QED
          BY <4>3, <4>4
      <3>. QED
        BY <3>1, <3>2
    <2>3. PICK F : IsFull(F, d)
      BY FullExists
    <2>4. Paced(d, F)
      BY <2>1, <2>2, <2>3 DEF PressureInv, OneSize
    <2>. QED
      BY <2>4, SamePages DEF Paced
  <1>. QED
    BY <1>1, <1>2, PTL

=============================================================================
