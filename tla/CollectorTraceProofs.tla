----------------------- MODULE CollectorTraceProofs -------------------------
(***************************************************************************)
(* The inductive invariant of Collector, and that the steps of the trace   *)
(* keep it.  What the trace needs is that every step of it is one of       *)
(* module Pages (PagesStep), whose invariant says that objects lie apart;  *)
(* then what one copy changes (CopyEffect), what that means for pointers   *)
(* to other objects (CopyKeepsWords), for fields (CopyKeepsTraced) and for *)
(* the pointer that led there (RootCopied, ChildCopied).                   *)
(***************************************************************************)
EXTENDS Collector, SequenceTheorems, TLAPS

\* Module Pages without copies of what is no object, and its proofs.
Q == INSTANCE PagesProofs WITH Sizes <- {k.size : k \in Kinds}, MisreadSizes <- {}

\* No foreign store has hit the page map, and every collection began with a
\* safe stack on a heap that the collector preserves.
Sane == intact /\ ~disturbed

-----------------------------------------------------------------------------
(* Objects as the heap has them.                                           *)

Hd(o) == HeaderOf(AddressOf(o))
Id(o) == Hd(o)[3]
PtrsIn(o) == Hd(o)[2].ptrs
FieldAt(o, i) == Plus(AddressOf(o), PtrsIn(o)[i])
Word(o, i) == mem[FieldAt(o, i)]

\* Every object has a header of its kind, and an identity of its own.
HeadersInv ==
  /\ \A o \in objs :
       \E k \in Kinds, id \in 1 .. made : Hd(o) = Header(k, id) /\ o.words = k.size
  /\ \A o, q \in objs : Id(o) = Id(q) => o = q

\* What an object that the client has been given holds: nothing or pointers to
\* objects, once it is initialised.
Initialised(o) == fresh = 0 \/ stack[fresh] # Ptr(AddressOf(o))
FieldsInv ==
  \A o \in objs : Initialised(o) =>
    \A i \in DOMAIN PtrsIn(o) : Word(o, i) = Nil \/ \E q \in objs : Word(o, i) = Ptr(AddressOf(q))

-----------------------------------------------------------------------------
(* The heap that a collection found, by the identities of its objects: the *)
(* roots, the edges from the fields of the objects, and what is reached.   *)

Object(x) == <<"object", x>>
Root(s) == saved.view.roots[s]
Edges == saved.view.fields
Ids == saved.ids

Closed(X) == \A e \in Edges, y \in Ids : e[1] \in X /\ e[3] = Object(y) => y \in X
HasRoots(X, s) == \A t \in 1 .. (s - 1), y \in Ids : Root(t) = Object(y) => y \in X

\* It was a forest, whose roots are scanned from above.
GraphInv ==
  /\ saved.mode = "safe"
  /\ saved.view = [roots |-> [s \in Slots |-> Root(s)], fields |-> Edges]
  /\ Ids \subseteq 1 .. made
  /\ Edges \subseteq Ids \X Nat \X ({Nil} \cup {Object(y) : y \in Ids})
  /\ \A s \in Slots : Root(s) \in {Nil, Data} \cup {Object(y) : y \in Ids}
  /\ \A e, f \in Edges : e[1] = f[1] /\ e[2] = f[2] => e[3] = f[3]
  /\ \A e, f \in Edges : e[3] = f[3] /\ e[3] # Nil => e[1] = f[1] /\ e[2] = f[2]
  /\ \A X \in SUBSET Ids : HasRoots(X, NumSlots + 1) /\ Closed(X) => X = Ids
  /\ \A s \in Slots, e \in Edges : Root(s) = e[3] /\ e[3] # Nil =>
       \A X \in SUBSET Ids : HasRoots(X, s) /\ Closed(X) => e[1] \in X

-----------------------------------------------------------------------------
(* The trace: what is copied lies on passive pages.                        *)

Copies == {o \in objs : o.page \notin active}
Originals == {o \in objs : o.page \in active}

\* Addresses on active pages with a word before them.
Headed == {a \in Addrs : Page(a) \in active /\ Plus(a, -1) \in Addrs}

\* Word w stands for object y: it points to the copy, to the object that is not
\* copied yet, or to that or where the object has been.
ToCopy(w, y) == \E t \in Copies : w = Ptr(AddressOf(t)) /\ Id(t) = y
ToOriginal(w, y) == \E o \in Originals : w = Ptr(AddressOf(o)) /\ Id(o) = y
ToForward(w, y) ==
  \E a \in Headed, t \in Copies : w = Ptr(a) /\ HeaderOf(a) = Forward(AddressOf(t)) /\ Id(t) = y
ToOld(w, y) == ToOriginal(w, y) \/ ToForward(w, y)

\* The roots are updated in order.
RootsInv ==
  \A s \in Slots :
    /\ Root(s) \in {Nil, Data} => stack[s] = Root(s)
    /\ \A y \in Ids : Root(s) = Object(y) =>
         IF s < next THEN ToCopy(stack[s], y) ELSE ToOld(stack[s], y)

\* Nothing of the graph is lost.
EdgesInv ==
  /\ \A e \in Edges : \E o \in objs : \E i \in DOMAIN PtrsIn(o) : Id(o) = e[1] /\ PtrsIn(o)[i] = e[2]
  /\ \A x \in Ids : \E o \in objs : Id(o) = x
  /\ \A t \in Copies : Id(t) \in Ids

\* The fields of a copy that traverse_children has not come to are pending.
Pending(o, i) == \E d \in DOMAIN frames : frames[d].obj = AddressOf(o) /\ frames[d].i <= i
FieldTraced(o, i, y) ==
  IF o \in Originals THEN ToOld(Word(o, i), y)
  ELSE IF Pending(o, i) THEN ToOriginal(Word(o, i), y)
  ELSE ToCopy(Word(o, i), y)
TracedInv ==
  \A o \in objs : Id(o) \in Ids =>
    \A i \in DOMAIN PtrsIn(o) :
      \E e \in Edges :
        /\ e[1] = Id(o) /\ e[2] = PtrsIn(o)[i]
        /\ e[3] = Nil => Word(o, i) = Nil
        /\ \A y \in Ids : e[3] = Object(y) => FieldTraced(o, i, y)

\* An object is not copied before the one that has a pointer to it.
ParentsInv ==
  \A e \in Edges, t \in Copies : e[3] = Object(Id(t)) => \E u \in Copies : Id(u) = e[1]

FramesInv ==
  /\ \A d \in DOMAIN frames : \E t \in Copies :
       /\ frames[d].obj = AddressOf(t)
       /\ frames[d].ptrs = PtrsIn(t)
       /\ frames[d].safe = TRUE
  /\ \A c, d \in DOMAIN frames : frames[c].obj = frames[d].obj => c = d

\* The root that led here is copied, so that no pending field points to it.
OriginInv ==
  frames # <<>> =>
    \E a \in Headed, b \in Addrs : origin = Ptr(a) /\ HeaderOf(a) = Forward(b)

TraceInv ==
  /\ GraphInv /\ RootsInv /\ EdgesInv /\ TracedInv /\ ParentsInv /\ FramesInv /\ OriginInv
  /\ ~unsafeStack
  /\ fresh = 0

ClientInv ==
  /\ FieldsInv
  /\ frames = <<>>
  /\ saved # None => saved.mode = "safe" /\ View = saved.view /\ {Id(o) : o \in objs} = saved.ids
  /\ fresh # 0 => pc = "client" /\ \E o \in objs : stack[fresh] = Ptr(AddressOf(o))

\* The types of the client's and the trace's variables.
FrameType == [obj : Addrs, ptrs : Seq(Nat), i : Nat, safe : BOOLEAN]
StackWords == {Nil, Data} \cup {Ptr(a) : a \in Addrs}
TypeInv ==
  /\ TypeOK
  /\ stack \in [Slots -> StackWords]
  /\ frames \in Seq(FrameType)

WantInv ==
  pc \in {"trace", "place"} /\ req # 0 =>
    /\ want.kind \in Kinds /\ want.slot \in Slots /\ want.kind.size = req
    /\ made < MaxMade

BaseInv ==
  /\ TypeInv
  /\ Q!IInv /\ Q!MarksInv
  /\ \A p \in Q!PageIds : ~unsafe[p]
  /\ HeadersInv
  /\ WantInv

IInv == Sane =>
  /\ BaseInv
  /\ pc \in {"client", "place"} => ClientInv
  /\ pc = "trace" => TraceInv
  /\ pc = "deleted" => \A s \in Slots : ~HoldsObject(s)

-----------------------------------------------------------------------------
(* The two instances of Pages.                                             *)

LEMMA SamePages ==
  /\ P!PageIds = Q!PageIds
  /\ P!Half = Q!Half
  /\ \A w : P!Block(w) = Q!Block(w)
  /\ \A w : P!IsFlag(w) <=> Q!IsFlag(w)
  /\ P!MapBits = Q!MapBits
  BY DEF P!PageIds, Q!PageIds, P!Half, Q!Half, P!Block, Q!Block, P!IsFlag, Q!IsFlag,
         P!MapBits, Q!MapBits, P!MapLength, Q!MapLength

LEMMA SameHelpers ==
  /\ \A p, S : P!IsFirst(p, S) <=> Q!IsFirst(p, S)
  /\ \A S, n : P!WithRoom(S, n) = Q!WithRoom(S, n)
  /\ P!Passive = Q!Passive
  /\ \A p, a, b : P!HitBits(p, a, b) = Q!HitBits(p, a, b)
  /\ \A p, a, b : P!HitsMap(p, a, b) <=> Q!HitsMap(p, a, b)
  /\ \A m, p, a, b : P!DataMaps(m, p, a, b) = Q!DataMaps(m, p, a, b)
  /\ \A m, p, w : P!CopiedMaps(m, p, w) = Q!CopiedMaps(m, p, w)
  /\ \A m, p, w : P!HeaderMaps(m, p, w) = Q!HeaderMaps(m, p, w)
  /\ \A m, p, w : P!ForwardMaps(m, p, w) = Q!ForwardMaps(m, p, w)
  /\ \A b, n : P!BumpAfter(b, n) = Q!BumpAfter(b, n)
  /\ P!PressureAtMostOne <=> Q!PressureAtMostOne
  /\ P!PressureReached <=> Q!PressureReached
  /\ \A o, new : P!Moved(o, new) = Q!Moved(o, new)
  /\ \A o, new : P!MovedFlags(o, new) = Q!MovedFlags(o, new)
  /\ P!Freed = Q!Freed
  /\ P!SweptBump = Q!SweptBump
  /\ P!SweptActive = Q!SweptActive
  <1>1. P!Passive = Q!Passive /\ P!Freed = Q!Freed
    BY SamePages DEF P!Passive, Q!Passive, P!Freed, Q!Freed
  <1>6. P!PressureAtMostOne <=> Q!PressureAtMostOne
    BY SamePages, Zenon DEF P!PressureAtMostOne, Q!PressureAtMostOne, P!Cardinality, Q!Cardinality
  <1>7. P!PressureReached <=> Q!PressureReached
    BY SamePages, Zenon DEF P!PressureReached, Q!PressureReached, P!Cardinality, Q!Cardinality
  <1>2. /\ \A p, S : P!IsFirst(p, S) <=> Q!IsFirst(p, S)
        /\ \A b, n : P!BumpAfter(b, n) = Q!BumpAfter(b, n)
    BY DEF P!IsFirst, Q!IsFirst, P!BumpAfter, Q!BumpAfter
  <1>8. \A p, a, b : P!HitBits(p, a, b) = Q!HitBits(p, a, b)
    BY SamePages, Zenon DEF P!HitBits, Q!HitBits
  <1>9. \A p, a, b : P!HitsMap(p, a, b) <=> Q!HitsMap(p, a, b)
    BY <1>8, Zenon DEF P!HitsMap, Q!HitsMap
  <1>10. \A m, p, a, b : P!DataMaps(m, p, a, b) = Q!DataMaps(m, p, a, b)
    BY <1>8, Zenon DEF P!DataMaps, Q!DataMaps
  <1>11. \A m, p, w : P!CopiedMaps(m, p, w) = Q!CopiedMaps(m, p, w)
    BY <1>8, <1>10, Zenon DEF P!CopiedMaps, Q!CopiedMaps
  <1>12. \A m, p, w : P!HeaderMaps(m, p, w) = Q!HeaderMaps(m, p, w)
    BY <1>8, <1>9, <1>11, Zenon DEF P!HeaderMaps, Q!HeaderMaps
  <1>13. \A m, p, w : P!ForwardMaps(m, p, w) = Q!ForwardMaps(m, p, w)
    BY <1>8, <1>10, Zenon DEF P!ForwardMaps, Q!ForwardMaps
  <1>14. \A o, new : P!MovedFlags(o, new) = Q!MovedFlags(o, new)
    BY SamePages, Zenon DEF P!MovedFlags, Q!MovedFlags
  <1>3. \A S, n : P!WithRoom(S, n) = Q!WithRoom(S, n)
    BY SamePages DEF P!WithRoom, Q!WithRoom, P!FreeSpace, Q!FreeSpace
  <1>4. \A o, new : P!Moved(o, new) = Q!Moved(o, new)
    <2>1. \A w : P!Marks(w) = Q!Marks(w)
      BY SamePages, Zenon DEF P!Marks, Q!Marks
    <2>. QED
      BY <2>1, SamePages DEF P!Moved, Q!Moved
  <1>5. P!SweptBump = Q!SweptBump /\ P!SweptActive = Q!SweptActive
    BY <1>1, SamePages DEF P!SweptBump, Q!SweptBump, P!SweptActive, Q!SweptActive
  <1>. QED
    BY <1>1, <1>2, <1>3, <1>4, <1>5, <1>6, <1>7, <1>8, <1>9, <1>10, <1>11, <1>12, <1>13, <1>14

LEMMA SameActions ==
  /\ P!Init <=> Q!Init
  /\ \A n : P!AllocInActivePage(n) <=> Q!AllocInActivePage(n)
  /\ \A n : P!AllocInNewPage(n) <=> Q!AllocInNewPage(n)
  /\ \A n : P!AllocCollects(n) <=> Q!AllocCollects(n)
  /\ \A n : P!AllocStops(n) <=> Q!AllocStops(n)
  /\ \A o, n : P!Copy(o, n) <=> Q!Copy(o, n)
  /\ P!FinishAlloc <=> Q!FinishAlloc
  /\ P!FinishStops <=> Q!FinishStops
  /\ P!ClientStore <=> Q!ClientStore
  /\ P!HDelete <=> Q!HDelete
  /\ P!HGc <=> Q!HGc
  /\ \A n : P!CopyFails(n) <=> Q!CopyFails(n)
  /\ P!TraceStops <=> Q!TraceStops
  /\ P!Sweep <=> Q!Sweep
  <1>8. \A p, n, m, ok : P!Place(p, n, m, ok) <=> Q!Place(p, n, m, ok)
    <2>1. /\ \A p, a, b : P!HitsMap(p, a, b) <=> Q!HitsMap(p, a, b)
          /\ \A m, p, w : P!HeaderMaps(m, p, w) = Q!HeaderMaps(m, p, w)
          /\ \A b, n : P!BumpAfter(b, n) = Q!BumpAfter(b, n)
          /\ \A w : P!Block(w) = Q!Block(w)
      BY SameHelpers, SamePages
    <2>. QED
      BY <2>1 DEF P!Place, Q!Place
  <1>1. \A n : P!ActivateAndPlace(n) <=> Q!ActivateAndPlace(n)
    BY <1>8, SameHelpers, SamePages, Zenon DEF P!ActivateAndPlace, Q!ActivateAndPlace
  <1>2. \A n : P!AllocInActivePage(n) <=> Q!AllocInActivePage(n)
    BY <1>8, SameHelpers, SamePages, Zenon DEF P!AllocInActivePage, Q!AllocInActivePage
  <1>3. P!Sweep <=> Q!Sweep
    BY SameHelpers, SamePages DEF P!Sweep, Q!Sweep
  <1>4. ASSUME NEW o, NEW n
        PROVE  P!Copy(o, n) <=> Q!Copy(o, n)
    <2> DEFINE new(p) == [page |-> p, at |-> bump[p] + 1, words |-> n]
    <2>1. P!WithRoom(P!Passive, n) = Q!WithRoom(Q!Passive, n)
      BY SameHelpers
    <2>2. ASSUME NEW p
          PROVE  /\ P!IsFirst(p, P!WithRoom(P!Passive, n)) <=> Q!IsFirst(p, Q!WithRoom(Q!Passive, n))
                 /\ P!HitsMap(p, bump[p], bump[p] + n) <=> Q!HitsMap(p, bump[p], bump[p] + n)
                 /\ P!HitsMap(o.page, o.at - 1, o.at - 1) <=> Q!HitsMap(o.page, o.at - 1, o.at - 1)
                 /\ P!BumpAfter(bump[p], n) = Q!BumpAfter(bump[p], n)
                 /\ P!Moved(o, new(p)) = Q!Moved(o, new(p))
                 /\ P!MovedFlags(o, new(p)) = Q!MovedFlags(o, new(p))
                 /\ P!IsFlag(o.at) <=> Q!IsFlag(o.at)
                 /\ P!IsFlag(new(p).at) <=> Q!IsFlag(new(p).at)
      <3> HIDE DEF new
      <3>. QED
        BY <2>1, SameHelpers, SamePages
    <2>3. /\ \A m, p, w : P!CopiedMaps(m, p, w) = Q!CopiedMaps(m, p, w)
          /\ \A m, p, a, b : P!DataMaps(m, p, a, b) = Q!DataMaps(m, p, a, b)
          /\ \A m, p, w : P!ForwardMaps(m, p, w) = Q!ForwardMaps(m, p, w)
      BY SameHelpers
    <2>. QED
      BY <2>2, <2>3, SamePages, Zenon DEF P!Copy, Q!Copy
  <1>5. P!Stop <=> Q!Stop
    BY DEF P!Stop, Q!Stop
  <1>6. /\ P!Init <=> Q!Init
        /\ \A n : P!AllocInNewPage(n) <=> Q!AllocInNewPage(n)
        /\ \A n : P!AllocCollects(n) <=> Q!AllocCollects(n)
        /\ \A n : P!AllocStops(n) <=> Q!AllocStops(n)
    BY SameHelpers, SamePages, <1>1, <1>5
    DEF P!Init, Q!Init, P!AllocInNewPage, Q!AllocInNewPage, P!AllocCollects, Q!AllocCollects,
        P!AllocStops, Q!AllocStops, P!StartTrace, Q!StartTrace
  <1>7. /\ P!FinishAlloc <=> Q!FinishAlloc
        /\ P!FinishStops <=> Q!FinishStops
        /\ P!ClientStore <=> Q!ClientStore
        /\ P!HDelete <=> Q!HDelete
        /\ P!HGc <=> Q!HGc
        /\ \A n : P!CopyFails(n) <=> Q!CopyFails(n)
        /\ P!TraceStops <=> Q!TraceStops
    BY SameHelpers, SamePages, <1>1, <1>5
    DEF P!FinishAlloc, Q!FinishAlloc, P!FinishStops, Q!FinishStops, P!ClientStore, Q!ClientStore,
        P!HDelete, Q!HDelete, P!HGc, Q!HGc, P!CopyFails, Q!CopyFails, P!TraceStops, Q!TraceStops,
        P!StartTrace, Q!StartTrace
  <1>. QED
    BY <1>2, <1>3, <1>4, <1>6, <1>7

-----------------------------------------------------------------------------
(* Words and addresses.                                                    *)

\* The kinds of words do not overlap.
LEMMA WordFacts ==
  /\ \A a : IsPtr(Ptr(a)) /\ Ptr(a)[2] = a /\ Ptr(a) # Nil /\ Ptr(a) # Data
  /\ \A a, b : Ptr(a) = Ptr(b) => a = b
  /\ ~IsPtr(Nil) /\ ~IsPtr(Data) /\ Nil # Data
  /\ \A k, id : /\ Header(k, id)[1] = "header" /\ Header(k, id)[2] = k /\ Header(k, id)[3] = id
  /\ \A a : Forward(a)[1] = "forward" /\ Forward(a)[2] = a
  /\ \A k, id, a : Header(k, id) # Forward(a)
  /\ \A x : Object(x)[2] = x /\ Object(x) # Nil /\ Object(x) # Data
  /\ \A x, y : Object(x) = Object(y) => x = y
  BY DEF IsPtr, Ptr, Nil, Data, Header, Forward, Object

LEMMA PairFacts == \A a, b, c, d : <<a, b>> = <<c, d>> => a = c /\ b = d
  OBVIOUS

LEMMA AddressFacts ==
  /\ \A a, n : Plus(a, n) = <<a[1], a[2] + n>> /\ Page(a) = a[1]
  /\ \A o : AddressOf(o) = <<o.page, o.at>>
  BY DEF Plus, Page, AddressOf

LEMMA KindFacts ==
  ASSUME NEW k \in Kinds
  PROVE  /\ k.layout \in {"raw", "struct"}
         /\ k.size \in Nat \ {0} /\ k.size < PageWords
         /\ k.ptrs \in Seq(Nat)
         /\ \A i \in DOMAIN k.ptrs : k.ptrs[i] \in 0 .. (k.size - 1)
         /\ \A i, j \in DOMAIN k.ptrs : k.ptrs[i] = k.ptrs[j] => i = j
         /\ k.layout = "raw" => k.ptrs = <<>>
  BY KindsAssumption, PagesAssumption

\* Where the header and the fields of an object lie.
LEMMA ObjectFacts ==
  ASSUME BaseInv, intact, NEW o \in objs
  PROVE  /\ o.page \in Q!PageIds /\ o.at \in Nat \ {0} /\ o.words \in Nat \ {0}
         /\ bump[o.page] \in Nat /\ o.at + o.words <= bump[o.page] /\ bump[o.page] <= PageWords
         /\ AddressOf(o) \in Addrs
         /\ Plus(AddressOf(o), -1) = <<o.page, o.at - 1>> /\ Plus(AddressOf(o), -1) \in Addrs
         /\ Hd(o) = mem[<<o.page, o.at - 1>>]
         /\ Hd(o)[1] = "header" /\ Hd(o)[2] \in Kinds /\ Id(o) \in 1 .. made
         /\ Hd(o) = Header(Hd(o)[2], Id(o)) /\ Hd(o)[2].size = o.words
         /\ PtrsIn(o) = Hd(o)[2].ptrs /\ PtrsIn(o) \in Seq(Nat)
         /\ \A i \in DOMAIN PtrsIn(o) :
              /\ PtrsIn(o)[i] \in 0 .. (o.words - 1)
              /\ FieldAt(o, i) = <<o.page, o.at + PtrsIn(o)[i]>> /\ FieldAt(o, i) \in Addrs
  <1>1. /\ o.page \in Q!PageIds /\ o.at \in Nat \ {0} /\ o.words \in Nat \ {0}
        /\ bump[o.page] \in Nat /\ o.at + o.words <= bump[o.page] /\ bump[o.page] <= PageWords
    BY DEF BaseInv, Q!IInv, Q!TypeOK, Q!ObjectType, Q!MapInv, Q!MarksInv
  <1>2. PageWords \in Nat \ {0}
    BY PagesAssumption
  <1>3. /\ AddressOf(o) \in Addrs
        /\ Plus(AddressOf(o), -1) = <<o.page, o.at - 1>> /\ Plus(AddressOf(o), -1) \in Addrs
    BY <1>1, <1>2, AddressFacts, SamePages DEF Addrs
  <1>4. PICK k \in Kinds, id \in 1 .. made : Hd(o) = Header(k, id) /\ o.words = k.size
    BY DEF BaseInv, HeadersInv
  <1>5. /\ Hd(o)[1] = "header" /\ Hd(o)[2] = k /\ Id(o) = id
    BY <1>4, WordFacts DEF Id
  <1>6. PtrsIn(o) = k.ptrs
    BY <1>5 DEF PtrsIn
  <1>7. ASSUME NEW i \in DOMAIN PtrsIn(o)
        PROVE  /\ PtrsIn(o)[i] \in 0 .. (o.words - 1)
               /\ FieldAt(o, i) = <<o.page, o.at + PtrsIn(o)[i]>> /\ FieldAt(o, i) \in Addrs
    <2>1. PtrsIn(o)[i] \in 0 .. (o.words - 1)
      BY <1>4, <1>6, <1>7, KindFacts
    <2>2. FieldAt(o, i) = <<o.page, o.at + PtrsIn(o)[i]>>
      BY AddressFacts DEF FieldAt
    <2>. QED
      BY <1>1, <1>2, <2>1, <2>2, SamePages DEF Addrs
  <1>. QED
    BY <1>1, <1>3, <1>4, <1>5, <1>6, <1>7, KindFacts DEF Hd, HeaderOf

\* No two objects share a word.
LEMMA Apart ==
  ASSUME BaseInv, intact, NEW o \in objs, NEW q \in objs
  PROVE  /\ AddressOf(o) = AddressOf(q) => o = q
         /\ Plus(AddressOf(o), -1) = Plus(AddressOf(q), -1) => o = q
         /\ \A i \in DOMAIN PtrsIn(o) : FieldAt(o, i) # Plus(AddressOf(q), -1)
         /\ \A i \in DOMAIN PtrsIn(o), j \in DOMAIN PtrsIn(q) :
              FieldAt(o, i) = FieldAt(q, j) => o = q /\ i = j
  <1>1. o # q /\ o.page = q.page => o.at + o.words < q.at \/ q.at + q.words < o.at
    BY DEF BaseInv, Q!IInv, Q!MapInv, Q!Before
  <1>2. /\ o.at \in Nat \ {0} /\ o.words \in Nat \ {0}
        /\ q.at \in Nat \ {0} /\ q.words \in Nat \ {0}
    BY ObjectFacts
  <1>3. /\ Plus(AddressOf(o), -1) = <<o.page, o.at - 1>>
        /\ Plus(AddressOf(q), -1) = <<q.page, q.at - 1>>
    BY ObjectFacts
  <1>4. AddressOf(o) = AddressOf(q) => o = q
    BY <1>1, <1>2, AddressFacts
  <1>5. Plus(AddressOf(o), -1) = Plus(AddressOf(q), -1) => o = q
    BY <1>1, <1>2, <1>3
  <1>6. ASSUME NEW i \in DOMAIN PtrsIn(o)
        PROVE  FieldAt(o, i) # Plus(AddressOf(q), -1)
    <2>1. FieldAt(o, i) = <<o.page, o.at + PtrsIn(o)[i]>> /\ PtrsIn(o)[i] \in 0 .. (o.words - 1)
      BY ObjectFacts
    <2>. QED
      BY <1>1, <1>2, <1>3, <2>1
  <1>7. ASSUME NEW i \in DOMAIN PtrsIn(o), NEW j \in DOMAIN PtrsIn(q),
               FieldAt(o, i) = FieldAt(q, j)
        PROVE  o = q /\ i = j
    <2>1. /\ FieldAt(o, i) = <<o.page, o.at + PtrsIn(o)[i]>> /\ PtrsIn(o)[i] \in 0 .. (o.words - 1)
          /\ FieldAt(q, j) = <<q.page, q.at + PtrsIn(q)[j]>> /\ PtrsIn(q)[j] \in 0 .. (q.words - 1)
      BY ObjectFacts
    <2>2. o.page = q.page /\ o.at + PtrsIn(o)[i] = q.at + PtrsIn(q)[j]
      <3>1. <<o.page, o.at + PtrsIn(o)[i]>> = <<q.page, q.at + PtrsIn(q)[j]>>
        BY <1>7, <2>1
      <3>. HIDE <1>7, <2>1
      <3>. QED
        BY <3>1, PairFacts
    <2>3. o = q
      BY <1>1, <1>2, <2>1, <2>2
    <2>4. PtrsIn(o)[i] = PtrsIn(o)[j] /\ j \in DOMAIN PtrsIn(o)
      BY <1>2, <2>1, <2>2, <2>3
    <2>5. PtrsIn(o) = Hd(o)[2].ptrs /\ Hd(o)[2] \in Kinds
      BY ObjectFacts
    <2>. QED
      BY <2>3, <2>4, <2>5, KindFacts
  <1>. QED
    BY <1>4, <1>5, <1>6, <1>7

-----------------------------------------------------------------------------
(* What the trace meets.                                                   *)

LEMMA TakenFacts ==
  ASSUME BaseInv, intact, NEW o \in objs
  PROVE  ObjectAt(AddressOf(o)) = {o} /\ Taken(AddressOf(o)) = o
  <1>1. ASSUME NEW q \in objs
        PROVE  q.words > 0 /\ (AddressOf(q) = AddressOf(o) => q = o)
    <2>1. q.words \in Nat \ {0}
      BY ObjectFacts
    <2>2. AddressOf(q) = AddressOf(o) => q = o
      BY Apart
    <2>. QED
      BY <2>1, <2>2
  <1>2. \A q : q \in ObjectAt(AddressOf(o)) <=> q \in objs /\ AddressOf(q) = AddressOf(o) /\ q.words > 0
    BY AddressFacts DEF ObjectAt
  <1>3. ObjectAt(AddressOf(o)) = {o}
    BY <1>1, <1>2
  <1>. QED
    BY <1>3 DEF Taken

LEMMA MarkedFacts ==
  ASSUME BaseInv, intact, NEW o \in objs
  PROVE  Marked(AddressOf(o))
  <1>1. o.page \in Q!PageIds /\ AddressOf(o) = <<o.page, o.at>>
    BY ObjectFacts, AddressFacts
  <1>2. Q!Block(o.at) \in amap[o.page]
    BY <1>1 DEF BaseInv, Q!MarksInv
  <1>4. ~Q!IsFlag(o.at)
    <2>3. PageWords \in Nat
      BY PagesAssumption
    <2>2. /\ o.at \in Nat /\ o.words \in Nat \ {0} /\ bump[o.page] \in Nat
          /\ o.at + o.words <= bump[o.page] /\ bump[o.page] <= PageWords
      BY ObjectFacts
    <2>1. o.at \in Nat /\ o.at < PageWords /\ PageWords \in Nat
      BY <2>2, <2>3
    <2>. QED
      BY <2>1 DEF Q!IsFlag, Q!Block
  <1>3. Page(AddressOf(o)) = o.page /\ AddressOf(o)[2] = o.at
    BY <1>1, AddressFacts
  <1>. QED
    BY <1>2, <1>3, <1>4, SamePages DEF Marked

\* A header of an object is no forwarding header.
LEMMA IdentifyFacts ==
  ASSUME BaseInv, intact, NEW o \in objs
  PROVE  /\ Identify(Hd(o)) = Hd(o)[2].layout /\ Identify(Hd(o)) \in {"raw", "struct"}
         /\ CopySize(Hd(o)) = o.words
  BY ObjectFacts, KindFacts DEF Identify, CopySize

LEMMA ForwardFacts ==
  ASSUME NEW a, NEW b, HeaderOf(a) = Forward(b)
  PROVE  Identify(HeaderOf(a)) = "forward"
  BY WordFacts DEF Identify

LEMMA ForwardNoObject ==
  ASSUME BaseInv, intact, NEW o \in objs, NEW a, NEW b, HeaderOf(a) = Forward(b)
  PROVE  a # AddressOf(o)
  <1>1. HeaderOf(AddressOf(o))[1] = "header"
    BY ObjectFacts DEF Hd
  <1>2. HeaderOf(a)[1] = "forward"
    BY WordFacts
  <1>. QED
    BY <1>1, <1>2

\* A pointer on the stack is to an object or to where one has been.
LEMMA RootSeen ==
  ASSUME TraceInv, next \in Slots, IsPtr(stack[next])
  PROVE  \E y \in Ids : Root(next) = Object(y) /\ ToOld(stack[next], y)
  <1>1. ~(Root(next) \in {Nil, Data})
    BY WordFacts DEF TraceInv, RootsInv
  <1>2. PICK y \in Ids : Root(next) = Object(y)
    BY <1>1 DEF TraceInv, GraphInv
  <1>3. next \in Int
    BY DEF Slots
  <1>. QED
    BY <1>2, <1>3 DEF TraceInv, RootsInv

\* The child that traverse_children looks at.
ChildIs(t, i, e) ==
  /\ t \in Copies /\ i \in DOMAIN PtrsIn(t) /\ e \in Edges
  /\ frames # <<>> /\ Top \in FrameType /\ Top = frames[Len(frames)] /\ Len(frames) \in DOMAIN frames
  /\ Top.obj = AddressOf(t) /\ Top.i = i /\ Top.ptrs = PtrsIn(t)
  /\ ChildLoc = FieldAt(t, i) /\ Child = Word(t, i)
  /\ e[1] = Id(t) /\ e[2] = PtrsIn(t)[i]
  /\ Id(t) \in Ids

ChildPoints(e, y, o) ==
  /\ y \in Ids /\ o \in Originals /\ e[3] = Object(y)
  /\ Child = Ptr(AddressOf(o)) /\ Id(o) = y
  /\ Looked /\ ~Invalid

\* It is nothing, or a pointer to an object that is not copied yet and not the
\* root that led here.
LEMMA ChildSeen ==
  ASSUME BaseInv, intact, TraceInv, InChildren
  PROVE  \E t \in Copies : \E i \in DOMAIN PtrsIn(t), e \in Edges :
           /\ ChildIs(t, i, e)
           /\ \/ e[3] = Nil /\ Child = Nil /\ ~Looked
              \/ \E y \in Ids, o \in Originals : ChildPoints(e, y, o)
  <1>1. /\ frames \in Seq(FrameType) /\ frames # <<>>
        /\ Len(frames) \in DOMAIN frames /\ Top = frames[Len(frames)] /\ Top \in FrameType
    BY DEF InChildren, BaseInv, TypeInv, Top
  <1>2. PICK t \in Copies : Top.obj = AddressOf(t) /\ Top.ptrs = PtrsIn(t)
    BY <1>1 DEF TraceInv, FramesInv
  <1>3. t \in objs /\ t \notin Originals
    BY DEF Copies, Originals
  <1> DEFINE i == Top.i
  <1>4. i \in DOMAIN PtrsIn(t)
    <2>1. Top.i \in 1 .. (Len(Top.ptrs) + 1) /\ Top.i <= Len(Top.ptrs)
      BY <1>1 DEF InChildren, BaseInv, TypeInv, TypeOK
    <2>2. PtrsIn(t) \in Seq(Nat)
      BY <1>3, ObjectFacts
    <2>. QED
      BY <1>2, <2>1, <2>2
  <1>5. ChildLoc = FieldAt(t, i) /\ Child = Word(t, i)
    BY <1>2 DEF ChildLoc, Child, FieldAt, Word
  <1>6. Id(t) \in Ids
    BY DEF TraceInv, EdgesInv
  <1>7. PICK e \in Edges :
          /\ e[1] = Id(t) /\ e[2] = PtrsIn(t)[i]
          /\ e[3] = Nil => Word(t, i) = Nil
          /\ \A y \in Ids : e[3] = Object(y) => FieldTraced(t, i, y)
    BY <1>3, <1>4, <1>6 DEF TraceInv, TracedInv
  <1>8. ChildIs(t, i, e)
    BY <1>1, <1>2, <1>4, <1>5, <1>6, <1>7 DEF ChildIs
  <1>9. Pending(t, i)
    <2>1. i \in Nat
      BY <1>1 DEF FrameType
    <2>. QED
      BY <1>1, <1>2, <2>1 DEF Pending
  <1>10. e[3] = Nil => Child = Nil /\ ~Looked
    BY <1>5, <1>7 DEF Looked
  <1>11. ASSUME NEW y \in Ids, e[3] = Object(y)
         PROVE  \E o \in Originals : ChildPoints(e, y, o)
    <2>1. PICK o \in Originals : Child = Ptr(AddressOf(o)) /\ Id(o) = y
      BY <1>3, <1>5, <1>7, <1>9, <1>11 DEF FieldTraced, ToOriginal
    <2>2. o \in objs
      BY DEF Originals
    <2>3. Child # origin
      <3>1. PICK a \in Headed, b \in Addrs : origin = Ptr(a) /\ HeaderOf(a) = Forward(b)
        BY <1>1 DEF TraceInv, OriginInv
      <3>2. a # AddressOf(o)
        BY <1>1, <2>2, <3>1, ForwardNoObject
      <3>. QED
        BY <2>1, <3>1, <3>2, WordFacts
    <2>4. Looked /\ ~Invalid
      BY <2>1, <2>2, <2>3, WordFacts, MarkedFacts DEF Looked, Invalid
    <2>. QED
      BY <1>11, <2>1, <2>4 DEF ChildPoints
  <1>12. e[3] = Nil \/ \E y \in Ids : e[3] = Object(y)
    BY <1>7 DEF TraceInv, GraphInv
  <1>. QED
    BY <1>4, <1>8, <1>10, <1>11, <1>12

\* A visit of a root rewrites it, or copies its object first.
LEMMA RootVisit ==
  ASSUME BaseInv, intact, TraceInv, ScanVisits
  PROVE  /\ next \in Slots /\ frames = <<>> /\ next' = next + 1 /\ origin' = stack[next]
         /\ UNCHANGED <<unsafeStack, want, fresh, made, gcs, disturbed, saved>>
         /\ \E y \in Ids :
              /\ Root(next) = Object(y)
              /\ \/ \E a \in Headed, t \in Copies :
                      /\ stack[next] = Ptr(a) /\ HeaderOf(a) = Forward(AddressOf(t)) /\ Id(t) = y
                      /\ VisitForwarded(SlotLoc(next), a, <<>>)
                 \/ \E o \in Originals :
                      /\ stack[next] = Ptr(AddressOf(o)) /\ Id(o) = y
                      /\ VisitCopies(SlotLoc(next), AddressOf(o), <<>>)
  <1>1. /\ next \in Slots /\ frames = <<>> /\ next' = next + 1 /\ origin' = stack[next]
        /\ IsPtr(stack[next])
        /\ VisitSafe(SlotLoc(next), stack[next][2], <<>>)
        /\ UNCHANGED <<unsafeStack, want, fresh, made, gcs, disturbed, saved>>
    BY DEF ScanVisits, IsRoot, TraceInv
  <1>2. PICK y \in Ids : Root(next) = Object(y) /\ ToOld(stack[next], y)
    BY <1>1, RootSeen
  <1>3. ASSUME ToForward(stack[next], y)
        PROVE  \E a \in Headed, t \in Copies :
                 /\ stack[next] = Ptr(a) /\ HeaderOf(a) = Forward(AddressOf(t)) /\ Id(t) = y
                 /\ VisitForwarded(SlotLoc(next), a, <<>>)
    <2>1. PICK a \in Headed, t \in Copies :
            stack[next] = Ptr(a) /\ HeaderOf(a) = Forward(AddressOf(t)) /\ Id(t) = y
      BY <1>3 DEF ToForward
    <2>2. ~VisitCopies(SlotLoc(next), a, <<>>)
      BY <2>1, ForwardFacts DEF VisitCopies
    <2>3. VisitSafe(SlotLoc(next), a, <<>>)
      BY <1>1, <2>1, WordFacts
    <2>. QED
      BY <2>1, <2>2, <2>3 DEF VisitSafe
  <1>4. ASSUME ToOriginal(stack[next], y)
        PROVE  \E o \in Originals :
                 /\ stack[next] = Ptr(AddressOf(o)) /\ Id(o) = y
                 /\ VisitCopies(SlotLoc(next), AddressOf(o), <<>>)
    <2>1. PICK o \in Originals : stack[next] = Ptr(AddressOf(o)) /\ Id(o) = y
      BY <1>4 DEF ToOriginal
    <2>2. o \in objs
      BY DEF Originals
    <2>3. ~VisitForwarded(SlotLoc(next), AddressOf(o), <<>>)
      BY <2>2, IdentifyFacts DEF VisitForwarded, Hd
    <2>4. VisitSafe(SlotLoc(next), AddressOf(o), <<>>)
      BY <1>1, <2>1, WordFacts
    <2>. QED
      BY <2>1, <2>3, <2>4 DEF VisitSafe
  <1>. QED
    BY <1>1, <1>2, <1>3, <1>4 DEF ToOld

\* A visit of a child copies its object.
LEMMA ChildVisit ==
  ASSUME BaseInv, intact, TraceInv, ChildVisited
  PROVE  /\ UNCHANGED <<unsafeStack, want, next, origin, fresh, made, gcs, disturbed, saved>>
         /\ \E t \in Copies : \E i \in DOMAIN PtrsIn(t), e \in Edges, y \in Ids, o \in Originals :
              /\ ChildIs(t, i, e) /\ ChildPoints(e, y, o)
              /\ VisitCopies(FieldLoc(FieldAt(t, i)), AddressOf(o), SkipChild)
  <1>1. /\ InChildren /\ Looked /\ ~Invalid
        /\ VisitSafe(FieldLoc(ChildLoc), Child[2], SkipChild)
        /\ UNCHANGED <<unsafeStack, want, next, origin, fresh, made, gcs, disturbed, saved>>
    BY DEF ChildVisited
  <1>2. PICK t \in Copies : \E i \in DOMAIN PtrsIn(t), e \in Edges :
           /\ ChildIs(t, i, e)
           /\ \E y \in Ids, o \in Originals : ChildPoints(e, y, o)
    BY <1>1, ChildSeen
  <1>3. PICK i \in DOMAIN PtrsIn(t), e \in Edges, y \in Ids, o \in Originals :
          ChildIs(t, i, e) /\ ChildPoints(e, y, o)
    BY <1>2
  <1>4. o \in objs
    BY DEF Originals
  <1>5. ~VisitForwarded(FieldLoc(FieldAt(t, i)), AddressOf(o), SkipChild)
    BY <1>4, IdentifyFacts DEF VisitForwarded, Hd
  <1>6. VisitSafe(FieldLoc(FieldAt(t, i)), AddressOf(o), SkipChild)
    BY <1>1, <1>3, WordFacts DEF ChildIs, ChildPoints
  <1>. QED
    BY <1>1, <1>3, <1>5, <1>6 DEF VisitSafe

\* A trace stops only for want of room.
LEMMA StopsForRoom ==
  ASSUME BaseInv, intact, TraceInv, ScanStops \/ ChildStops
  PROVE  \E o \in objs : P!CopyFails(o.words)
  <1>1. ASSUME ScanStops
        PROVE  \E o \in objs : P!CopyFails(o.words)
    <2>1. next \in Slots /\ IsPtr(stack[next]) /\ VisitSafeStops(stack[next][2])
      BY <1>1 DEF ScanStops, IsRoot, TraceInv
    <2>2. PICK y \in Ids : ToOld(stack[next], y)
      BY <2>1, RootSeen
    <2>3. ~ToForward(stack[next], y)
      BY <2>1, ForwardFacts, WordFacts DEF ToForward, VisitSafeStops
    <2>4. PICK o \in Originals : stack[next] = Ptr(AddressOf(o))
      BY <2>2, <2>3 DEF ToOld, ToOriginal
    <2>5. o \in objs /\ VisitSafeStops(AddressOf(o))
      BY <2>1, <2>4, WordFacts DEF Originals
    <2>. QED
      BY <2>5, IdentifyFacts DEF VisitSafeStops, Hd
  <1>2. ASSUME ChildStops
        PROVE  \E o \in objs : P!CopyFails(o.words)
    <2>1. InChildren /\ Looked
      BY <1>2 DEF ChildStops
    <2>2. PICK e \in Edges, y \in Ids, o \in Originals : ChildPoints(e, y, o)
      BY <2>1, ChildSeen
    <2>3. o \in objs /\ VisitSafeStops(AddressOf(o))
      BY <1>2, <2>2, WordFacts DEF Originals, ChildStops, ChildPoints
    <2>. QED
      BY <2>3, IdentifyFacts DEF VisitSafeStops, Hd
  <1>. QED
    BY <1>1, <1>2

-----------------------------------------------------------------------------
(* The pages take only steps of Pages.                                     *)

\* A copy of an object is one of Pages.
LEMMA CopyOfPages ==
  ASSUME BaseInv, intact, NEW o \in Originals, NEW loc, NEW calls,
         VisitCopies(loc, AddressOf(o), calls)
  PROVE  o \in objs /\ Q!Copy(o, o.words)
  <1>1. o \in objs
    BY DEF Originals
  <1>2. P!Copy(Taken(AddressOf(o)), CopySize(Hd(o)))
    BY DEF VisitCopies, Hd
  <1>3. P!Copy(o, o.words)
    BY <1>1, <1>2, TakenFacts, IdentifyFacts
  <1>. QED
    BY <1>1, <1>3, SameActions

LEMMA PagesStep ==
  ASSUME IInv, Sane, [Next]_vars
  PROVE  Q!Next \/ UNCHANGED pageVars
  <1>1. BaseInv /\ intact
    BY DEF IInv, Sane
  <1>2. \A k \in Kinds : k.size \in {kd.size : kd \in Kinds}
    OBVIOUS
  <1>3. ASSUME pc = "trace"
        PROVE  TraceInv
    BY <1>3 DEF IInv
  <1>4. ASSUME NEW k \in Kinds, NEW s \in Slots, Alloc(k, s) \/ AllocCollects(k, s)
        PROVE  Q!Next
    BY <1>2, <1>4, SameActions DEF Alloc, AllocCollects, Q!Next
  <1>5. ASSUME FinishAlloc \/ AllocStops
        PROVE  Q!Next
    BY <1>2, <1>5, SameActions DEF FinishAlloc, AllocStops, Q!Next
  <1>6. ASSUME NEW fs, Written(fs)
        PROVE  Q!Next \/ UNCHANGED pageVars
    <2>1. CASE \E f \in fs : P!HitsMap(f[1], f[2], f[2])
      BY <1>6, <2>1, SameActions DEF Written, Q!Next
    <2>2. CASE ~\E f \in fs : P!HitsMap(f[1], f[2], f[2])
      BY <1>6, <2>2 DEF Written
    <2>. QED
      BY <2>1, <2>2
  <1>7. ASSUME \E mode : HGc(mode)
        PROVE  Q!Next
    BY <1>7, SameActions DEF HGc, Q!Next
  <1>8. ASSUME HDeleteDbg
        PROVE  Q!Next
    BY <1>8, SameActions DEF HDeleteDbg, Q!Next
  <1>9. ASSUME NEW o \in objs, Q!Copy(o, o.words) \/ P!CopyFails(o.words)
        PROVE  Q!Next
    BY <1>9, SameActions DEF Q!Next
  <1>10. ASSUME ScanVisits
         PROVE  Q!Next \/ UNCHANGED pageVars
    <2>1. TraceInv
      BY <1>3, <1>10 DEF ScanVisits
    <2>2. \/ UNCHANGED pageVars
          \/ \E o \in Originals : \E loc, calls : VisitCopies(loc, AddressOf(o), calls)
      BY <1>1, <1>10, <2>1, RootVisit DEF VisitForwarded
    <2>3. (\E o \in Originals : \E loc, calls : VisitCopies(loc, AddressOf(o), calls)) => Q!Next
      BY <1>1, <1>9, CopyOfPages
    <2>. QED
      BY <2>2, <2>3
  <1>11. ASSUME ChildVisited
         PROVE  Q!Next
    <2>1. TraceInv
      BY <1>3, <1>11 DEF ChildVisited, InChildren
    <2>2. \E o \in Originals : \E loc, calls : VisitCopies(loc, AddressOf(o), calls)
      BY <1>1, <1>11, <2>1, ChildVisit
    <2>. QED
      BY <1>1, <1>9, <2>2, CopyOfPages
  <1>12. ASSUME ScanStops \/ ChildStops
         PROVE  Q!Next
    <2>1. TraceInv
      BY <1>3, <1>12 DEF ScanStops, ChildStops, InChildren
    <2>. QED
      BY <1>1, <1>9, <1>12, <2>1, StopsForRoom
  <1>13. ASSUME Sweep
         PROVE  Q!Next
    BY <1>13, SameActions DEF Sweep, Q!Next
  <1>14. ASSUME Initialise \/ \E s \in Slots : Store(s)
         PROVE  Q!Next \/ UNCHANGED pageVars
    <2>1. \E fs : Written(fs)
      BY <1>14 DEF Initialise, Store
    <2>. QED
      BY <1>6, <2>1
  <1>15. ASSUME \E s \in Slots : Push(s) \/ \E t \in Slots : Load(s, t)
         PROVE  UNCHANGED pageVars
    BY <1>15 DEF Push, Load
  <1>16. Client => Q!Next \/ UNCHANGED pageVars
    BY <1>4, <1>5, <1>7, <1>8, <1>14, <1>15 DEF Client
  <1>17. ScanSkips \/ ChildSkipped \/ ChildrenDone => UNCHANGED pageVars
    BY DEF ScanSkips, ChildSkipped, ChildrenDone
  <1>18. Collect => Q!Next \/ UNCHANGED pageVars
    BY <1>10, <1>11, <1>12, <1>13, <1>17 DEF Collect
  <1>19. UNCHANGED vars => UNCHANGED pageVars
    BY DEF vars
  <1>. QED
    BY <1>16, <1>18, <1>19 DEF Next

\* The assumptions of Pages hold.
LEMMA PagesAssumptions ==
  /\ Q!NumPagesAssumption /\ Q!PageWordsAssumption /\ Q!PMWordAssumption
  /\ Q!BitvectorAssumption /\ Q!SizesAssumption /\ Q!MisreadAssumption /\ Q!ThresholdAssumption
  BY PagesAssumption, KindsAssumption
     DEF Q!NumPagesAssumption, Q!PageWordsAssumption, Q!PMWordAssumption,
         Q!BitvectorAssumption, Q!SizesAssumption, Q!MisreadAssumption, Q!ThresholdAssumption

\* So that they keep the invariant of Pages.
LEMMA PagesInvStep ==
  ASSUME IInv, Sane, [Next]_vars
  PROVE  Q!IInv' /\ (intact' => Q!MarksInv')
  <1>1. Q!IInv /\ Q!MarksInv
    BY DEF IInv, Sane, BaseInv
  <1>2. [Q!Next]_(Q!vars)
    <2>1. Q!Next \/ UNCHANGED pageVars
      BY PagesStep
    <2>2. UNCHANGED pageVars => UNCHANGED Q!vars
      BY DEF pageVars, Q!vars
    <2>. QED
      BY <2>1, <2>2
  <1>3. Q!IInv'
    BY <1>1, <1>2, PagesAssumptions, Q!TypeStep, Q!MapStep DEF Q!IInv
  <1>. QED
    BY <1>1, <1>2, <1>3, PagesAssumptions, Q!MarksStep

-----------------------------------------------------------------------------
(* A copy.                                                                 *)

\* The pointer at loc is visited: a stack word, or a field of a copy.
VisitLoc(loc) ==
  \/ \E s \in Slots : loc = SlotLoc(s)
  \/ \E t \in Copies : \E i \in DOMAIN PtrsIn(t) : loc = FieldLoc(FieldAt(t, i))
IsField(loc, x) == loc.at = "heap" /\ loc.field = x

\* What the copy of object o to new does to the words.
CopyStep(o, new, loc, calls) ==
  /\ objs' = (objs \ {o}) \cup {new}
  /\ active' = active
  /\ UNCHANGED <<unsafe, pc, req>>
  /\ new.page \in Q!PageIds \ active /\ new.at \in Nat \ {0} /\ new.words = o.words
  /\ AddressOf(new) \in Addrs
  /\ \A q \in objs : AddressOf(q) # AddressOf(new)
  /\ \A q \in objs \ {o} : Hd(q)' = Hd(q)
  /\ Hd(new)' = Hd(o)
  /\ HeaderOf(AddressOf(o))' = Forward(AddressOf(new))
  /\ \A a \in Headed : a # AddressOf(o) => HeaderOf(a)' = HeaderOf(a)
  /\ \A q \in objs \ {o} : \A i \in DOMAIN PtrsIn(q) :
       Word(q, i)' = IF IsField(loc, FieldAt(q, i)) THEN Ptr(AddressOf(new)) ELSE Word(q, i)
  /\ \A i \in DOMAIN PtrsIn(o) : Word(new, i)' = Word(o, i)
  /\ stack' = IF loc.at = "stack" THEN [stack EXCEPT ![loc.slot] = Ptr(AddressOf(new))] ELSE stack
  /\ frames' = IF Identify(Hd(o)) = "struct"
                 THEN Append(calls, [obj |-> AddressOf(new), ptrs |-> PtrsIn(o), i |-> 1, safe |-> TRUE])
                 ELSE calls

\* It changes neither the page map nor a flag, as long as it does not hit them.
LEMMA CopySame ==
  ASSUME BaseInv, intact', NEW o \in objs, Q!Copy(o, o.words)
  PROVE  active' = active /\ unsafe' = unsafe
  <1>1. PICK p \in Q!PageIds :
          /\ \E h \in Q!CopiedMaps(active, p, bump[p]) :
             \E d \in Q!DataMaps(h, p, bump[p] + 1, bump[p] + o.words) :
               active' \in Q!ForwardMaps(d, o.page, o.at - 1)
          /\ unsafe' = Q!MovedFlags(o, [page |-> p, at |-> bump[p] + 1, words |-> o.words])
          /\ ~Q!HitsMap(p, bump[p], bump[p] + o.words)
          /\ ~Q!HitsMap(o.page, o.at - 1, o.at - 1)
          /\ ~Q!IsFlag(o.at) /\ ~Q!IsFlag(bump[p] + 1)
    BY DEF Q!Copy
  <1>2. active \subseteq Q!MapBits /\ bump[p] \in Nat /\ o.words \in Nat /\ unsafe \in [Q!PageIds -> BOOLEAN]
    BY DEF BaseInv, Q!IInv, Q!TypeOK, Q!ObjectType
  <1>3. active' = active
    BY <1>1, <1>2, PagesAssumptions, Q!CopyMaps
  <1>4. unsafe' = [q \in Q!PageIds |-> unsafe[q]]
    BY <1>1, <1>2, Zenon DEF Q!MovedFlags
  <1>. QED
    BY <1>2, <1>3, <1>4

\* Where a copy goes.
LEMMA CopyTarget ==
  ASSUME BaseInv, intact, intact', NEW o \in Originals, NEW loc, NEW calls,
         VisitCopies(loc, AddressOf(o), calls)
  PROVE  \E p \in Q!PageIds \ active :
           /\ bump[p] \in Nat /\ bump[p] + o.words < PageWords
           /\ objs' = (objs \ {o}) \cup {[page |-> p, at |-> bump[p] + 1, words |-> o.words]}
           /\ active' = active
           /\ UNCHANGED <<unsafe, pc, req>>
           /\ SetLoc(loc, Ptr(<<p, bump[p] + 1>>),
                [x \in Addrs |->
                   IF x = <<o.page, o.at - 1>> THEN Forward(<<p, bump[p] + 1>>)
                   ELSE IF Page(x) = p /\ x[2] \in bump[p] .. (bump[p] + o.words)
                        THEN mem[<<o.page, o.at + (x[2] - (bump[p] + 1))>>]
                   ELSE mem[x]])
           /\ Enter(<<p, bump[p] + 1>>, Hd(o), TRUE, calls)
  <1>1. o \in objs /\ Q!Copy(o, o.words)
    BY CopyOfPages
  <1>2. PICK p \in Q!PageIds :
          /\ Q!IsFirst(p, Q!WithRoom(Q!Passive, o.words))
          /\ bump' = [bump EXCEPT ![p] = Q!BumpAfter(@, o.words)]
          /\ objs' = (objs \ {o}) \cup {[page |-> p, at |-> bump[p] + 1, words |-> o.words]}
    BY <1>1 DEF Q!Copy
  <1>12. active' = active
    BY <1>1, CopySame
  <1>3. UNCHANGED <<unsafe, pc, req>>
    BY <1>1, CopySame DEF Q!Copy
  <1>4. /\ p \in Q!PageIds \ active /\ bump[p] \in Nat
        /\ bump \in [Q!PageIds -> Nat]
    BY <1>2 DEF Q!IsFirst, Q!WithRoom, Q!Passive, BaseInv, Q!IInv, Q!TypeOK
  <1>5. o.words \in Nat \ {0} /\ PageWords \in Nat
    BY <1>1, ObjectFacts, PagesAssumption
  <1>6. bump[p] + o.words < PageWords
    BY <1>2, <1>4, <1>5 DEF Q!IsFirst, Q!WithRoom, Q!FreeSpace
  <1>7. CopySize(Hd(o)) = o.words /\ Plus(AddressOf(o), -1) = <<o.page, o.at - 1>>
    BY <1>1, IdentifyFacts, ObjectFacts
  <1>8. PICK r \in P!PageIds :
          LET new == <<r, bump[r] + 1>>
              Shift(x) == Plus(AddressOf(o), x[2] - new[2])
          IN
          /\ bump'[r] # bump[r]
          /\ SetLoc(loc, Ptr(new),
               [x \in Addrs |->
                  IF x = <<o.page, o.at - 1>> THEN Forward(new)
                  ELSE IF Page(x) = r /\ x[2] \in (new[2] - 1) .. (new[2] + o.words - 1)
                       THEN mem[Shift(x)]
                  ELSE mem[x]])
          /\ Enter(new, Hd(o), TRUE, calls)
    BY <1>7 DEF VisitCopies, Hd
  <1>9. r = p
    BY <1>2, <1>4, <1>8, SamePages
  <1>10. \A x : Plus(AddressOf(o), x) = <<o.page, o.at + x>>
    BY AddressFacts
  <1>11. (bump[p] + 1) - 1 = bump[p] /\ (bump[p] + 1) + o.words - 1 = bump[p] + o.words
    BY <1>4, <1>5
  <1>. QED
    BY <1>2, <1>3, <1>4, <1>6, <1>8, <1>9, <1>10, <1>11, <1>12

LEMMA CopyEffect ==
  ASSUME BaseInv, intact, intact', NEW o \in Originals, NEW loc, VisitLoc(loc), NEW calls,
         VisitCopies(loc, AddressOf(o), calls)
  PROVE  \E new : CopyStep(o, new, loc, calls)
  <1>1. o \in objs /\ o.page \in active
    BY DEF Originals
  <1>2. PICK p \in Q!PageIds \ active :
          /\ bump[p] \in Nat /\ bump[p] + o.words < PageWords
          /\ objs' = (objs \ {o}) \cup {[page |-> p, at |-> bump[p] + 1, words |-> o.words]}
          /\ active' = active
          /\ UNCHANGED <<unsafe, pc, req>>
          /\ SetLoc(loc, Ptr(<<p, bump[p] + 1>>),
               [x \in Addrs |->
                  IF x = <<o.page, o.at - 1>> THEN Forward(<<p, bump[p] + 1>>)
                  ELSE IF Page(x) = p /\ x[2] \in bump[p] .. (bump[p] + o.words)
                       THEN mem[<<o.page, o.at + (x[2] - (bump[p] + 1))>>]
                  ELSE mem[x]])
          /\ Enter(<<p, bump[p] + 1>>, Hd(o), TRUE, calls)
    BY CopyTarget
  <1>0. PICK new : new = [page |-> p, at |-> bump[p] + 1, words |-> o.words]
    OBVIOUS
  <1> DEFINE m == [x \in Addrs |->
                     IF x = <<o.page, o.at - 1>> THEN Forward(<<p, bump[p] + 1>>)
                     ELSE IF Page(x) = p /\ x[2] \in bump[p] .. (bump[p] + o.words)
                          THEN mem[<<o.page, o.at + (x[2] - (bump[p] + 1))>>]
                     ELSE mem[x]]
             to == Ptr(<<p, bump[p] + 1>>)
  <1>3. /\ new.page = p /\ new.at = bump[p] + 1 /\ new.words = o.words
        /\ AddressOf(new) = <<p, bump[p] + 1>>
        /\ Plus(AddressOf(new), -1) = <<p, bump[p]>>
    <2>1. new.page = p /\ new.at = bump[p] + 1 /\ new.words = o.words
      BY <1>0
    <2>2. AddressOf(new) = <<p, bump[p] + 1>>
      BY <2>1, AddressFacts
    <2>3. Plus(AddressOf(new), -1) = <<p, (bump[p] + 1) + -1>>
      BY <2>2, AddressFacts
    <2>4. (bump[p] + 1) + -1 = bump[p]
      BY <1>2
    <2>. QED
      BY <2>1, <2>2, <2>3, <2>4
  <1>4. /\ o.page # p /\ o.at \in Nat \ {0} /\ o.words \in Nat \ {0}
        /\ Plus(AddressOf(o), -1) = <<o.page, o.at - 1>>
        /\ Plus(AddressOf(o), -1) \in Addrs
    BY <1>1, <1>2, ObjectFacts
  <1>5. ASSUME NEW w \in 0 .. (PageWords - 1)
        PROVE  <<p, w>> \in Addrs
    BY <1>2, SamePages DEF Addrs
  <1>6. PageWords \in Nat
    BY PagesAssumption
  <1>7. SetLoc(loc, to, m)
    BY <1>2
  <1>8. m[<<o.page, o.at - 1>>] = Forward(AddressOf(new))
    BY <1>3, <1>4
  <1>9. ASSUME NEW j \in 0 .. o.words
        PROVE  /\ <<p, bump[p] + j>> \in Addrs
               /\ m[<<p, bump[p] + j>>] = mem[<<o.page, o.at - 1 + j>>]
    <2>1. bump[p] + j \in 0 .. (PageWords - 1)
      BY <1>2, <1>4, <1>6
    <2>2. <<p, bump[p] + j>> # <<o.page, o.at - 1>>
      BY <1>4
    <2>3. o.at + ((bump[p] + j) - (bump[p] + 1)) = o.at - 1 + j
      BY <1>2, <1>4
    <2>4. bump[p] + j \in bump[p] .. (bump[p] + o.words)
      BY <1>2, <1>4
    <2>5. <<p, bump[p] + j>> \in Addrs
      BY <1>5, <2>1
    <2>6. Page(<<p, bump[p] + j>>) = p /\ <<p, bump[p] + j>>[2] = bump[p] + j
      BY AddressFacts
    <2>7. m[<<p, bump[p] + j>>] = mem[<<o.page, o.at + ((bump[p] + j) - (bump[p] + 1))>>]
      BY <2>2, <2>4, <2>5, <2>6
    <2>. QED
      BY <2>3, <2>5, <2>7
  <1>10. ASSUME NEW x \in Addrs, x # <<o.page, o.at - 1>>,
                Page(x) # p \/ x[2] < bump[p]
         PROVE  m[x] = mem[x]
    <2>1. x[2] \in Nat
      BY <1>6 DEF Addrs
    <2>2. ~(Page(x) = p /\ x[2] \in bump[p] .. (bump[p] + o.words))
      BY <1>2, <1>10, <2>1
    <2>. QED
      BY <1>10, <2>2
  <1>11. /\ \A x \in Addrs : ~IsField(loc, x) => mem'[x] = m[x]
         /\ \A x \in Addrs : IsField(loc, x) => mem'[x] = to
         /\ stack' = IF loc.at = "stack" THEN [stack EXCEPT ![loc.slot] = to] ELSE stack
    <2>1. CASE loc.at = "stack"
      BY <1>7, <2>1 DEF SetLoc, StackWith, IsField
    <2>2. CASE loc.at # "stack"
      <3>1. loc.at = "heap"
        BY <2>2 DEF VisitLoc, SlotLoc, FieldLoc
      <3>2. mem' = [m EXCEPT ![loc.field] = to] /\ stack' = stack
        BY <1>7, <2>2 DEF SetLoc
      <3>3. DOMAIN m = Addrs
        OBVIOUS
      <3> HIDE DEF m, to
      <3>4. /\ \A x \in Addrs : loc.field # x => mem'[x] = m[x]
            /\ \A x \in Addrs : loc.field = x => mem'[x] = to
        BY <3>2, <3>3
      <3>. QED
        BY <2>2, <3>1, <3>2, <3>4 DEF IsField
    <2>. QED
      BY <2>1, <2>2
  \* The visited field is no header and on a passive page.
  <1>12. ASSUME NEW x \in Addrs, IsField(loc, x)
         PROVE  /\ Page(x) \notin active
                /\ x[2] < bump[Page(x)]
                /\ \A q \in objs : x # Plus(AddressOf(q), -1)
    <2>0. PICK t \in Copies : \E i \in DOMAIN PtrsIn(t) : x = FieldAt(t, i)
      BY <1>12 DEF IsField, VisitLoc, SlotLoc, FieldLoc
    <2>1. PICK i \in DOMAIN PtrsIn(t) : x = FieldAt(t, i)
      BY <2>0
    <2>2. t \in objs /\ t.page \notin active
      BY DEF Copies
    <2>3. x = <<t.page, t.at + PtrsIn(t)[i]>> /\ PtrsIn(t)[i] \in 0 .. (t.words - 1)
      BY <2>1, <2>2, ObjectFacts
    <2>4. t.at \in Nat /\ t.words \in Nat /\ bump[t.page] \in Nat /\ t.at + t.words <= bump[t.page]
      BY <2>2, ObjectFacts
    <2>. QED
      <3>1. \A q \in objs : x # Plus(AddressOf(q), -1)
        BY <2>1, <2>2, Apart
      <3>2. Page(x) = t.page /\ x[2] = t.at + PtrsIn(t)[i]
        BY <2>3, AddressFacts
      <3>. QED
        BY <2>2, <2>3, <2>4, <3>1, <3>2
  <1>13. UNCHANGED <<unsafe, pc, req>> /\ active' = active /\ objs' = (objs \ {o}) \cup {new}
    BY <1>0, <1>2
  <1> HIDE DEF m, to
  <1>14. AddressOf(new) \in Addrs
    <2>1. bump[p] + 1 \in 0 .. (PageWords - 1)
      BY <1>2, <1>4, <1>6
    <2>. QED
      BY <1>3, <1>5, <2>1
  <1>15. ASSUME NEW q \in objs
         PROVE  AddressOf(q) # AddressOf(new)
    <2>1. q.at + q.words <= bump[q.page] /\ q.at \in Nat /\ q.words \in Nat \ {0} /\ bump[q.page] \in Nat
      BY ObjectFacts
    <2>2. AddressOf(q) = <<q.page, q.at>>
      BY AddressFacts
    <2>3. <<q.page, q.at>> # <<p, bump[p] + 1>>
      BY <1>2, <2>1
    <2>. QED
      BY <1>3, <2>2, <2>3
  <1>16. ASSUME NEW q \in objs, q # o, NEW x \in Addrs, Page(x) = q.page,
                x[2] \in (q.at - 1) .. (q.at + q.words - 1)
         PROVE  m[x] = mem[x]
    <2>1. /\ q.at + q.words <= bump[q.page] /\ q.at \in Nat \ {0} /\ q.words \in Nat \ {0}
          /\ bump[q.page] \in Nat
      BY ObjectFacts
    <2>2. Page(x) # p \/ x[2] < bump[p]
      BY <1>16, <2>1
    <2>3. q.page = o.page => q.at + q.words < o.at \/ o.at + o.words < q.at
      BY <1>1, <1>16 DEF BaseInv, Q!IInv, Q!MapInv, Q!Before
    <2>4. x # <<o.page, o.at - 1>>
      BY <1>4, <1>16, <2>1, <2>3, AddressFacts
    <2>. QED
      BY <1>10, <2>2, <2>4
  <1>17. ASSUME NEW q \in objs \ {o}
         PROVE  Hd(q)' = Hd(q)
    <2>1. /\ Plus(AddressOf(q), -1) = <<q.page, q.at - 1>> /\ Plus(AddressOf(q), -1) \in Addrs
          /\ q.at \in Nat \ {0} /\ q.words \in Nat \ {0}
      BY ObjectFacts
    <2>2. m[<<q.page, q.at - 1>>] = mem[<<q.page, q.at - 1>>]
      <3>1. /\ Page(<<q.page, q.at - 1>>) = q.page
            /\ <<q.page, q.at - 1>>[2] \in (q.at - 1) .. (q.at + q.words - 1)
            /\ <<q.page, q.at - 1>> \in Addrs
        BY <2>1, AddressFacts
      <3>. QED
        BY <1>16, <3>1
    <2>3. ~IsField(loc, <<q.page, q.at - 1>>)
      BY <1>12, <2>1
    <2>. QED
      BY <1>11, <2>1, <2>2, <2>3 DEF Hd, HeaderOf
  <1>18. ASSUME NEW q \in objs \ {o}, NEW i \in DOMAIN PtrsIn(q)
         PROVE  Word(q, i)' = IF IsField(loc, FieldAt(q, i)) THEN to ELSE Word(q, i)
    <2>1. /\ PtrsIn(q)[i] \in 0 .. (q.words - 1)
          /\ FieldAt(q, i) = <<q.page, q.at + PtrsIn(q)[i]>> /\ FieldAt(q, i) \in Addrs
          /\ q.at \in Nat \ {0} /\ q.words \in Nat \ {0}
      BY ObjectFacts
    <2>2. m[FieldAt(q, i)] = mem[FieldAt(q, i)]
      <3>1. /\ Page(FieldAt(q, i)) = q.page
            /\ FieldAt(q, i)[2] \in (q.at - 1) .. (q.at + q.words - 1)
        BY <2>1, AddressFacts
      <3>. QED
        BY <1>16, <2>1, <3>1
    <2>3. Word(q, i)' = mem'[FieldAt(q, i)]
      BY <1>17 DEF Word, FieldAt, PtrsIn
    <2>. QED
      BY <1>11, <2>1, <2>2, <2>3 DEF Word
  <1>19. Hd(new)' = Hd(o)
    <2>1. <<p, bump[p]>> \in Addrs /\ m[<<p, bump[p]>>] = mem[<<o.page, o.at - 1>>]
      <3>1. 0 \in 0 .. o.words /\ bump[p] + 0 = bump[p] /\ o.at - 1 + 0 = o.at - 1
        BY <1>2, <1>4
      <3>. QED
        BY <1>9, <3>1
    <2>2. ~IsField(loc, <<p, bump[p]>>)
      BY <1>2, <1>12, <2>1, AddressFacts
    <2>3. Hd(new)' = mem'[<<p, bump[p]>>]
      BY <1>3 DEF Hd, HeaderOf
    <2>4. Hd(o) = mem[<<o.page, o.at - 1>>]
      BY <1>4 DEF Hd, HeaderOf
    <2>. QED
      BY <1>11, <2>1, <2>2, <2>3, <2>4
  <1>20. ASSUME NEW i \in DOMAIN PtrsIn(o)
         PROVE  Word(new, i)' = Word(o, i)
    <2>1. /\ PtrsIn(o)[i] \in 0 .. (o.words - 1)
          /\ FieldAt(o, i) = <<o.page, o.at + PtrsIn(o)[i]>>
      BY <1>1, ObjectFacts
    <2> DEFINE j == PtrsIn(o)[i] + 1
    <2>2. /\ j \in 0 .. o.words /\ bump[p] + j = bump[p] + 1 + PtrsIn(o)[i]
          /\ o.at - 1 + j = o.at + PtrsIn(o)[i]
      BY <1>2, <1>4, <2>1
    <2>3. /\ <<p, bump[p] + 1 + PtrsIn(o)[i]>> \in Addrs
          /\ m[<<p, bump[p] + 1 + PtrsIn(o)[i]>>] = mem[FieldAt(o, i)]
      BY <1>9, <2>1, <2>2
    <2>4. ~IsField(loc, <<p, bump[p] + 1 + PtrsIn(o)[i]>>)
      <3>1. PICK x : x = <<p, bump[p] + 1 + PtrsIn(o)[i]>>
        OBVIOUS
      <3>2. x \in Addrs /\ Page(x) = p /\ x[2] = bump[p] + 1 + PtrsIn(o)[i]
        BY <2>3, <3>1, AddressFacts
      <3>3. ~(x[2] < bump[p])
        BY <1>2, <2>1, <3>2
      <3>4. ~IsField(loc, x)
        BY <1>12, <3>2, <3>3
      <3>. QED
        BY <3>1, <3>4
    <2>5. FieldAt(new, i)' = <<p, bump[p] + 1 + PtrsIn(o)[i]>>
      <3>1. PtrsIn(new)' = PtrsIn(o)
        BY <1>19 DEF PtrsIn
      <3>2. FieldAt(new, i)' = Plus(AddressOf(new), PtrsIn(o)[i])
        BY <3>1 DEF FieldAt
      <3>. QED
        BY <1>3, <3>2, AddressFacts
    <2>. QED
      BY <1>11, <2>3, <2>4, <2>5 DEF Word
  <1>21. HeaderOf(AddressOf(o))' = Forward(AddressOf(new))
    BY <1>1, <1>4, <1>8, <1>11, <1>12 DEF HeaderOf
  <1>22. ASSUME NEW a \in Headed, a # AddressOf(o)
         PROVE  HeaderOf(a)' = HeaderOf(a)
    <2>1. Plus(a, -1) \in Addrs /\ Page(Plus(a, -1)) \in active /\ Plus(a, -1) = <<a[1], a[2] - 1>>
      BY AddressFacts DEF Headed
    <2>2. a = <<a[1], a[2]>> /\ a[2] \in Int
      BY <1>6 DEF Headed, Addrs
    <2>3. <<a[1], a[2] - 1>> # <<o.page, o.at - 1>>
      BY <1>4, <1>22, <2>2, AddressFacts
    <2>. QED
      BY <1>2, <1>10, <1>11, <1>12, <2>1, <2>3 DEF HeaderOf
  <1>23. frames' = IF Identify(Hd(o)) = "struct"
                     THEN Append(calls, [obj |-> AddressOf(new), ptrs |-> PtrsIn(o), i |-> 1, safe |-> TRUE])
                     ELSE calls
    BY <1>2, <1>3 DEF Enter, PtrsIn
  <1>24. to = Ptr(AddressOf(new)) /\ new.page \in Q!PageIds \ active /\ new.at \in Nat \ {0}
    BY <1>2, <1>3 DEF to
  <1>. QED
    BY <1>3, <1>11, <1>13, <1>14, <1>15, <1>17, <1>18, <1>19, <1>20, <1>21, <1>22, <1>23, <1>24
       DEF CopyStep

\* The objects after a copy.
LEMMA CopyObjects ==
  ASSUME BaseInv, intact, NEW o \in Originals, NEW loc, NEW calls, NEW new,
         CopyStep(o, new, loc, calls)
  PROVE  /\ o \in objs /\ new \notin objs /\ objs' = (objs \ {o}) \cup {new}
         /\ Copies' = Copies \cup {new} /\ Originals' = Originals \ {o} /\ Headed' = Headed
         /\ Copies \subseteq objs \ {o} /\ Originals \subseteq objs
         /\ \A q \in objs \ {o} : Id(q)' = Id(q) /\ PtrsIn(q)' = PtrsIn(q)
         /\ Id(new)' = Id(o) /\ PtrsIn(new)' = PtrsIn(o)
         /\ \A q, r \in objs : Id(q) = Id(r) => q = r
  <1>1. o \in objs /\ o.page \in active
    BY DEF Originals
  <1>2. new \notin objs /\ objs' = (objs \ {o}) \cup {new} /\ active' = active /\ new.page \notin active
    BY DEF CopyStep
  <1>3. Copies' = Copies \cup {new} /\ Originals' = Originals \ {o} /\ Headed' = Headed
    BY <1>1, <1>2 DEF Copies, Originals, Headed
  <1>4. \A q \in objs \ {o} : Id(q)' = Id(q) /\ PtrsIn(q)' = PtrsIn(q)
    BY DEF CopyStep, Id, PtrsIn
  <1>5. Id(new)' = Id(o) /\ PtrsIn(new)' = PtrsIn(o)
    BY DEF CopyStep, Id, PtrsIn
  <1>. QED
    BY <1>1, <1>2, <1>3, <1>4, <1>5 DEF Copies, Originals, BaseInv, HeadersInv

\* A word stands for the same object as before it.
LEMMA CopyKeepsWords ==
  ASSUME BaseInv, intact, NEW o \in Originals, NEW loc, NEW calls, NEW new,
         CopyStep(o, new, loc, calls), NEW w, NEW y
  PROVE  /\ ToCopy(w, y) => ToCopy(w, y)'
         /\ ToOriginal(w, y) /\ y # Id(o) => ToOriginal(w, y)'
         /\ ToOld(w, y) => ToOld(w, y)'
  <1>1. /\ o \in objs /\ Copies' = Copies \cup {new} /\ Originals' = Originals \ {o} /\ Headed' = Headed
        /\ Copies \subseteq objs \ {o} /\ Originals \subseteq objs
        /\ \A q \in objs \ {o} : Id(q)' = Id(q)
        /\ Id(new)' = Id(o)
    BY CopyObjects
  <1>2. ToCopy(w, y) => ToCopy(w, y)'
    BY <1>1 DEF ToCopy
  <1>3. ToOriginal(w, y) /\ y # Id(o) => ToOriginal(w, y)'
    BY <1>1 DEF ToOriginal
  <1>4. ASSUME ToOriginal(w, y), y = Id(o)
        PROVE  ToForward(w, y)'
    <2>1. w = Ptr(AddressOf(o))
      BY <1>4, CopyObjects DEF ToOriginal
    <2>2. AddressOf(o) \in Headed
      BY <1>1, ObjectFacts, AddressFacts DEF Headed, Originals
    <2>3. HeaderOf(AddressOf(o))' = Forward(AddressOf(new))
      BY DEF CopyStep
    <2>. QED
      BY <1>1, <1>4, <2>1, <2>2, <2>3 DEF ToForward
  <1>5. ASSUME ToForward(w, y)
        PROVE  ToForward(w, y)'
    <2>1. PICK a \in Headed, t \in Copies : w = Ptr(a) /\ HeaderOf(a) = Forward(AddressOf(t)) /\ Id(t) = y
      BY <1>5 DEF ToForward
    <2>2. a # AddressOf(o)
      BY <1>1, <2>1, ForwardNoObject
    <2>3. HeaderOf(a)' = HeaderOf(a)
      BY <2>2 DEF CopyStep
    <2>. QED
      BY <1>1, <2>1, <2>3 DEF ToForward
  <1>. QED
    BY <1>2, <1>3, <1>4, <1>5 DEF ToOld

\* How the calls in progress lead to the copy of o at loc: its parent is copied,
\* the field that is visited is the only one of a copy that points to o, and it
\* is no longer pending.
PendingIn(calls, t, i) == \E d \in DOMAIN calls : calls[d].obj = AddressOf(t) /\ calls[d].i <= i
Leads(o, loc, calls) ==
  /\ Id(o) \in Ids
  /\ \A e \in Edges : e[3] = Object(Id(o)) => \E u \in Copies : Id(u) = e[1]
  /\ \A t \in Copies : \A i \in DOMAIN PtrsIn(t) :
       /\ PendingIn(calls, t, i) <=> Pending(t, i) /\ ~IsField(loc, FieldAt(t, i))
       /\ \A e \in Edges : e[1] = Id(t) /\ e[2] = PtrsIn(t)[i] =>
            /\ IsField(loc, FieldAt(t, i)) => e[3] = Object(Id(o))
            /\ Pending(t, i) /\ e[3] = Object(Id(o)) => IsField(loc, FieldAt(t, i))
  /\ \A q \in Originals : \A i \in DOMAIN PtrsIn(q) : ~IsField(loc, FieldAt(q, i))
  /\ calls \in Seq(FrameType)
  /\ \A d \in DOMAIN calls : \E t \in Copies : calls[d].obj = AddressOf(t) /\ calls[d].ptrs = PtrsIn(t) /\ calls[d].safe = TRUE
  /\ \A c, d \in DOMAIN calls : calls[c].obj = calls[d].obj => c = d

\* The children of an object that is not copied are not copied either.
LEMMA ChildrenNotCopied ==
  ASSUME BaseInv, intact, TraceInv, NEW o \in Originals, NEW e \in Edges, e[1] = Id(o),
         NEW z \in Ids, e[3] = Object(z), NEW w, ToOld(w, z)
  PROVE  ToOriginal(w, z)
  <1>1. \A u \in Copies : Id(u) # Id(o)
    BY DEF Copies, Originals, BaseInv, HeadersInv
  <1>2. \A t \in Copies : Id(t) # z
    BY <1>1 DEF TraceInv, ParentsInv
  <1>. QED
    BY <1>2 DEF ToOld, ToForward

\* The calls after a copy.
LEMMA CopyFrames ==
  ASSUME BaseInv, intact, TraceInv, NEW o \in Originals, NEW loc, NEW calls, NEW new,
         CopyStep(o, new, loc, calls), Leads(o, loc, calls)
  PROVE  /\ \A i \in DOMAIN PtrsIn(o) : Pending(new, i)'
         /\ \A t \in Copies : \A i : Pending(t, i)' <=> PendingIn(calls, t, i)
         /\ FramesInv'
         /\ frames' \in Seq(FrameType)
         /\ \A f \in {frames'[d] : d \in DOMAIN frames'} \ {calls[d] : d \in DOMAIN calls} :
              f.i = 1 /\ f.ptrs = PtrsIn(o)
  <1>1. /\ o \in objs /\ Copies' = Copies \cup {new} /\ Copies \subseteq objs \ {o}
        /\ \A q \in objs \ {o} : PtrsIn(q)' = PtrsIn(q)
        /\ PtrsIn(new)' = PtrsIn(o)
    BY CopyObjects
  <1>2. \A t \in Copies : AddressOf(t) # AddressOf(new)
    BY <1>1 DEF CopyStep
  <1>3. calls \in Seq(FrameType)
    BY DEF Leads
  <1>4. PICK f : f = [obj |-> AddressOf(new), ptrs |-> PtrsIn(o), i |-> 1, safe |-> TRUE]
    OBVIOUS
  <1>5. f.obj = AddressOf(new) /\ f.ptrs = PtrsIn(o) /\ f.i = 1 /\ f.safe = TRUE
    BY <1>4
  <1>6. f \in FrameType
    <2>1. AddressOf(new) \in Addrs /\ PtrsIn(o) \in Seq(Nat)
      BY <1>1, ObjectFacts DEF CopyStep
    <2>. QED
      BY <1>4, <2>1 DEF FrameType
  <1>7. \/ frames' = Append(calls, f)
        \/ frames' = calls /\ PtrsIn(o) = <<>>
    <2>1. Identify(Hd(o)) # "struct" => PtrsIn(o) = <<>>
      BY <1>1, IdentifyFacts, ObjectFacts, KindFacts
    <2>. QED
      BY <1>4, <2>1 DEF CopyStep
  <1>8. \A d \in DOMAIN calls : \E t \in Copies :
          calls[d].obj = AddressOf(t) /\ calls[d].ptrs = PtrsIn(t) /\ calls[d].safe = TRUE
    BY DEF Leads
  <1>9. \A c, d \in DOMAIN calls : calls[c].obj = calls[d].obj => c = d
    BY DEF Leads
  <1>10. CASE frames' = Append(calls, f)
    <2> DEFINE n == Len(calls) + 1
    <2>1. /\ DOMAIN frames' = DOMAIN calls \cup {n} /\ n \notin DOMAIN calls
          /\ frames'[n] = f /\ \A d \in DOMAIN calls : frames'[d] = calls[d]
      BY <1>3, <1>10
    <2>2. frames' \in Seq(FrameType)
      BY <1>3, <1>6, <1>10
    <2> HIDE DEF n
    <2>3. \A i \in DOMAIN PtrsIn(o) : Pending(new, i)'
      <3>1. ASSUME NEW i \in DOMAIN PtrsIn(o)
            PROVE  1 <= i
        <4>1. PtrsIn(o) \in Seq(Nat)
          BY <1>1, ObjectFacts
        <4>. QED
          BY <4>1
      <3>. QED
        BY <1>5, <2>1, <3>1 DEF Pending
    <2>4. \A t \in Copies : \A i : Pending(t, i)' <=> PendingIn(calls, t, i)
      BY <1>2, <1>5, <2>1 DEF Pending, PendingIn
    <2>5. \A d \in DOMAIN frames' : \E t \in Copies' :
            frames'[d].obj = AddressOf(t) /\ frames'[d].ptrs = PtrsIn(t)' /\ frames'[d].safe = TRUE
      BY <1>1, <1>5, <1>8, <2>1
    <2>6. \A c, d \in DOMAIN frames' : frames'[c].obj = frames'[d].obj => c = d
      <3>1. \A d \in DOMAIN calls : calls[d].obj # f.obj
        BY <1>2, <1>5, <1>8
      <3>. QED
        BY <1>9, <2>1, <3>1
    <2>. QED
      BY <1>5, <2>1, <2>2, <2>3, <2>4, <2>5, <2>6 DEF FramesInv
  <1>11. CASE frames' = calls /\ PtrsIn(o) = <<>>
    <2>1. \A d \in DOMAIN frames' : \E t \in Copies' :
            frames'[d].obj = AddressOf(t) /\ frames'[d].ptrs = PtrsIn(t)' /\ frames'[d].safe = TRUE
      BY <1>1, <1>8, <1>11
    <2>2. \A t \in Copies : \A i : Pending(t, i)' <=> PendingIn(calls, t, i)
      BY <1>11 DEF Pending, PendingIn
    <2>. QED
      BY <1>3, <1>9, <1>11, <2>1, <2>2 DEF FramesInv
  <1>. QED
    BY <1>7, <1>10, <1>11

\* What the fields of the copies stand for after it.
LEMMA CopyKeepsTraced ==
  ASSUME BaseInv, intact, TraceInv, NEW o \in Originals, NEW loc, NEW calls, NEW new,
         CopyStep(o, new, loc, calls), Leads(o, loc, calls), UNCHANGED saved
  PROVE  TracedInv'
  <1>1. /\ o \in objs /\ new \notin objs /\ objs' = (objs \ {o}) \cup {new}
        /\ Copies' = Copies \cup {new} /\ Originals' = Originals \ {o}
        /\ Copies \subseteq objs \ {o} /\ Originals \subseteq objs
        /\ \A q \in objs \ {o} : Id(q)' = Id(q) /\ PtrsIn(q)' = PtrsIn(q)
        /\ Id(new)' = Id(o) /\ PtrsIn(new)' = PtrsIn(o)
    BY CopyObjects
  <1>2. Ids' = Ids /\ Edges' = Edges
    BY DEF Ids, Edges
  <1>3. new \notin Originals'
    BY <1>1
  <1>4. ASSUME NEW i \in DOMAIN PtrsIn(o), NEW e \in Edges,
               e[1] = Id(o) /\ e[2] = PtrsIn(o)[i],
               NEW z \in Ids, e[3] = Object(z), FieldTraced(o, i, z)
        PROVE  FieldTraced(new, i, z)'
    <2>1. PICK w : w = Word(o, i)
      OBVIOUS
    <2>2. ToOriginal(w, z)
      BY <1>4, <2>1, ChildrenNotCopied DEF FieldTraced
    <2>3. z # Id(o)
      <3>1. \A u \in Copies : Id(u) # Id(o)
        BY DEF Copies, Originals, BaseInv, HeadersInv
      <3>. QED
        BY <1>4, <3>1 DEF Leads
    <2>4. ToOriginal(w, z)'
      BY <2>2, <2>3, CopyKeepsWords
    <2>5. Word(new, i)' = w
      BY <2>1 DEF CopyStep
    <2>6. Pending(new, i)'
      BY CopyFrames
    <2>. QED
      BY <1>3, <2>4, <2>5, <2>6 DEF FieldTraced, ToOriginal
  <1>5. ASSUME NEW q \in Originals', NEW i \in DOMAIN PtrsIn(q), NEW z \in Ids, FieldTraced(q, i, z)
        PROVE  FieldTraced(q, i, z)'
    <2>1. q \in Originals /\ q \in objs \ {o}
      BY <1>1
    <2>2. PICK w : w = Word(q, i)
      OBVIOUS
    <2>3. ToOld(w, z)
      BY <1>5, <2>1, <2>2 DEF FieldTraced
    <2>4. ToOld(w, z)'
      BY <2>3, CopyKeepsWords
    <2>5. Word(q, i)' = w
      BY <2>1, <2>2 DEF CopyStep, Leads
    <2>. QED
      BY <1>5, <2>4, <2>5 DEF FieldTraced, ToOld, ToOriginal, ToForward
  <1>6. ASSUME NEW q \in Copies, NEW i \in DOMAIN PtrsIn(q), NEW e \in Edges,
               e[1] = Id(q) /\ e[2] = PtrsIn(q)[i],
               NEW z \in Ids, e[3] = Object(z), FieldTraced(q, i, z)
        PROVE  FieldTraced(q, i, z)'
    <2>1. q \in objs \ {o} /\ q \notin Originals' /\ q \notin Originals
      BY <1>1 DEF Copies, Originals
    <2>2. CASE IsField(loc, FieldAt(q, i))
      <3>1. z = Id(o)
        BY <1>6, <2>2, WordFacts DEF Leads
      <3>2. Word(q, i)' = Ptr(AddressOf(new))
        BY <2>1, <2>2 DEF CopyStep
      <3>3. ~Pending(q, i)'
        BY <2>2, CopyFrames DEF Leads
      <3>. QED
        BY <1>1, <2>1, <3>1, <3>2, <3>3 DEF FieldTraced, ToCopy
    <2>3. CASE ~IsField(loc, FieldAt(q, i))
      <3>1. PICK w : w = Word(q, i)
        OBVIOUS
      <3>2. Word(q, i)' = w
        BY <2>1, <2>3, <3>1 DEF CopyStep
      <3>3. Pending(q, i)' <=> Pending(q, i)
        BY <2>3, CopyFrames DEF Leads
      <3>4. CASE Pending(q, i)
        <4>1. ToOriginal(w, z) /\ z # Id(o)
          BY <1>6, <2>1, <2>3, <3>1, <3>4 DEF FieldTraced, Leads
        <4>2. ToOriginal(w, z)'
          BY <4>1, CopyKeepsWords
        <4>. QED
          BY <2>1, <3>2, <3>3, <3>4, <4>2 DEF FieldTraced, ToOriginal
      <3>5. CASE ~Pending(q, i)
        <4>1. ToCopy(w, z)
          BY <1>6, <2>1, <3>1, <3>5 DEF FieldTraced
        <4>2. ToCopy(w, z)'
          BY <4>1, CopyKeepsWords
        <4>. QED
          BY <2>1, <3>2, <3>3, <3>5, <4>2 DEF FieldTraced, ToCopy
      <3>. QED
        BY <3>4, <3>5
    <2>. QED
      BY <2>2, <2>3
  <1>7. ASSUME NEW q \in objs', Id(q)' \in Ids, NEW i \in DOMAIN PtrsIn(q)'
        PROVE  \E e \in Edges :
                 /\ e[1] = Id(q)' /\ e[2] = PtrsIn(q)'[i]
                 /\ e[3] = Nil => Word(q, i)' = Nil
                 /\ \A y \in Ids : e[3] = Object(y) => FieldTraced(q, i, y)'
    <2>1. CASE q = new
      <3>1. PICK e \in Edges :
              /\ e[1] = Id(o) /\ e[2] = PtrsIn(o)[i]
              /\ e[3] = Nil => Word(o, i) = Nil
              /\ \A y \in Ids : e[3] = Object(y) => FieldTraced(o, i, y)
        BY <1>1, <1>7, <2>1 DEF TraceInv, TracedInv
      <3>2. i \in DOMAIN PtrsIn(o) /\ Word(new, i)' = Word(o, i)
        BY <1>1, <1>7, <2>1 DEF CopyStep
      <3>3. \A y \in Ids : e[3] = Object(y) => FieldTraced(new, i, y)'
        BY <1>4, <3>1, <3>2
      <3>. QED
        BY <1>1, <2>1, <3>1, <3>2, <3>3
    <2>2. CASE q # new
      <3>1. q \in objs \ {o} /\ Id(q)' = Id(q) /\ PtrsIn(q)' = PtrsIn(q)
        BY <1>1, <2>2
      <3>2. PICK e \in Edges :
              /\ e[1] = Id(q) /\ e[2] = PtrsIn(q)[i]
              /\ e[3] = Nil => Word(q, i) = Nil
              /\ \A y \in Ids : e[3] = Object(y) => FieldTraced(q, i, y)
        BY <1>7, <3>1 DEF TraceInv, TracedInv
      <3>3. q \in Originals' \/ q \in Copies
        BY <1>1, <3>1 DEF Copies, Originals
      <3>4. \A y \in Ids : e[3] = Object(y) => FieldTraced(q, i, y)'
        BY <1>5, <1>6, <1>7, <3>1, <3>2, <3>3
      <3>5. e[3] = Nil => Word(q, i)' = Nil
        <4>1. e[3] = Nil => ~IsField(loc, FieldAt(q, i))
          BY <1>1, <1>7, <3>1, <3>2, <3>3, WordFacts DEF Leads
        <4>. QED
          BY <1>7, <3>1, <3>2, <4>1 DEF CopyStep
      <3>. QED
        BY <3>1, <3>2, <3>4, <3>5
    <2>. QED
      BY <2>1, <2>2
  <1>. QED
    BY <1>2, <1>7 DEF TracedInv

\* What holds of the trace whatever the visited pointer is.
LEMMA CopyKeepsGraph ==
  ASSUME BaseInv, intact, TraceInv, NEW o \in Originals, NEW loc, NEW calls, NEW new,
         CopyStep(o, new, loc, calls), Leads(o, loc, calls), UNCHANGED <<saved, made>>
  PROVE  GraphInv' /\ EdgesInv' /\ ParentsInv'
  <1>1. /\ o \in objs /\ new \notin objs /\ objs' = (objs \ {o}) \cup {new}
        /\ Copies' = Copies \cup {new}
        /\ Copies \subseteq objs \ {o}
        /\ \A q \in objs \ {o} : Id(q)' = Id(q) /\ PtrsIn(q)' = PtrsIn(q)
        /\ Id(new)' = Id(o) /\ PtrsIn(new)' = PtrsIn(o)
    BY CopyObjects
  <1>2. Ids' = Ids /\ Edges' = Edges /\ \A s : Root(s)' = Root(s)
    BY DEF Ids, Edges, Root
  <1>3. GraphInv'
    BY <1>2 DEF TraceInv, GraphInv, HasRoots, Closed
  <1>4. EdgesInv'
    <2>1. ASSUME NEW e \in Edges
          PROVE  \E q \in objs' : \E i \in DOMAIN PtrsIn(q)' : Id(q)' = e[1] /\ PtrsIn(q)'[i] = e[2]
      <3>1. PICK q \in objs : \E i \in DOMAIN PtrsIn(q) : Id(q) = e[1] /\ PtrsIn(q)[i] = e[2]
        BY DEF TraceInv, EdgesInv
      <3>. QED
        BY <1>1, <3>1
    <2>2. ASSUME NEW x \in Ids
          PROVE  \E q \in objs' : Id(q)' = x
      <3>1. PICK q \in objs : Id(q) = x
        BY DEF TraceInv, EdgesInv
      <3>. QED
        BY <1>1, <3>1
    <2>3. \A t \in Copies' : Id(t)' \in Ids
      BY <1>1 DEF TraceInv, EdgesInv, Leads
    <2>. QED
      BY <1>2, <2>1, <2>2, <2>3 DEF EdgesInv
  <1>5. ASSUME NEW e \in Edges, NEW t \in Copies', e[3] = Object(Id(t)')
        PROVE  \E u \in Copies' : Id(u)' = e[1]
    <2>1. \E u \in Copies : Id(u) = e[1]
      BY <1>1, <1>5 DEF Leads, TraceInv, ParentsInv
    <2>. QED
      BY <1>1, <2>1
  <1>6. ParentsInv'
    BY <1>2, <1>5 DEF ParentsInv
  <1>. QED
    BY <1>3, <1>4, <1>6

\* A copy of a root's object.
LEMMA RootLeads ==
  ASSUME BaseInv, intact, TraceInv, next \in Slots, frames = <<>>,
         NEW o \in Originals, stack[next] = Ptr(AddressOf(o)), Id(o) \in Ids,
         Root(next) = Object(Id(o))
  PROVE  Leads(o, SlotLoc(next), <<>>)
  <1> DEFINE X == {Id(t) : t \in Copies}
  <1>1. X \subseteq Ids
    BY DEF TraceInv, EdgesInv
  <1>2. \A t \in Copies : t \in objs /\ t \notin Originals
    BY DEF Copies, Originals
  <1>3. \A t \in Copies : \A i : ~Pending(t, i)
    BY DEF Pending
  <1>4. Closed(X)
    <2>1. SUFFICES ASSUME NEW e \in Edges, NEW y \in Ids, e[1] \in X, e[3] = Object(y)
                   PROVE  y \in X
      BY DEF Closed
    <2>2. PICK t \in Copies : Id(t) = e[1]
      BY <2>1
    <2>3. PICK q \in objs : \E i \in DOMAIN PtrsIn(q) : Id(q) = e[1] /\ PtrsIn(q)[i] = e[2]
      BY DEF TraceInv, EdgesInv
    <2>4. q = t
      BY <1>2, <2>2, <2>3 DEF BaseInv, HeadersInv
    <2>5. PICK i \in DOMAIN PtrsIn(t) : PtrsIn(t)[i] = e[2]
      BY <2>3, <2>4
    <2>6. PICK f \in Edges :
            /\ f[1] = Id(t) /\ f[2] = PtrsIn(t)[i]
            /\ \A z \in Ids : f[3] = Object(z) => FieldTraced(t, i, z)
      BY <1>1, <1>2, <2>2, <2>5 DEF TraceInv, TracedInv
    <2>7. f[3] = Object(y)
      BY <2>1, <2>2, <2>5, <2>6 DEF TraceInv, GraphInv
    <2>. QED
      BY <1>2, <1>3, <2>6, <2>7 DEF FieldTraced, ToCopy
  <1>5. next \in Nat
    BY DEF Slots
  <1>6. HasRoots(X, next)
    <2>1. SUFFICES ASSUME NEW t \in 1 .. (next - 1), NEW y \in Ids, Root(t) = Object(y)
                   PROVE  y \in X
      BY DEF HasRoots
    <2>2. t \in Slots /\ t < next
      BY ClientAssumption DEF Slots
    <2>. QED
      BY <2>1, <2>2 DEF TraceInv, RootsInv, ToCopy
  <1>7. Object(Id(o)) # Nil
    BY WordFacts
  <1>8. ASSUME NEW e \in Edges, e[3] = Object(Id(o))
        PROVE  \E u \in Copies : Id(u) = e[1]
    BY <1>1, <1>4, <1>6, <1>7, <1>8 DEF TraceInv, GraphInv
  <1>9. \A x : ~IsField(SlotLoc(next), x)
    BY DEF IsField, SlotLoc
  <1>10. \A t, i : ~PendingIn(<<>>, t, i)
    BY DEF PendingIn
  <1>. QED
    BY <1>3, <1>8, <1>9, <1>10 DEF Leads

\* A visit of a root that copies keeps the invariant of the trace.
LEMMA RootCopied ==
  ASSUME BaseInv, intact, intact', TraceInv, next \in Slots, frames = <<>>,
         NEW o \in Originals, stack[next] = Ptr(AddressOf(o)), Id(o) \in Ids,
         Root(next) = Object(Id(o)), NEW new,
         CopyStep(o, new, SlotLoc(next), <<>>), next' = next + 1, origin' = stack[next],
         UNCHANGED <<unsafeStack, fresh, saved, made>>
  PROVE  TraceInv'
  <1>1. Leads(o, SlotLoc(next), <<>>)
    BY RootLeads
  <1>2. GraphInv' /\ EdgesInv' /\ ParentsInv'
    BY <1>1, CopyKeepsGraph
  <1>3. TracedInv'
    BY <1>1, CopyKeepsTraced
  <1>4. FramesInv'
    BY <1>1, CopyFrames
  <1>5. stack' = [stack EXCEPT ![next] = Ptr(AddressOf(new))] /\ DOMAIN stack = Slots
    BY DEF CopyStep, SlotLoc, BaseInv, TypeInv
  <1>6. \A s : Root(s)' = Root(s)
    BY DEF Root
  <1>7. Ids' = Ids
    BY DEF Ids
  <1>8. next \in Int
    BY DEF Slots
  <1>9. ASSUME NEW s \in Slots
        PROVE  /\ Root(s)' \in {Nil, Data} => stack'[s] = Root(s)'
               /\ \A y \in Ids : Root(s)' = Object(y) =>
                    IF s < next' THEN ToCopy(stack[s], y)' ELSE ToOld(stack[s], y)'
    <2>0. s \in Int
      BY DEF Slots
    <2>1. CASE s = next
      <3>1. stack'[s] = Ptr(AddressOf(new)) /\ s < next'
        BY <1>5, <1>8, <2>1
      <3>2. new \in Copies' /\ Id(new)' = Id(o)
        BY CopyObjects
      <3>. QED
        BY <1>6, <2>1, <3>1, <3>2, WordFacts DEF ToCopy
    <2>2. CASE s # next
      <3>1. stack'[s] = stack[s] /\ (s < next' <=> s < next)
        BY <1>5, <1>8, <2>0, <2>2
      <3>2. PICK w : w = stack[s]
        OBVIOUS
      <3>3. ASSUME NEW y \in Ids, Root(s) = Object(y)
            PROVE  IF s < next THEN ToCopy(w, y)' ELSE ToOld(w, y)'
        BY <3>2, <3>3, CopyKeepsWords DEF TraceInv, RootsInv
      <3>4. Root(s) \in {Nil, Data} => stack[s] = Root(s)
        BY DEF TraceInv, RootsInv
      <3>. QED
        BY <1>6, <3>1, <3>2, <3>3, <3>4 DEF ToCopy, ToOld, ToOriginal, ToForward
    <2>. QED
      BY <2>1, <2>2
  <1>10. RootsInv'
    BY <1>7, <1>9 DEF RootsInv
  <1>11. OriginInv'
    <2>1. AddressOf(o) \in Headed
      BY ObjectFacts, AddressFacts DEF Headed, Originals
    <2>2. Headed' = Headed
      BY CopyObjects
    <2>. QED
      BY <2>1, <2>2 DEF CopyStep, OriginInv
  <1>. QED
    BY <1>2, <1>3, <1>4, <1>10, <1>11 DEF TraceInv

\* i++ of the call on top.
LEMMA SkipFacts ==
  ASSUME frames \in Seq(FrameType), frames # <<>>
  PROVE  LET n == Len(frames) IN
         /\ n \in DOMAIN frames /\ frames[n] \in FrameType
         /\ SkipChild \in Seq(FrameType) /\ DOMAIN SkipChild = DOMAIN frames
         /\ \A d \in DOMAIN frames : d # n => SkipChild[d] = frames[d]
         /\ SkipChild[n].obj = frames[n].obj /\ SkipChild[n].ptrs = frames[n].ptrs
         /\ SkipChild[n].safe = frames[n].safe /\ SkipChild[n].i = frames[n].i + 1
         /\ \A d \in DOMAIN frames : /\ SkipChild[d].obj = frames[d].obj
                                     /\ SkipChild[d].ptrs = frames[d].ptrs
                                     /\ SkipChild[d].safe = frames[d].safe
  <1> DEFINE n == Len(frames)
             f == [frames[n] EXCEPT !.i = frames[n].i + 1]
  <1>1. n \in DOMAIN frames /\ frames[n] \in FrameType /\ DOMAIN frames = 1 .. n /\ n \in Nat
    OBVIOUS
  <1>2. /\ f \in FrameType /\ f.obj = frames[n].obj /\ f.ptrs = frames[n].ptrs
        /\ f.safe = frames[n].safe /\ f.i = frames[n].i + 1
    <2>1. PICK g \in FrameType : g = frames[n]
      BY <1>1
    <2>2. g.i + 1 \in Nat
      BY DEF FrameType
    <2>3. [g EXCEPT !.i = g.i + 1] \in FrameType
      BY <2>2 DEF FrameType
    <2>4. /\ [g EXCEPT !.i = g.i + 1].obj = g.obj /\ [g EXCEPT !.i = g.i + 1].ptrs = g.ptrs
          /\ [g EXCEPT !.i = g.i + 1].safe = g.safe /\ [g EXCEPT !.i = g.i + 1].i = g.i + 1
      BY DEF FrameType
    <2>. QED
      BY <2>1, <2>3, <2>4
  <1>3. SkipChild = [frames EXCEPT ![n] = f]
    BY DEF SkipChild
  <1> HIDE DEF f, n
  <1>4. /\ SkipChild \in Seq(FrameType) /\ DOMAIN SkipChild = DOMAIN frames
        /\ \A d \in DOMAIN frames : d # n => SkipChild[d] = frames[d]
        /\ SkipChild[n] = f
    BY <1>1, <1>2, <1>3
  <1>. QED
    BY <1>1, <1>2, <1>4 DEF n

\* The calls once the child that is visited is no longer pending.
LEMMA SkipPending ==
  ASSUME BaseInv, intact, TraceInv, NEW t \in Copies, NEW i \in DOMAIN PtrsIn(t),
         NEW e \in Edges, ChildIs(t, i, e)
  PROVE  /\ SkipChild \in Seq(FrameType)
         /\ \A d \in DOMAIN SkipChild : \E u \in Copies :
              SkipChild[d].obj = AddressOf(u) /\ SkipChild[d].ptrs = PtrsIn(u) /\ SkipChild[d].safe = TRUE
         /\ \A c, d \in DOMAIN SkipChild : SkipChild[c].obj = SkipChild[d].obj => c = d
         /\ \A u \in Copies : \A j \in DOMAIN PtrsIn(u) :
              PendingIn(SkipChild, u, j) <=> Pending(u, j) /\ ~(u = t /\ j = i)
         /\ Pending(t, i)
  <1> DEFINE n == Len(frames)
  <1>1. frames \in Seq(FrameType) /\ frames # <<>>
    BY DEF BaseInv, TypeInv, ChildIs
  <1>2. /\ n \in DOMAIN frames /\ frames[n] \in FrameType
        /\ SkipChild \in Seq(FrameType) /\ DOMAIN SkipChild = DOMAIN frames
        /\ \A d \in DOMAIN frames : d # n => SkipChild[d] = frames[d]
        /\ SkipChild[n].i = frames[n].i + 1
        /\ \A d \in DOMAIN frames : /\ SkipChild[d].obj = frames[d].obj
                                    /\ SkipChild[d].ptrs = frames[d].ptrs
                                    /\ SkipChild[d].safe = frames[d].safe
    BY <1>1, SkipFacts
  <1>3. frames[n].obj = AddressOf(t) /\ frames[n].i = i
    BY DEF ChildIs
  <1> HIDE DEF n
  <1>4. i \in Int
    <2>1. PtrsIn(t) \in Seq(Nat)
      BY ObjectFacts DEF Copies
    <2>. QED
      BY <2>1
  <1>5. \A d \in DOMAIN SkipChild : \E u \in Copies :
          SkipChild[d].obj = AddressOf(u) /\ SkipChild[d].ptrs = PtrsIn(u) /\ SkipChild[d].safe = TRUE
    BY <1>2 DEF TraceInv, FramesInv
  <1>6. \A c, d \in DOMAIN SkipChild : SkipChild[c].obj = SkipChild[d].obj => c = d
    BY <1>2 DEF TraceInv, FramesInv
  <1>7. ASSUME NEW u \in Copies, NEW j \in DOMAIN PtrsIn(u)
        PROVE  PendingIn(SkipChild, u, j) <=> Pending(u, j) /\ ~(u = t /\ j = i)
    <2>1. j \in Int
      <3>1. PtrsIn(u) \in Seq(Nat)
        BY ObjectFacts DEF Copies
      <3>. QED
        BY <3>1
    <2>2. CASE u = t
      <3>1. \A d \in DOMAIN frames : frames[d].obj = AddressOf(t) <=> d = n
        BY <1>2, <1>3 DEF TraceInv, FramesInv
      <3>2. Pending(u, j) <=> i <= j
        BY <1>2, <1>3, <2>2, <3>1 DEF Pending
      <3>3. PendingIn(SkipChild, u, j) <=> i + 1 <= j
        BY <1>2, <1>3, <2>2, <3>1 DEF PendingIn
      <3>. QED
        BY <1>4, <2>1, <2>2, <3>2, <3>3
    <2>3. CASE u # t
      <3>1. AddressOf(u) # AddressOf(t)
        BY <2>3, Apart DEF Copies
      <3>. QED
        BY <1>2, <1>3, <2>3, <3>1 DEF Pending, PendingIn
    <2>. QED
      BY <2>2, <2>3
  <1>8. Pending(t, i)
    BY <1>2, <1>3, <1>4 DEF Pending
  <1>. QED
    BY <1>2, <1>5, <1>6, <1>7, <1>8

\* A copy of a child.
LEMMA ChildLeads ==
  ASSUME BaseInv, intact, TraceInv, NEW t \in Copies, NEW i \in DOMAIN PtrsIn(t),
         NEW e \in Edges, ChildIs(t, i, e), NEW y \in Ids, NEW o \in Originals, ChildPoints(e, y, o)
  PROVE  Leads(o, FieldLoc(FieldAt(t, i)), SkipChild)
  <1>1. t \in objs /\ t \notin Originals /\ e[1] = Id(t) /\ e[2] = PtrsIn(t)[i]
        /\ e[3] = Object(Id(o)) /\ Id(o) \in Ids
    BY DEF Copies, Originals, ChildIs, ChildPoints
  <1>2. \A q \in objs : \A j \in DOMAIN PtrsIn(q) :
          IsField(FieldLoc(FieldAt(t, i)), FieldAt(q, j)) <=> q = t /\ j = i
    <2>1. \A x : IsField(FieldLoc(FieldAt(t, i)), x) <=> x = FieldAt(t, i)
      BY DEF IsField, FieldLoc
    <2>. QED
      BY <1>1, <2>1, Apart
  <1>3. \A f \in Edges : f[3] = Object(Id(o)) => f[1] = e[1] /\ f[2] = e[2]
    BY <1>1, WordFacts DEF TraceInv, GraphInv
  <1>4. \A f \in Edges : f[3] = Object(Id(o)) => \E u \in Copies : Id(u) = f[1]
    BY <1>1, <1>3
  <1>5. ASSUME NEW u \in Copies, NEW j \in DOMAIN PtrsIn(u)
        PROVE  /\ PendingIn(SkipChild, u, j) <=> Pending(u, j) /\ ~IsField(FieldLoc(FieldAt(t, i)), FieldAt(u, j))
               /\ \A f \in Edges : f[1] = Id(u) /\ f[2] = PtrsIn(u)[j] =>
                    /\ IsField(FieldLoc(FieldAt(t, i)), FieldAt(u, j)) => f[3] = Object(Id(o))
                    /\ f[3] = Object(Id(o)) => IsField(FieldLoc(FieldAt(t, i)), FieldAt(u, j))
    <2>1. u \in objs
      BY DEF Copies
    <2>2. PendingIn(SkipChild, u, j) <=> Pending(u, j) /\ ~IsField(FieldLoc(FieldAt(t, i)), FieldAt(u, j))
      <3>1. PendingIn(SkipChild, u, j) <=> Pending(u, j) /\ ~(u = t /\ j = i)
        BY SkipPending
      <3>2. IsField(FieldLoc(FieldAt(t, i)), FieldAt(u, j)) <=> u = t /\ j = i
        BY <1>2, <2>1
      <3>. QED
        BY <3>1, <3>2
    <2>3. ASSUME NEW f \in Edges, f[1] = Id(u) /\ f[2] = PtrsIn(u)[j],
                 IsField(FieldLoc(FieldAt(t, i)), FieldAt(u, j))
          PROVE  f[3] = Object(Id(o))
      <3>1. f[1] = e[1] /\ f[2] = e[2]
        BY <1>1, <1>2, <2>1, <2>3
      <3>. QED
        BY <1>1, <3>1 DEF TraceInv, GraphInv
    <2>4. ASSUME NEW f \in Edges, f[1] = Id(u) /\ f[2] = PtrsIn(u)[j], f[3] = Object(Id(o))
          PROVE  IsField(FieldLoc(FieldAt(t, i)), FieldAt(u, j))
      <3>1. Id(u) = Id(t) /\ PtrsIn(u)[j] = PtrsIn(t)[i]
        BY <1>1, <1>3, <2>4
      <3>2. u = t
        BY <1>1, <2>1, <3>1 DEF BaseInv, HeadersInv
      <3>3. PtrsIn(t) = Hd(t)[2].ptrs /\ Hd(t)[2] \in Kinds
        BY <1>1, ObjectFacts
      <3>4. j = i
        BY <3>1, <3>2, <3>3, KindFacts
      <3>. QED
        BY <1>2, <2>1, <3>2, <3>4
    <2>. QED
      BY <2>2, <2>3, <2>4
  <1>6. \A q \in Originals : \A j \in DOMAIN PtrsIn(q) : ~IsField(FieldLoc(FieldAt(t, i)), FieldAt(q, j))
    BY <1>1, <1>2 DEF Originals
  <1>7. /\ SkipChild \in Seq(FrameType)
        /\ \A d \in DOMAIN SkipChild : \E u \in Copies :
             SkipChild[d].obj = AddressOf(u) /\ SkipChild[d].ptrs = PtrsIn(u) /\ SkipChild[d].safe = TRUE
        /\ \A c, d \in DOMAIN SkipChild : SkipChild[c].obj = SkipChild[d].obj => c = d
    BY SkipPending
  <1>. QED
    BY <1>1, <1>4, <1>5, <1>6, <1>7 DEF Leads

\* A visit of a child keeps the invariant of the trace.
LEMMA ChildCopied ==
  ASSUME BaseInv, intact, intact', TraceInv, NEW t \in Copies, NEW i \in DOMAIN PtrsIn(t),
         NEW e \in Edges, ChildIs(t, i, e), NEW y \in Ids, NEW o \in Originals, ChildPoints(e, y, o),
         NEW new, CopyStep(o, new, FieldLoc(FieldAt(t, i)), SkipChild),
         UNCHANGED <<unsafeStack, next, origin, fresh, saved, made>>
  PROVE  TraceInv'
  <1> DEFINE loc == FieldLoc(FieldAt(t, i))
  <1>1. Leads(o, loc, SkipChild)
    BY ChildLeads
  <1>2. GraphInv' /\ EdgesInv' /\ ParentsInv'
    BY <1>1, CopyKeepsGraph
  <1>3. TracedInv'
    BY <1>1, CopyKeepsTraced
  <1>4. FramesInv'
    BY <1>1, CopyFrames
  <1>5. stack' = stack
    BY DEF CopyStep, FieldLoc
  <1>6. (\A s : Root(s)' = Root(s)) /\ Ids' = Ids
    BY DEF Root, Ids
  <1>7. ASSUME NEW s \in Slots
        PROVE  /\ Root(s) \in {Nil, Data} => stack[s] = Root(s)
               /\ \A z \in Ids : Root(s) = Object(z) =>
                    IF s < next THEN ToCopy(stack[s], z)' ELSE ToOld(stack[s], z)'
    <2>1. PICK w : w = stack[s]
      OBVIOUS
    <2>2. ASSUME NEW z \in Ids, Root(s) = Object(z)
          PROVE  IF s < next THEN ToCopy(w, z)' ELSE ToOld(w, z)'
      BY <2>1, <2>2, CopyKeepsWords DEF TraceInv, RootsInv
    <2>3. Root(s) \in {Nil, Data} => stack[s] = Root(s)
      BY DEF TraceInv, RootsInv
    <2>. QED
      BY <1>5, <2>1, <2>2, <2>3 DEF ToCopy, ToOld, ToOriginal, ToForward
  <1>8. RootsInv'
    BY <1>5, <1>6, <1>7 DEF RootsInv
  <1>9. OriginInv'
    <2>1. PICK a \in Headed, b \in Addrs : origin = Ptr(a) /\ HeaderOf(a) = Forward(b)
      BY DEF TraceInv, OriginInv, ChildIs
    <2>2. a # AddressOf(o)
      BY <2>1, ForwardNoObject DEF Originals
    <2>3. HeaderOf(a)' = HeaderOf(a)
      BY <2>2 DEF CopyStep
    <2>4. Headed' = Headed
      BY CopyObjects
    <2>. QED
      BY <2>1, <2>3, <2>4 DEF OriginInv
  <1>. QED
    BY <1>2, <1>3, <1>4, <1>8, <1>9 DEF TraceInv

\* A copy keeps the words what they can be.
LEMMA CopyWordsType ==
  ASSUME BaseInv, intact, intact', NEW o \in Originals, NEW loc, VisitLoc(loc), NEW calls,
         VisitCopies(loc, AddressOf(o), calls)
  PROVE  mem' \in [Addrs -> Words]
  <1>1. o \in objs
    BY DEF Originals
  <1>2. PICK p \in Q!PageIds \ active :
          /\ bump[p] \in Nat /\ bump[p] + o.words < PageWords
          /\ SetLoc(loc, Ptr(<<p, bump[p] + 1>>),
               [x \in Addrs |->
                  IF x = <<o.page, o.at - 1>> THEN Forward(<<p, bump[p] + 1>>)
                  ELSE IF Page(x) = p /\ x[2] \in bump[p] .. (bump[p] + o.words)
                       THEN mem[<<o.page, o.at + (x[2] - (bump[p] + 1))>>]
                  ELSE mem[x]])
    BY CopyTarget
  <1> DEFINE m == [x \in Addrs |->
                     IF x = <<o.page, o.at - 1>> THEN Forward(<<p, bump[p] + 1>>)
                     ELSE IF Page(x) = p /\ x[2] \in bump[p] .. (bump[p] + o.words)
                          THEN mem[<<o.page, o.at + (x[2] - (bump[p] + 1))>>]
                     ELSE mem[x]]
             to == <<p, bump[p] + 1>>
  <1>3. PageWords \in Nat \ {0} /\ mem \in [Addrs -> Words]
    BY PagesAssumption DEF BaseInv, TypeInv, TypeOK
  <1>4. /\ o.page \in P!PageIds /\ o.at \in Nat \ {0} /\ o.words \in Nat \ {0}
        /\ o.at + o.words <= bump[o.page] /\ bump[o.page] <= PageWords /\ bump[o.page] \in Nat
    BY <1>1, ObjectFacts, SamePages
  <1>5. to \in Addrs
    <2>1. bump[p] + 1 \in 0 .. (PageWords - 1)
      BY <1>2, <1>3, <1>4
    <2>. QED
      BY <1>2, <2>1, SamePages DEF Addrs
  <1>6. Ptr(to) \in Words /\ Forward(to) \in Words
    BY <1>5 DEF Words
  <1>7. ASSUME NEW x \in Addrs, x[2] \in bump[p] .. (bump[p] + o.words)
        PROVE  <<o.page, o.at + (x[2] - (bump[p] + 1))>> \in Addrs
    <2>1. o.at + (x[2] - (bump[p] + 1)) \in 0 .. (PageWords - 1)
      BY <1>2, <1>3, <1>4, <1>7
    <2>. QED
      BY <1>4, <2>1 DEF Addrs
  <1>8. m \in [Addrs -> Words]
    BY <1>3, <1>6, <1>7
  <1>9. SetLoc(loc, Ptr(to), m)
    BY <1>2
  <1> HIDE DEF m, to
  <1>10. mem' = m \/ mem' = [m EXCEPT ![loc.field] = Ptr(to)]
    BY <1>9 DEF SetLoc
  <1>. QED
    BY <1>6, <1>8, <1>10

\* The headers and the types after a copy.
LEMMA CopyKeepsBase ==
  ASSUME BaseInv, intact, intact', TraceInv, Q!IInv', Q!MarksInv',
         NEW o \in Originals, NEW loc, VisitLoc(loc), NEW calls,
         VisitCopies(loc, AddressOf(o), calls), NEW new, CopyStep(o, new, loc, calls),
         Leads(o, loc, calls),
         \A d \in DOMAIN calls : calls[d].i \in 1 .. (Len(calls[d].ptrs) + 1),
         next' \in 1 .. (NumSlots + 1),
         UNCHANGED <<unsafeStack, want, fresh, made, gcs>>
  PROVE  BaseInv'
  <1>1. mem' \in [Addrs -> Words]
    BY CopyWordsType
  <1>2. stack' \in [Slots -> StackWords]
    <2>1. stack \in [Slots -> StackWords]
      BY DEF BaseInv, TypeInv
    <2>2. Ptr(AddressOf(new)) \in StackWords
      BY DEF CopyStep, StackWords
    <2>3. stack' = stack \/ stack' = [stack EXCEPT ![loc.slot] = Ptr(AddressOf(new))]
      BY DEF CopyStep
    <2>. QED
      BY <2>1, <2>2, <2>3
  <1>3. StackWords \subseteq Words
    BY DEF StackWords, Words
  <1>4. frames' \in Seq(FrameType)
    BY CopyFrames
  <1>5. ASSUME NEW f \in {frames'[d] : d \in DOMAIN frames'}
        PROVE  f.obj \in Addrs /\ f.safe \in BOOLEAN /\ f.i \in 1 .. (Len(f.ptrs) + 1)
    <2>1. f \in FrameType
      BY <1>4
    <2>2. f.i \in 1 .. (Len(f.ptrs) + 1)
      <3>1. CASE f \in {calls[d] : d \in DOMAIN calls}
        BY <3>1
      <3>2. CASE f \notin {calls[d] : d \in DOMAIN calls}
        <4>1. f.i = 1
          BY <1>5, <3>2, CopyFrames
        <4>2. Len(f.ptrs) \in Nat
          BY <2>1 DEF FrameType
        <4>. QED
          BY <4>1, <4>2
      <3>. QED
        BY <3>1, <3>2
    <2>. QED
      BY <2>1, <2>2 DEF FrameType
  <1>6. stack' \in [Slots -> Words]
    BY <1>2, <1>3
  <1>7. TypeInv'
    <2>1. /\ unsafeStack \in BOOLEAN /\ fresh \in Slots \cup {0}
          /\ made \in 0 .. MaxMade /\ gcs \in 0 .. MaxGcs
      BY DEF BaseInv, TypeInv, TypeOK
    <2>. QED
      BY <1>1, <1>2, <1>4, <1>5, <1>6, <2>1 DEF TypeInv, TypeOK
  <1>8. HeadersInv'
    <2>1. /\ o \in objs /\ objs' = (objs \ {o}) \cup {new}
          /\ \A q \in objs \ {o} : Id(q)' = Id(q)
          /\ Id(new)' = Id(o)
          /\ \A q, r \in objs : Id(q) = Id(r) => q = r
      BY CopyObjects
    <2>2. \A q, r \in objs' : Id(q)' = Id(r)' => q = r
      BY <2>1
    <2>3. ASSUME NEW q \in objs'
          PROVE  \E k \in Kinds, id \in 1 .. made : Hd(q)' = Header(k, id) /\ q.words = k.size
      <3>1. CASE q = new
        <4>1. Hd(new)' = Hd(o) /\ new.words = o.words
          BY DEF CopyStep
        <4>2. PICK k \in Kinds, id \in 1 .. made : Hd(o) = Header(k, id) /\ o.words = k.size
          BY <2>1 DEF BaseInv, HeadersInv
        <4>. QED
          BY <3>1, <4>1, <4>2
      <3>2. CASE q # new
        <4>1. q \in objs \ {o}
          BY <2>1, <3>2
        <4>2. PICK k \in Kinds, id \in 1 .. made : Hd(q) = Header(k, id) /\ q.words = k.size
          BY <4>1 DEF BaseInv, HeadersInv
        <4>. QED
          BY <4>1, <4>2 DEF CopyStep
      <3>. QED
        BY <3>1, <3>2
    <2>. QED
      BY <2>2, <2>3 DEF HeadersInv
  <1>9. WantInv'
    BY DEF WantInv, BaseInv, CopyStep
  <1>10. \A p \in Q!PageIds : ~unsafe'[p]
    BY DEF BaseInv, CopyStep
  <1>. QED
    BY <1>7, <1>8, <1>9, <1>10 DEF BaseInv

\* Steps that leave the pages and the words alone.
LEMMA SamePagesBase ==
  ASSUME BaseInv, Q!IInv', Q!MarksInv', UNCHANGED <<pageVars, mem, made, want>>, TypeInv'
  PROVE  BaseInv'
  <1>1. /\ objs' = objs /\ unsafe' = unsafe /\ pc' = pc /\ req' = req /\ mem' = mem
        /\ made' = made /\ want' = want
    BY DEF pageVars
  <1>2. \A q : Hd(q)' = Hd(q) /\ Id(q)' = Id(q)
    BY <1>1 DEF Hd, Id, HeaderOf
  <1>3. HeadersInv'
    BY <1>1, <1>2 DEF HeadersInv, BaseInv
  <1>4. WantInv'
    BY <1>1 DEF WantInv, BaseInv
  <1>. QED
    BY <1>1, <1>3, <1>4 DEF BaseInv

-----------------------------------------------------------------------------
(* The steps of the trace.                                                 *)

\* Steps of the trace that change no word and no page.
LEMMA SameWords ==
  ASSUME UNCHANGED <<pageVars, mem>>
  PROVE  /\ objs' = objs /\ active' = active /\ pc' = pc /\ intact' = intact
         /\ Copies' = Copies /\ Originals' = Originals /\ Headed' = Headed
         /\ \A a : HeaderOf(a)' = HeaderOf(a)
         /\ \A q : Hd(q)' = Hd(q) /\ Id(q)' = Id(q) /\ PtrsIn(q)' = PtrsIn(q)
         /\ \A q, i : Word(q, i)' = Word(q, i)
         /\ \A w, y : /\ ToCopy(w, y)' <=> ToCopy(w, y)
                      /\ ToOriginal(w, y)' <=> ToOriginal(w, y)
                      /\ ToOld(w, y)' <=> ToOld(w, y)
  <1>1. objs' = objs /\ active' = active /\ pc' = pc /\ intact' = intact /\ mem' = mem
    BY DEF pageVars
  <1>2. Copies' = Copies /\ Originals' = Originals /\ Headed' = Headed
    BY <1>1 DEF Copies, Originals, Headed
  <1>3. \A a : HeaderOf(a)' = HeaderOf(a)
    BY <1>1 DEF HeaderOf
  <1>4. \A q : Hd(q)' = Hd(q) /\ Id(q)' = Id(q) /\ PtrsIn(q)' = PtrsIn(q)
    BY <1>3 DEF Hd, Id, PtrsIn
  <1>5. \A q, i : Word(q, i)' = Word(q, i)
    BY <1>1, <1>4 DEF Word, FieldAt
  <1>6. \A w, y : ToCopy(w, y)' <=> ToCopy(w, y)
    BY <1>2, <1>4 DEF ToCopy
  <1>7. \A w, y : ToOriginal(w, y)' <=> ToOriginal(w, y)
    BY <1>2, <1>4 DEF ToOriginal
  <1>8. \A w, y : ToForward(w, y)' <=> ToForward(w, y)
    BY <1>2, <1>3, <1>4 DEF ToForward
  <1>9. \A w, y : ToOld(w, y)' <=> ToOld(w, y)
    BY <1>7, <1>8 DEF ToOld
  <1>. QED
    BY <1>1, <1>2, <1>3, <1>4, <1>5, <1>6, <1>7, <1>9

\* Such a step keeps the invariant of the trace, if it keeps to the order of
\* the roots and skips a child only where nothing is.
LEMMA QuietStep ==
  ASSUME BaseInv, intact, TraceInv, UNCHANGED <<pageVars, mem, unsafeStack, fresh, saved, made>>,
         \A o \in objs : \A i : Id(o) \in Ids /\ i \in DOMAIN PtrsIn(o) /\ o \in Copies =>
           \/ Pending(o, i)' <=> Pending(o, i)
           \/ \E e \in Edges : e[1] = Id(o) /\ e[2] = PtrsIn(o)[i] /\ e[3] = Nil,
         RootsInv', FramesInv', OriginInv'
  PROVE  TraceInv'
  <1>1. /\ objs' = objs /\ Copies' = Copies /\ Originals' = Originals
        /\ \A q : Id(q)' = Id(q) /\ PtrsIn(q)' = PtrsIn(q)
        /\ \A q, i : Word(q, i)' = Word(q, i)
    BY SameWords
  <1>2. Ids' = Ids /\ Edges' = Edges /\ \A s : Root(s)' = Root(s)
    BY DEF Ids, Edges, Root
  <1>3. GraphInv'
    BY <1>2 DEF TraceInv, GraphInv, HasRoots, Closed
  <1>4. EdgesInv' /\ ParentsInv'
    BY <1>1, <1>2 DEF TraceInv, EdgesInv, ParentsInv
  <1>5. ASSUME NEW o \in objs, Id(o) \in Ids, NEW i \in DOMAIN PtrsIn(o)
        PROVE  \E e \in Edges :
                 /\ e[1] = Id(o) /\ e[2] = PtrsIn(o)[i]
                 /\ e[3] = Nil => Word(o, i) = Nil
                 /\ \A y \in Ids : e[3] = Object(y) => FieldTraced(o, i, y)'
    <2>1. PICK e \in Edges :
            /\ e[1] = Id(o) /\ e[2] = PtrsIn(o)[i]
            /\ e[3] = Nil => Word(o, i) = Nil
            /\ \A y \in Ids : e[3] = Object(y) => FieldTraced(o, i, y)
      BY <1>5 DEF TraceInv, TracedInv
    <2>2. ASSUME NEW y \in Ids, e[3] = Object(y)
          PROVE  FieldTraced(o, i, y)'
      <3>1. ~\E f \in Edges : f[1] = Id(o) /\ f[2] = PtrsIn(o)[i] /\ f[3] = Nil
        BY <2>1, <2>2, WordFacts DEF TraceInv, GraphInv
      <3>2. PICK w : w = Word(o, i)
        OBVIOUS
      <3>3. o \in Originals \/ (Pending(o, i)' <=> Pending(o, i))
        BY <1>5, <3>1 DEF Copies, Originals
      <3>4. FieldTraced(o, i, y)
        BY <2>1, <2>2
      <3>5. CASE o \in Originals
        <4>1. ToOld(w, y) /\ ToOld(w, y)'
          BY <3>2, <3>4, <3>5, SameWords DEF FieldTraced
        <4>. QED
          BY <1>1, <3>2, <3>5, <4>1 DEF FieldTraced, ToOld, ToOriginal, ToForward
      <3>6. CASE o \notin Originals /\ Pending(o, i)
        <4>1. ToOriginal(w, y) /\ ToOriginal(w, y)'
          BY <3>2, <3>4, <3>6, SameWords DEF FieldTraced
        <4>. QED
          BY <1>1, <3>2, <3>3, <3>6, <4>1 DEF FieldTraced, ToOriginal
      <3>7. CASE o \notin Originals /\ ~Pending(o, i)
        <4>1. ToCopy(w, y) /\ ToCopy(w, y)'
          BY <3>2, <3>4, <3>7, SameWords DEF FieldTraced
        <4>. QED
          BY <1>1, <3>2, <3>3, <3>7, <4>1 DEF FieldTraced, ToCopy
      <3>. QED
        BY <3>5, <3>6, <3>7
    <2>. QED
      BY <2>1, <2>2
  <1>6. TracedInv'
    BY <1>1, <1>2, <1>5 DEF TracedInv
  <1>. QED
    BY <1>3, <1>4, <1>6 DEF TraceInv

\* The roots once the word at next stands for the copy of its object.
LEMMA RootsAdvance ==
  ASSUME TraceInv, next \in Slots, next' = next + 1, UNCHANGED <<pageVars, mem, saved>>,
         stack \in [Slots -> StackWords],
         \A s \in Slots : s # next => stack'[s] = stack[s],
         Root(next) \in {Nil, Data} => stack'[next] = stack[next],
         \A y \in Ids : Root(next) = Object(y) => ToCopy(stack'[next], y)
  PROVE  RootsInv'
  <1>1. Ids' = Ids /\ \A s : Root(s)' = Root(s)
    BY DEF Ids, Root
  <1>2. ASSUME NEW s \in Slots
        PROVE  /\ Root(s) \in {Nil, Data} => stack'[s] = Root(s)
               /\ \A y \in Ids : Root(s) = Object(y) =>
                    IF s < next' THEN ToCopy(stack[s], y)' ELSE ToOld(stack[s], y)'
    <2>0. s \in Int /\ next \in Int
      BY DEF Slots
    <2>1. PICK w : w = stack'[s]
      OBVIOUS
    <2>2. CASE s = next
      <3>1. ASSUME NEW y \in Ids, Root(s) = Object(y)
            PROVE  ToCopy(w, y)'
        BY <2>1, <2>2, <3>1, SameWords
      <3>. QED
        BY <2>0, <2>1, <2>2, <3>1 DEF TraceInv, RootsInv, ToCopy
    <2>3. CASE s # next
      <3>1. ASSUME NEW y \in Ids, Root(s) = Object(y)
            PROVE  IF s < next THEN ToCopy(w, y)' ELSE ToOld(w, y)'
        BY <2>1, <2>3, <3>1, SameWords DEF TraceInv, RootsInv
      <3>2. s < next' <=> s < next
        BY <2>0, <2>3
      <3>. QED
        BY <2>1, <2>3, <3>1, <3>2 DEF TraceInv, RootsInv, ToCopy, ToOld, ToOriginal, ToForward
    <2>. QED
      BY <2>2, <2>3
  <1>. QED
    BY <1>1, <1>2 DEF RootsInv

\* What stands for an object is a root for scan_stack.
LEMMA PointerIsRoot ==
  ASSUME BaseInv, intact, NEW w, NEW y, ToOld(w, y)
  PROVE  IsPtr(w) /\ IsRoot(w)
  <1>1. CASE ToOriginal(w, y)
    <2>1. PICK o \in Originals : w = Ptr(AddressOf(o))
      BY <1>1 DEF ToOriginal
    <2>. QED
      BY <2>1, MarkedFacts, WordFacts DEF IsRoot, Originals
  <1>2. CASE ToForward(w, y)
    <2>1. PICK a, b : w = Ptr(a) /\ HeaderOf(a) = Forward(b)
      BY <1>2 DEF ToForward
    <2>. QED
      BY <2>1, ForwardFacts, WordFacts DEF IsRoot
  <1>. QED
    BY <1>1, <1>2 DEF ToOld

LEMMA ScanSkipsKeeps ==
  ASSUME BaseInv, intact, TraceInv, Q!IInv', Q!MarksInv', ScanSkips
  PROVE  BaseInv' /\ TraceInv'
  <1>1. /\ next \in Slots /\ frames = <<>> /\ ~IsRoot(stack[next]) /\ next' = next + 1
        /\ UNCHANGED <<pageVars, mem, stack, unsafeStack, want, frames, origin, fresh, made, gcs, saved>>
    BY DEF ScanSkips
  <1>2. next' \in 1 .. (NumSlots + 1)
    BY <1>1, ClientAssumption DEF Slots
  <1>3. TypeInv'
    BY <1>1, <1>2 DEF BaseInv, TypeInv, TypeOK
  <1>4. BaseInv'
    BY <1>1, <1>3, SamePagesBase
  <1>5. ASSUME NEW y \in Ids, Root(next) = Object(y)
        PROVE  FALSE
    <2>1. next \in Int
      BY <1>1 DEF Slots
    <2>2. ToOld(stack[next], y)
      BY <1>1, <1>5, <2>1 DEF TraceInv, RootsInv
    <2>. QED
      BY <1>1, <2>2, PointerIsRoot
  <1>6. RootsInv'
    <2>1. stack \in [Slots -> StackWords]
      BY DEF BaseInv, TypeInv
    <2>. QED
      BY <1>1, <1>5, <2>1, RootsAdvance
  <1>7. \A o, i : Pending(o, i)' <=> Pending(o, i)
    BY <1>1 DEF Pending
  <1>8. FramesInv' /\ OriginInv'
    BY <1>1 DEF FramesInv, OriginInv
  <1>. QED
    BY <1>1, <1>4, <1>6, <1>7, <1>8, QuietStep

LEMMA RootForwarded ==
  ASSUME BaseInv, intact, TraceInv, Q!IInv', Q!MarksInv',
         next \in Slots, frames = <<>>, next' = next + 1,
         UNCHANGED <<unsafeStack, want, fresh, made, gcs, saved>>,
         NEW y \in Ids, Root(next) = Object(y), NEW a \in Headed, NEW t \in Copies,
         HeaderOf(a) = Forward(AddressOf(t)), Id(t) = y,
         VisitForwarded(SlotLoc(next), a, <<>>)
  PROVE  BaseInv' /\ TraceInv'
  <1>1. /\ stack' = [stack EXCEPT ![next] = Ptr(AddressOf(t))] /\ frames' = frames
        /\ UNCHANGED <<pageVars, mem>>
    BY WordFacts DEF VisitForwarded, SetLoc, SlotLoc, StackWith
  <1>2. next' \in 1 .. (NumSlots + 1)
    BY ClientAssumption DEF Slots
  <1>3. stack \in [Slots -> StackWords] /\ AddressOf(t) \in Addrs
    BY ObjectFacts DEF BaseInv, TypeInv, Copies
  <1>4. stack' \in [Slots -> StackWords] /\ stack' \in [Slots -> Words]
    <2>1. Ptr(AddressOf(t)) \in StackWords /\ StackWords \subseteq Words
      BY <1>3 DEF StackWords, Words
    <2>. QED
      BY <1>1, <1>3, <2>1
  <1>5. TypeInv'
    BY <1>1, <1>2, <1>4 DEF BaseInv, TypeInv, TypeOK
  <1>6. BaseInv'
    BY <1>1, <1>5, SamePagesBase
  <1>7. RootsInv'
    <2>1. stack'[next] = Ptr(AddressOf(t)) /\ \A s \in Slots : s # next => stack'[s] = stack[s]
      BY <1>1, <1>3
    <2>2. ~(Root(next) \in {Nil, Data})
      BY WordFacts
    <2>3. \A z \in Ids : Root(next) = Object(z) => ToCopy(stack'[next], z)
      BY <2>1, WordFacts DEF ToCopy
    <2>. QED
      BY <1>1, <1>3, <2>1, <2>2, <2>3, RootsAdvance
  <1>8. \A o, i : Pending(o, i)' <=> Pending(o, i)
    BY <1>1 DEF Pending
  <1>9. FramesInv' /\ OriginInv'
    BY <1>1 DEF FramesInv, OriginInv
  <1>. QED
    BY <1>1, <1>6, <1>7, <1>8, <1>9, QuietStep

LEMMA ScanVisitsKeeps ==
  ASSUME BaseInv, intact, intact', TraceInv, Q!IInv', Q!MarksInv', ScanVisits
  PROVE  BaseInv' /\ TraceInv' /\ pc' = pc
  <1>1. /\ next \in Slots /\ frames = <<>> /\ next' = next + 1 /\ origin' = stack[next]
        /\ UNCHANGED <<unsafeStack, want, fresh, made, gcs, disturbed, saved>>
    BY RootVisit
  <1>2. PICK y \in Ids :
          /\ Root(next) = Object(y)
          /\ \/ \E a \in Headed, t \in Copies :
                  /\ stack[next] = Ptr(a) /\ HeaderOf(a) = Forward(AddressOf(t)) /\ Id(t) = y
                  /\ VisitForwarded(SlotLoc(next), a, <<>>)
             \/ \E o \in Originals :
                  /\ stack[next] = Ptr(AddressOf(o)) /\ Id(o) = y
                  /\ VisitCopies(SlotLoc(next), AddressOf(o), <<>>)
    BY RootVisit
  <1>3. ASSUME NEW a \in Headed, NEW t \in Copies,
               HeaderOf(a) = Forward(AddressOf(t)), Id(t) = y,
               VisitForwarded(SlotLoc(next), a, <<>>)
        PROVE  BaseInv' /\ TraceInv' /\ pc' = pc
    <2>1. pc' = pc
      BY <1>3 DEF VisitForwarded, pageVars
    <2>. QED
      BY <1>1, <1>2, <1>3, <2>1, RootForwarded
  <1>4. ASSUME NEW o \in Originals, stack[next] = Ptr(AddressOf(o)), Id(o) = y,
               VisitCopies(SlotLoc(next), AddressOf(o), <<>>)
        PROVE  BaseInv' /\ TraceInv' /\ pc' = pc
    <2>1. VisitLoc(SlotLoc(next))
      BY <1>1 DEF VisitLoc
    <2>2. PICK new : CopyStep(o, new, SlotLoc(next), <<>>)
      BY <1>4, <2>1, CopyEffect
    <2>3. TraceInv'
      BY <1>1, <1>2, <1>4, <2>2, RootCopied
    <2>4. Leads(o, SlotLoc(next), <<>>)
      BY <1>1, <1>2, <1>4, RootLeads
    <2>5. next' \in 1 .. (NumSlots + 1)
      BY <1>1, ClientAssumption DEF Slots
    <2>6. BaseInv'
      <3>1. \A d \in DOMAIN <<>> : <<>>[d].i \in 1 .. (Len(<<>>[d].ptrs) + 1)
        OBVIOUS
      <3>. QED
        BY <1>1, <1>4, <2>1, <2>2, <2>4, <2>5, <3>1, CopyKeepsBase
    <2>7. pc' = pc
      BY <2>2 DEF CopyStep
    <2>. QED
      BY <2>3, <2>6, <2>7
  <1>. QED
    BY <1>2, <1>3, <1>4

\* The calls keep to the number of children.
LEMMA SkipTypes ==
  ASSUME BaseInv, intact, NEW t \in Copies, NEW i \in DOMAIN PtrsIn(t),
         NEW e \in Edges, ChildIs(t, i, e)
  PROVE  \A d \in DOMAIN SkipChild : SkipChild[d].i \in 1 .. (Len(SkipChild[d].ptrs) + 1)
  <1> DEFINE n == Len(frames)
  <1>1. frames \in Seq(FrameType) /\ frames # <<>>
    BY DEF BaseInv, TypeInv, ChildIs
  <1>2. /\ n \in DOMAIN frames /\ DOMAIN SkipChild = DOMAIN frames
        /\ \A d \in DOMAIN frames : d # n => SkipChild[d] = frames[d]
        /\ SkipChild[n].i = frames[n].i + 1
        /\ SkipChild[n].ptrs = frames[n].ptrs
    BY <1>1, SkipFacts
  <1>3. frames[n].ptrs = PtrsIn(t) /\ frames[n].i = i
    BY DEF ChildIs
  <1>4. i + 1 \in 1 .. (Len(PtrsIn(t)) + 1)
    <2>1. PtrsIn(t) \in Seq(Nat)
      BY ObjectFacts DEF Copies
    <2>. QED
      BY <2>1
  <1> HIDE DEF n
  <1>5. \A d \in DOMAIN frames : frames[d].i \in 1 .. (Len(frames[d].ptrs) + 1)
    BY DEF BaseInv, TypeInv, TypeOK
  <1>. QED
    BY <1>2, <1>3, <1>4, <1>5

LEMMA ChildVisitedKeeps ==
  ASSUME BaseInv, intact, intact', TraceInv, Q!IInv', Q!MarksInv', ChildVisited
  PROVE  BaseInv' /\ TraceInv' /\ pc' = pc
  <1>1. UNCHANGED <<unsafeStack, want, next, origin, fresh, made, gcs, disturbed, saved>>
    BY ChildVisit
  <1>2. PICK t \in Copies : \E i \in DOMAIN PtrsIn(t), e \in Edges, y \in Ids, o \in Originals :
          /\ ChildIs(t, i, e) /\ ChildPoints(e, y, o)
          /\ VisitCopies(FieldLoc(FieldAt(t, i)), AddressOf(o), SkipChild)
    BY ChildVisit
  <1>3. PICK i \in DOMAIN PtrsIn(t), e \in Edges, y \in Ids, o \in Originals :
          /\ ChildIs(t, i, e) /\ ChildPoints(e, y, o)
          /\ VisitCopies(FieldLoc(FieldAt(t, i)), AddressOf(o), SkipChild)
    BY <1>2
  <1> DEFINE loc == FieldLoc(FieldAt(t, i))
  <1>4. VisitLoc(loc)
    BY DEF VisitLoc
  <1>5. PICK new : CopyStep(o, new, loc, SkipChild)
    BY <1>3, <1>4, CopyEffect
  <1>6. TraceInv'
    BY <1>1, <1>3, <1>5, ChildCopied
  <1>7. Leads(o, loc, SkipChild)
    BY <1>3, ChildLeads
  <1>8. next' \in 1 .. (NumSlots + 1)
    BY <1>1 DEF BaseInv, TypeInv, TypeOK
  <1>9. \A d \in DOMAIN SkipChild : SkipChild[d].i \in 1 .. (Len(SkipChild[d].ptrs) + 1)
    BY <1>3, SkipTypes
  <1>10. BaseInv'
    BY <1>1, <1>3, <1>4, <1>5, <1>7, <1>8, <1>9, CopyKeepsBase
  <1>11. pc' = pc
    BY <1>5 DEF CopyStep
  <1>. QED
    BY <1>6, <1>10, <1>11

\* Roots that are not touched stand for what they stood for.
LEMMA RootsStay ==
  ASSUME TraceInv, UNCHANGED <<pageVars, mem, stack, next, saved>>
  PROVE  RootsInv'
  <1>1. Ids' = Ids /\ \A s : Root(s)' = Root(s)
    BY DEF Ids, Root
  <1>2. ASSUME NEW s \in Slots
        PROVE  /\ Root(s) \in {Nil, Data} => stack[s] = Root(s)
               /\ \A y \in Ids : Root(s) = Object(y) =>
                    IF s < next THEN ToCopy(stack[s], y)' ELSE ToOld(stack[s], y)'
    <2>1. PICK w : w = stack[s]
      OBVIOUS
    <2>2. ASSUME NEW y \in Ids, Root(s) = Object(y)
          PROVE  IF s < next THEN ToCopy(w, y)' ELSE ToOld(w, y)'
      BY <2>1, <2>2, SameWords DEF TraceInv, RootsInv
    <2>. QED
      BY <2>1, <2>2 DEF TraceInv, RootsInv, ToCopy, ToOld, ToOriginal, ToForward
  <1>. QED
    BY <1>1, <1>2 DEF RootsInv

\* Only a field that points nowhere is skipped.
LEMMA ChildSkippedKeeps ==
  ASSUME BaseInv, intact, TraceInv, Q!IInv', Q!MarksInv', ChildSkipped
  PROVE  BaseInv' /\ TraceInv'
  <1>1. /\ InChildren /\ frames' = SkipChild /\ (~Looked \/ Invalid)
        /\ UNCHANGED <<pageVars, mem, stack, unsafeStack, want, next, origin, fresh, made, gcs, saved>>
    BY DEF ChildSkipped
  <1>2. PICK t \in Copies : \E i \in DOMAIN PtrsIn(t), e \in Edges :
          /\ ChildIs(t, i, e)
          /\ \/ e[3] = Nil /\ Child = Nil /\ ~Looked
             \/ \E y \in Ids, o \in Originals : ChildPoints(e, y, o)
    BY <1>1, ChildSeen
  <1>3. PICK i \in DOMAIN PtrsIn(t), e \in Edges : ChildIs(t, i, e) /\ e[3] = Nil
    BY <1>1, <1>2 DEF ChildPoints
  <1>4. /\ SkipChild \in Seq(FrameType)
        /\ \A d \in DOMAIN SkipChild : \E u \in Copies :
             SkipChild[d].obj = AddressOf(u) /\ SkipChild[d].ptrs = PtrsIn(u) /\ SkipChild[d].safe = TRUE
        /\ \A c, d \in DOMAIN SkipChild : SkipChild[c].obj = SkipChild[d].obj => c = d
        /\ \A u \in Copies : \A j \in DOMAIN PtrsIn(u) :
             PendingIn(SkipChild, u, j) <=> Pending(u, j) /\ ~(u = t /\ j = i)
    BY <1>3, SkipPending
  <1>5. \A d \in DOMAIN SkipChild : SkipChild[d].i \in 1 .. (Len(SkipChild[d].ptrs) + 1)
    BY <1>3, SkipTypes
  <1>6. TypeInv'
    <2>1. ASSUME NEW f \in {SkipChild[d] : d \in DOMAIN SkipChild}
          PROVE  f.obj \in Addrs /\ f.safe \in BOOLEAN /\ f.i \in 1 .. (Len(f.ptrs) + 1)
      <3>1. f \in FrameType
        BY <1>4
      <3>. QED
        BY <1>5, <3>1 DEF FrameType
    <2>. QED
      BY <1>1, <1>4, <2>1 DEF BaseInv, TypeInv, TypeOK
  <1>7. BaseInv'
    BY <1>1, <1>6, SamePagesBase
  <1>8. ASSUME NEW o \in Copies, NEW j \in DOMAIN PtrsIn(o)
        PROVE  \/ Pending(o, j)' <=> Pending(o, j)
               \/ \E f \in Edges : f[1] = Id(o) /\ f[2] = PtrsIn(o)[j] /\ f[3] = Nil
    <2>1. Pending(o, j)' <=> Pending(o, j) /\ ~(o = t /\ j = i)
      BY <1>1, <1>4 DEF Pending, PendingIn
    <2>2. e[1] = Id(t) /\ e[2] = PtrsIn(t)[i]
      BY <1>3 DEF ChildIs
    <2>. QED
      BY <1>3, <2>1, <2>2
  <1>9. RootsInv'
    BY <1>1, RootsStay
  <1>10. FramesInv'
    <2>1. Copies' = Copies /\ \A q : PtrsIn(q)' = PtrsIn(q)
      BY <1>1, SameWords
    <2>. QED
      BY <1>1, <1>4, <2>1 DEF FramesInv
  <1>11. OriginInv'
    <2>1. Headed' = Headed /\ \A a : HeaderOf(a)' = HeaderOf(a)
      BY <1>1, SameWords
    <2>. QED
      BY <1>1, <2>1 DEF TraceInv, OriginInv, InChildren
  <1>. QED
    BY <1>1, <1>7, <1>8, <1>9, <1>10, <1>11, QuietStep

\* A call returns when no field of its object is pending.
LEMMA ChildrenDoneKeeps ==
  ASSUME BaseInv, intact, TraceInv, Q!IInv', Q!MarksInv', ChildrenDone
  PROVE  BaseInv' /\ TraceInv'
  <1> DEFINE n == Len(frames)
  <1>1. /\ frames # <<>> /\ frames' = SubSeq(frames, 1, n - 1)
        /\ frames[n].i > Len(frames[n].ptrs)
        /\ UNCHANGED <<pageVars, mem, stack, unsafeStack, want, next, origin, fresh, made, gcs, saved>>
    BY DEF ChildrenDone, Top
  <1>2. frames \in Seq(FrameType)
    BY DEF BaseInv, TypeInv
  <1>3. /\ frames' \in Seq(FrameType) /\ DOMAIN frames' = DOMAIN frames \ {n}
        /\ n \in DOMAIN frames
        /\ \A d \in DOMAIN frames' : frames'[d] = frames[d]
    BY <1>1, <1>2
  <1> HIDE DEF n
  <1>4. TypeInv'
    <2>1. \A f \in {frames'[d] : d \in DOMAIN frames'} :
            f.obj \in Addrs /\ f.safe \in BOOLEAN /\ f.i \in 1 .. (Len(f.ptrs) + 1)
      BY <1>3 DEF BaseInv, TypeInv, TypeOK
    <2>. QED
      BY <1>1, <1>3, <2>1 DEF BaseInv, TypeInv, TypeOK
  <1>5. BaseInv'
    BY <1>1, <1>4, SamePagesBase
  <1>6. ASSUME NEW o \in Copies, NEW j \in DOMAIN PtrsIn(o)
        PROVE  Pending(o, j)' <=> Pending(o, j)
    <2>1. frames[n].obj = AddressOf(o) => frames[n].ptrs = PtrsIn(o)
      <3>1. PICK t \in Copies : frames[n].obj = AddressOf(t) /\ frames[n].ptrs = PtrsIn(t)
        BY <1>3 DEF TraceInv, FramesInv
      <3>. QED
        BY <3>1, Apart DEF Copies
    <2>2. ~(frames[n].obj = AddressOf(o) /\ frames[n].i <= j)
      <3>1. PtrsIn(o) \in Seq(Nat)
        BY ObjectFacts DEF Copies
      <3>2. j \in Int /\ j <= Len(PtrsIn(o)) /\ Len(PtrsIn(o)) \in Int
        BY <3>1
      <3>3. frames[n].i \in Int
        <4>1. frames[n] \in FrameType
          BY <1>2, <1>3
        <4>. QED
          BY <4>1 DEF FrameType
      <3>. QED
        BY <1>1, <2>1, <3>2, <3>3
    <2>. QED
      BY <1>3, <2>2 DEF Pending
  <1>7. RootsInv'
    BY <1>1, RootsStay
  <1>8. FramesInv'
    <2>1. Copies' = Copies /\ \A q : PtrsIn(q)' = PtrsIn(q)
      BY <1>1, SameWords
    <2>. QED
      BY <1>3, <2>1 DEF TraceInv, FramesInv
  <1>9. OriginInv'
    <2>1. Headed' = Headed /\ \A a : HeaderOf(a)' = HeaderOf(a)
      BY <1>1, SameWords
    <2>. QED
      BY <1>1, <2>1 DEF TraceInv, OriginInv
  <1>. QED
    BY <1>1, <1>5, <1>6, <1>7, <1>8, <1>9, QuietStep

\* A trace that stops leaves everything where it is.
LEMMA TraceStopsKeeps ==
  ASSUME BaseInv, intact, Q!IInv', Q!MarksInv', ScanStops \/ ChildStops
  PROVE  BaseInv' /\ pc' = "abort"
  <1>1. P!Stop
    BY DEF ScanStops, ChildStops, VisitSafeStops, P!CopyFails, P!TraceStops
  <1>2. pc' = "abort" /\ UNCHANGED <<active, bump, amap, unsafe, req, objs, kept, intact>>
    BY <1>1 DEF P!Stop
  <1>3. UNCHANGED <<mem, stack, unsafeStack, want, traceVars, fresh, made, gcs, disturbed, saved>>
    BY DEF ScanStops, ChildStops
  <1>4. TypeInv'
    BY <1>2, <1>3 DEF BaseInv, TypeInv, TypeOK, traceVars
  <1>5. \A q : Hd(q)' = Hd(q) /\ Id(q)' = Id(q)
    BY <1>3 DEF Hd, Id, HeaderOf
  <1>6. HeadersInv'
    BY <1>2, <1>3, <1>5 DEF HeadersInv, BaseInv
  <1>7. WantInv'
    BY <1>2 DEF WantInv
  <1>. QED
    BY <1>2, <1>4, <1>6, <1>7 DEF BaseInv

=============================================================================
