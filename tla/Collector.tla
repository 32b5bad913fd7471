----------------------------- MODULE Collector -----------------------------
(***************************************************************************)
(* The collector with the contents of the heap: the client's stack, the    *)
(* headers and pointer fields of the objects, and the trace that           *)
(* find_root_set and traverse_and_copy make from one to the other, a step  *)
(* for every stack word and for every child pointer.  What happens to the  *)
(* pages is module Pages, whose actions the actions here conjoin.          *)
(*                                                                         *)
(* An address is a page and a word of it.  A word is nothing (zero), a     *)
(* pointer, a header (the kind of the object and, as a ghost, which object *)
(* it is), a forwarding address, or other data.  A kind of object has a    *)
(* layout, "raw" or "struct", a size in words, and the offsets of its      *)
(* pointers, which header_interpretation reads off the layout bits.        *)
(*                                                                         *)
(* The client initialises the pointer fields of an object before it does   *)
(* anything else, and follows only pointers to objects.                    *)
(***************************************************************************)
EXTENDS Integers, Sequences, FiniteSets, Functions

CONSTANTS
  NumPages, PageWords, PMWord, BitvectorSize, ThNum, ThDen,  \* as in Pages
  Kinds,        \* kinds of object: [layout, size, ptrs]
  NumSlots,     \* words of the client's stack that may hold a pointer
  StackModes,   \* the settings of unsafe_stack that h_gc_dbg is given
  Strays,       \* addresses that are on the stack without being used
  MaxMade,      \* bound: objects allocated in a behaviour
  MaxGcs        \* bound: collections in a behaviour

ASSUME PagesAssumption ==
  /\ NumPages \in Nat \ {0} /\ PageWords \in Nat \ {0} /\ PMWord \in Nat
  /\ BitvectorSize \in Nat \ {0, 1}
  /\ ThDen \in Nat \ {0} /\ ThNum \in 0 .. ThDen

\* Only a struct has pointers, each at an offset of its own.
ASSUME KindsAssumption ==
  \A k \in Kinds :
    /\ k.layout \in {"raw", "struct"}
    /\ k.size \in 1 .. (PageWords - 1)
    /\ k.ptrs \in Seq(0 .. (k.size - 1))
    /\ \A i, j \in DOMAIN k.ptrs : k.ptrs[i] = k.ptrs[j] => i = j
    /\ k.layout = "raw" => k.ptrs = <<>>

ASSUME ClientAssumption ==
  /\ NumSlots \in Nat /\ MaxMade \in Nat /\ MaxGcs \in Nat
  /\ StackModes \subseteq BOOLEAN
  /\ Strays \subseteq (0 .. (NumPages - 1)) \X (0 .. (PageWords - 1))

VARIABLES
  active, bump, amap, unsafe, pc, req, objs, kept, intact,  \* as in Pages
  mem,          \* the words of the pages
  stack,        \* the client's stack
  unsafeStack,  \* unsafe_stack of the heap
  want,         \* the allocation that waits for a collection: kind and slot
  next,         \* the stack word that scan_stack reads next
  frames,       \* the calls of traverse_children in progress
  origin,       \* the address the current root had when it was read
  fresh,        \* the slot of an object to be initialised, or 0
  made, gcs,    \* ghost: objects allocated and collections begun so far
  disturbed,    \* history: a collection began with an unsafe stack, or on a heap
                \* that this collector does not preserve
  saved         \* history: what the client saw when the last collection began

pageVars == <<active, bump, amap, unsafe, pc, req, objs, kept, intact>>
traceVars == <<next, frames, origin>>
vars == <<pageVars, mem, stack, unsafeStack, want, traceVars, fresh, made, gcs, disturbed, saved>>

\* A struct whose header is a word that is no header counts as 0 words.
P == INSTANCE Pages WITH Sizes <- {k.size : k \in Kinds}, MisreadSizes <- {0}

Slots == 1 .. NumSlots
Addrs == P!PageIds \X (0 .. (PageWords - 1))
Page(a) == a[1]
Plus(a, n) == <<a[1], a[2] + n>>

Nil == <<"nil">>
Data == <<"data">>
Ptr(a) == <<"ptr", a>>
Header(k, id) == <<"header", k, id>>
Forward(a) == <<"forward", a>>

IsPtr(w) == w[1] = "ptr"
HeaderOf(a) == mem[Plus(a, -1)]

\* identify_header, from the two or three lowest bits.  Pointers, zero and the
\* data in these models end in 000, as a format string's address does.
Identify(h) ==
  CASE h[1] = "header" -> h[2].layout
    [] h[1] = "forward" -> "forward"
    [] OTHER -> "format"

\* am_lookup.
Marked(a) ==
  IF P!IsFlag(a[2]) THEN unsafe[Page(a)] ELSE P!Block(a[2]) \in amap[Page(a)]

ObjectAt(a) == {o \in objs : o.page = Page(a) /\ o.at = a[2] /\ o.words > 0}
AddressOf(o) == <<o.page, o.at>>

None == [mode |-> "none"]

-----------------------------------------------------------------------------
(* What the client sees: its stack and the objects it can reach, by their  *)
(* identities, whatever their addresses are.                               *)

Name(w) ==
  IF ~IsPtr(w) THEN w
  ELSE IF ObjectAt(w[2]) = {} THEN <<"dangling">>
  ELSE <<"object", HeaderOf(w[2])[3]>>

PtrsOf(a) == HeaderOf(a)[2].ptrs
Fields(a) == {Plus(a, PtrsOf(a)[i]) : i \in DOMAIN PtrsOf(a)}
Targets(ws) == {w[2] : w \in {v \in ws : IsPtr(v) /\ ObjectAt(v[2]) # {}}}
Children(a) == Targets({mem[f] : f \in Fields(a)})

\* The objects of A, and those reached from them: what is in every set that has
\* A and the children of its members.
ObjectAddrs == {AddressOf(o) : o \in {q \in objs : q.words > 0}}
Reach(A) ==
  LET closed == {X \in SUBSET ObjectAddrs : A \subseteq X /\ \A a \in X : Children(a) \subseteq X}
  IN  {a \in ObjectAddrs : \A X \in closed : a \in X}

RootsBefore(s) == Targets({stack[t] : t \in 1 .. (s - 1)})
Reachable == Reach(RootsBefore(NumSlots + 1))

View ==
  [roots  |-> [s \in Slots |-> Name(stack[s])],
   fields |-> UNION {{<<HeaderOf(a)[3], PtrsOf(a)[i], Name(mem[Plus(a, PtrsOf(a)[i])])>> :
                        i \in DOMAIN PtrsOf(a)} : a \in Reachable}]

\* The heaps that this collector preserves: no object is the child of two
\* fields, and an object that is both a child and on the stack is reached from
\* an earlier stack word first; with an unsafe stack, no two words are equal,
\* with a safe one every pointer on it is to an object.
StrayOnStack == \E s \in Slots : IsPtr(stack[s]) /\ ObjectAt(stack[s][2]) = {}
Parents(b) == {f \in UNION {Fields(a) : a \in Reachable} : mem[f] = Ptr(b)}
Collectable(us) ==
  /\ \A b \in Reachable : \A f, g \in Parents(b) : f = g
  /\ \A s \in Slots : IsPtr(stack[s]) =>
       \/ Parents(stack[s][2]) = {}
       \/ \E a \in Reach(RootsBefore(s)) : stack[s][2] \in Children(a)
  /\ us => \A s, t \in Slots : IsPtr(stack[s]) /\ stack[s] = stack[t] => s = t
  /\ ~us => ~StrayOnStack

\* h_avail.
Avail == SumFunction([p \in P!PageIds |-> P!FreeSpace(p)])

\* h_used: on every active page, as many headers are walked as the allocation
\* map has objects, from the first one on.  A word that is no header would be
\* read as the address of a format string; the result is then -1.
NextHeader(p, w) ==
  LET h == mem[<<p, w>>] IN
  IF h[1] # "header" \/ w + h[2].size + 1 >= PageWords THEN w ELSE w + h[2].size + 1
HeadersOf(p) ==
  LET n == Cardinality(amap[p])
      at[k \in 0 .. n] == IF k = 0 THEN 0 ELSE NextHeader(p, at[k-1])
  IN  [k \in 1 .. n |-> mem[<<p, at[k-1]>>]]
UsedWithHeaders(p) == bump[p]      \* mutant: the headers are counted
UsedOnPage(p) == LET hs == HeadersOf(p) IN SumFunction([k \in DOMAIN hs |-> hs[k][2].size])
HUsed ==
  LET pages == active \cap P!PageIds IN
  IF \E p \in pages : \E k \in DOMAIN HeadersOf(p) : HeadersOf(p)[k][1] # "header" THEN -1
  ELSE SumFunction([p \in pages |-> UsedOnPage(p)])

-----------------------------------------------------------------------------
Init ==
  /\ P!Init
  /\ mem = [a \in Addrs |-> Nil]
  /\ stack = [s \in Slots |-> Nil]
  /\ unsafeStack \in StackModes
  /\ want = None
  /\ next = 1
  /\ frames = <<>>
  /\ origin = Nil
  /\ fresh = 0
  /\ made = 0
  /\ gcs = 0
  /\ disturbed = FALSE
  /\ saved = None

(* The client.                                                             *)

\* h_alloc_struct or h_alloc_data has placed an object of kind k, and returns
\* it to slot s.  A page that it activates was zeroed by p_reset.
Placed(k, s) ==
  /\ \E p \in P!PageIds :
       LET a == <<p, bump[p] + 1>> IN
       /\ bump'[p] # bump[p]
       /\ mem' = [x \in Addrs |->
                   IF x = Plus(a, -1) THEN Header(k, made + 1)
                   ELSE IF Page(x) = p /\ p \notin active THEN Nil
                   ELSE mem[x]]
       /\ stack' = [stack EXCEPT ![s] = Ptr(a)]
  /\ fresh' = IF k.ptrs = <<>> THEN 0 ELSE s
  /\ made' = made + 1
  /\ want' = None
  /\ saved' = None
  /\ UNCHANGED <<unsafeStack, traceVars, gcs, disturbed>>

Alloc(k, s) ==
  /\ made < MaxMade /\ fresh = 0
  /\ P!AllocInActivePage(k.size) \/ P!AllocInNewPage(k.size)
  /\ Placed(k, s)

HoldsObject(s) == IsPtr(stack[s]) /\ ObjectAt(stack[s][2]) # {}

\* The values the client has to set a pointer to.
Known == {Nil} \cup {stack[s] : s \in {t \in Slots : HoldsObject(t)}}

\* A write of the client to fields fs may land on the page map.
Written(fs) == IF \E f \in fs : P!HitsMap(f[1], f[2], f[2]) THEN P!ClientStore ELSE UNCHANGED pageVars

\* h_gc begins to scan the stack.
BeginScan ==
  /\ gcs < MaxGcs
  /\ gcs' = gcs + 1
  /\ disturbed' = (disturbed \/ unsafeStack' \/ ~Collectable(unsafeStack'))
  /\ next' = 1
  /\ saved' = [mode |-> IF unsafeStack' THEN "unsafe" ELSE "safe",
               view |-> View, ids |-> {HeaderOf(a)[3] : a \in Reachable},
               addrs |-> Reachable,
               collectable |-> Collectable(unsafeStack'), stray |-> StrayOnStack,
               avail |-> Avail]
  /\ UNCHANGED <<mem, stack, frames, origin, fresh, made>>

AllocCollects(k, s) ==
  /\ made < MaxMade /\ fresh = 0
  /\ P!AllocCollects(k.size)
  /\ want' = [mode |-> "alloc", kind |-> k, slot |-> s]
  /\ UNCHANGED unsafeStack
  /\ BeginScan

FinishAlloc ==
  /\ P!FinishAlloc
  /\ Placed(want.kind, want.slot)

AllocStops ==
  /\ \/ made < MaxMade /\ fresh = 0 /\ \E k \in Kinds : P!AllocStops(k.size)
     \/ P!FinishStops
  /\ UNCHANGED <<mem, stack, unsafeStack, want, traceVars, fresh, made, gcs, disturbed, saved>>

\* h_gc, or h_gc_dbg, which also changes the setting.
HGc(mode) ==
  /\ fresh = 0
  /\ P!HGc
  /\ unsafeStack' = mode
  /\ UNCHANGED want
  /\ BeginScan

\* A step of the client between its calls of the collector.
ClientOnly ==
  /\ pc = "client"
  /\ fresh' = 0
  /\ saved' = None
  /\ UNCHANGED <<unsafeStack, want, traceVars, made, gcs, disturbed>>

\* The client sets the pointers of the object it has been given.
Initialise ==
  LET fs == Fields(stack[fresh][2]) IN
  /\ fresh # 0
  /\ ClientOnly
  /\ \E init \in [fs -> Known] :
       mem' = [x \in Addrs |-> IF x \in fs THEN init[x] ELSE mem[x]]
  /\ Written(fs)
  /\ UNCHANGED stack

\* The client writes to its stack: a null pointer, a copy of another word, or
\* an address it does not use.
Push(s) ==
  /\ ClientOnly /\ fresh = 0
  /\ \E w \in {Nil} \cup {stack[t] : t \in Slots} \cup {Ptr(a) : a \in Strays} :
       w # stack[s] /\ stack' = [stack EXCEPT ![s] = w]
  /\ UNCHANGED <<pageVars, mem>>

\* t = s->f
Load(s, t) ==
  /\ ClientOnly /\ fresh = 0
  /\ HoldsObject(s)
  /\ \E f \in Fields(stack[s][2]) : stack' = [stack EXCEPT ![t] = mem[f]]
  /\ UNCHANGED <<pageVars, mem>>

\* s->f = w, a write that may also land on the page map.
Store(s) ==
  /\ ClientOnly /\ fresh = 0
  /\ HoldsObject(s)
  /\ \E f \in Fields(stack[s][2]), w \in Known :
       /\ w # mem[f]
       /\ mem' = [mem EXCEPT ![f] = w]
       /\ Written({f})
  /\ UNCHANGED stack

\* h_delete_dbg: kill_stack_pointers, then h_delete.
IsForwardedRoot(w) ==              \* mutant: the allocation map is not asked
  IsPtr(w) /\ Identify(HeaderOf(w[2])) = "forward"
IsRoot(w) == IsPtr(w) /\ (Marked(w[2]) \/ Identify(HeaderOf(w[2])) = "forward")

HDeleteDbg ==
  /\ fresh = 0
  /\ P!HDelete
  /\ stack' = [s \in Slots |-> IF IsRoot(stack[s]) THEN Data ELSE stack[s]]
  /\ UNCHANGED <<mem, unsafeStack, want, traceVars, fresh, made, gcs, disturbed, saved>>

-----------------------------------------------------------------------------
(* The trace.                                                              *)

Top == frames[Len(frames)]

\* i++ of traverse_children.
SkipTwo == [frames EXCEPT ![Len(frames)].i = @ + 2]  \* mutant: i is raised twice
SkipNone == frames                                   \* mutant: i is not raised
SkipChild == [frames EXCEPT ![Len(frames)].i = @ + 1]

\* Where the pointer that is being visited lies.
SlotLoc(s) == [at |-> "stack", slot |-> s]
FieldLoc(f) == [at |-> "heap", field |-> f]

\* The stack once the root of word s has become w.
StackKept(s, w) == stack           \* mutant: the word is not written back
StackWith(s, w) == [stack EXCEPT ![s] = w]

\* *root = w, beside writes that leave the heap as m.
SetLoc(loc, w, m) ==
  IF loc.at = "stack"
    THEN stack' = StackWith(loc.slot, w) /\ mem' = m
    ELSE mem' = [m EXCEPT ![loc.field] = w] /\ UNCHANGED stack

\* get_children of the object at a, whose header is h: traverse_children starts.
\* calls are the calls that this one returns to.
Enter(a, h, safe, calls) ==
  frames' = IF Identify(h) = "struct"
              THEN Append(calls, [obj |-> a, ptrs |-> h[2].ptrs, i |-> 1, safe |-> safe])
              ELSE calls

VisitForwarded(loc, a, calls) ==
  /\ Identify(HeaderOf(a)) = "forward"
  /\ SetLoc(loc, Ptr(HeaderOf(a)[2]), mem)
  /\ frames' = calls
  /\ UNCHANGED pageVars

\* get_object_size, in words.
CopySizeWithHeader(h) == IF h[1] = "header" THEN h[2].size + 1 ELSE 0  \* mutant: counts it twice
CopySize(h) == IF h[1] = "header" THEN h[2].size ELSE 0

\* The object at a, or what is taken for one.
Taken(a) ==
  IF ObjectAt(a) # {} THEN CHOOSE o \in ObjectAt(a) : TRUE
  ELSE [page |-> Page(a), at |-> a[2], words |-> 0]

VisitCopies(loc, a, calls) ==
  LET h == HeaderOf(a)
      n == CopySize(h)
  IN
  /\ Identify(h) # "forward"
  /\ P!Copy(Taken(a), n)
  /\ \E p \in P!PageIds :
       LET new == <<p, bump[p] + 1>>
           Shift(x) == Plus(a, x[2] - new[2])
       IN
       /\ bump'[p] # bump[p]
       /\ SetLoc(loc, Ptr(new),
            [x \in Addrs |->
               IF x = Plus(a, -1) THEN Forward(new)
               ELSE IF Page(x) = p /\ x[2] \in (new[2] - 1) .. (new[2] + n - 1)
                    THEN mem[Shift(x)]
               ELSE mem[x]])
       /\ Enter(new, h, TRUE, calls)

\* traverse_and_copy when the pointer is safe.
VisitSafe(loc, a, calls) ==
  \/ VisitForwarded(loc, a, calls)
  \/ VisitCopies(loc, a, calls)

VisitSafeStops(a) ==
  /\ Identify(HeaderOf(a)) # "forward"
  /\ P!CopyFails(CopySize(HeaderOf(a)))

\* traverse_and_copy when it is not: manage_invalid_pointer stops the program
\* if the word before it is not a header, also at the first pointer.
VisitUnsafe(s, a) ==
  \/ VisitForwarded(SlotLoc(s), a, <<>>)
  \/ /\ Identify(HeaderOf(a)) \in {"raw", "struct"}
     /\ P!Pin(Taken(a))
     /\ Enter(a, HeaderOf(a), FALSE, <<>>)
     /\ UNCHANGED <<mem, stack>>

\* scan_stack at its next word.
ScanSkips ==
  /\ pc = "trace" /\ frames = <<>> /\ next \in Slots
  /\ ~IsRoot(stack[next])
  /\ next' = next + 1
  /\ UNCHANGED <<pageVars, mem, stack, unsafeStack, want, frames, origin, fresh, made, gcs, disturbed, saved>>

ScanVisits ==
  /\ pc = "trace" /\ frames = <<>> /\ next \in Slots
  /\ IsRoot(stack[next])
  /\ next' = next + 1
  /\ origin' = stack[next]
  /\ IF unsafeStack THEN VisitUnsafe(next, stack[next][2])
     ELSE VisitSafe(SlotLoc(next), stack[next][2], <<>>)
  /\ UNCHANGED <<unsafeStack, want, fresh, made, gcs, disturbed, saved>>

ScanStops ==
  /\ pc = "trace" /\ frames = <<>> /\ next \in Slots
  /\ IsRoot(stack[next])
  /\ IF unsafeStack
       THEN Identify(HeaderOf(stack[next][2])) = "format" /\ P!TraceStops
       ELSE VisitSafeStops(stack[next][2])
  /\ UNCHANGED <<mem, stack, unsafeStack, want, traceVars, fresh, made, gcs, disturbed, saved>>

\* traverse_children at its next child, the field at loc with the word w.
InChildren == pc = "trace" /\ frames # <<>> /\ Top.i <= Len(Top.ptrs)
ChildLoc == Plus(Top.obj, Top.ptrs[Top.i])
Child == mem[ChildLoc]
LookedAtNull == Child # origin     \* mutant: null pointers are looked up
Looked == Child # Nil /\ Child # origin
Invalid == Looked /\ (IsPtr(Child) => ~Marked(Child[2]))

\* manage_invalid_pointer returns: nothing has been copied from this object yet.
Tolerated == Top.safe /\ Top.i = 1

ChildSkipped ==
  /\ InChildren
  /\ ~Looked \/ (Invalid /\ IsPtr(Child) /\ Tolerated)
  /\ frames' = SkipChild
  /\ UNCHANGED <<pageVars, mem, stack, unsafeStack, want, next, origin, fresh, made, gcs, disturbed, saved>>

ChildVisited ==
  /\ InChildren
  /\ Looked /\ ~Invalid
  /\ VisitSafe(FieldLoc(ChildLoc), Child[2], SkipChild)
  /\ UNCHANGED <<unsafeStack, want, next, origin, fresh, made, gcs, disturbed, saved>>

ChildStops ==
  /\ InChildren
  /\ Looked
  /\ \/ Invalid /\ ~(IsPtr(Child) /\ Tolerated) /\ P!TraceStops
     \/ ~Invalid /\ VisitSafeStops(Child[2])
  /\ UNCHANGED <<mem, stack, unsafeStack, want, traceVars, fresh, made, gcs, disturbed, saved>>

ChildrenDone ==
  /\ pc = "trace" /\ frames # <<>> /\ Top.i > Len(Top.ptrs)
  /\ frames' = SubSeq(frames, 1, Len(frames) - 1)
  /\ UNCHANGED <<pageVars, mem, stack, unsafeStack, want, next, origin, fresh, made, gcs, disturbed, saved>>

\* find_root_set returns and garbage_collection sweeps.
Sweep ==
  /\ frames = <<>> /\ next > NumSlots
  /\ P!Sweep
  /\ origin' = Nil
  /\ next' = 1
  /\ UNCHANGED <<mem, stack, unsafeStack, want, frames, fresh, made, gcs, disturbed, saved>>

Collect ==
  \/ ScanSkips \/ ScanVisits \/ ScanStops
  \/ ChildSkipped \/ ChildVisited \/ ChildStops \/ ChildrenDone
  \/ Sweep

Client ==
  \/ \E k \in Kinds, s \in Slots : Alloc(k, s) \/ AllocCollects(k, s)
  \/ FinishAlloc
  \/ AllocStops
  \/ Initialise
  \/ \E mode \in {unsafeStack} \cup StackModes : HGc(mode)
  \/ \E s \in Slots : Push(s) \/ Store(s) \/ \E t \in Slots : Load(s, t)
  \/ HDeleteDbg

Next == Client \/ Collect

\* The collector runs in the client's thread: once called it keeps going.
Spec == Init /\ [][Next]_vars /\ WF_vars(Collect)

-----------------------------------------------------------------------------
(* Properties.                                                             *)

Words ==
  {Nil, Data} \cup {Ptr(a) : a \in Addrs} \cup {Forward(a) : a \in Addrs}
  \cup {Header(k, id) : k \in Kinds, id \in 1 .. MaxMade}

TypeOK ==
  /\ mem \in [Addrs -> Words]
  /\ stack \in [Slots -> Words]
  /\ unsafeStack \in BOOLEAN
  /\ next \in 1 .. (NumSlots + 1)
  /\ \A f \in {frames[d] : d \in DOMAIN frames} :
       f.obj \in Addrs /\ f.safe \in BOOLEAN /\ f.i \in 1 .. (Len(f.ptrs) + 1)
  /\ fresh \in Slots \cup {0}
  /\ made \in 0 .. MaxMade /\ gcs \in 0 .. MaxGcs

Collected == intact /\ saved # None /\ pc \in {"client", "place"}

\* A collection does not show: afterwards the client's stack and the objects it
\* reaches hold the same as before it, at whatever addresses, provided the heap
\* was one that this collector preserves.
Transparent == Collected /\ saved.collectable => View = saved.view

\* On such a heap, and with pointers to objects on the stack, no pointer is taken
\* for an invalid one: the trace stops only when no passive page has room.
CollectableNeverAborts ==
  [][intact /\ pc = "trace" /\ saved.collectable /\ ~saved.stray /\ pc' = "abort"
       => \E k \in Kinds : P!WithRoom(P!Passive, k.size) = {}]_vars

\* A collection with a safe stack leaves the reached objects and nothing else.
GarbageFreed ==
  Collected /\ saved.collectable /\ saved.mode = "safe"
    => {HeaderOf(AddressOf(o))[3] : o \in objs} = saved.ids

\* With a safe stack of pointers to objects, h_gc returns at least 0, whatever
\* the heap is like: no object is copied twice.
SafeGcCollects ==
  Collected /\ saved.mode = "safe" /\ ~saved.stray => Avail >= saved.avail

\* An allocation, with or without a collection before it, changes no word of an
\* object: the page that p_reset zeroes holds none.
AllocDisturbsNone ==
  [][made' # made /\ intact' =>
       \A o \in objs : \A w \in (o.at - 1) .. (o.at + o.words - 1) :
         mem'[<<o.page, w>>] = mem[<<o.page, w>>]]_vars

\* h_used counts every object once, as long as no page was kept by an unsafe
\* stack and no pointer was left behind: then the bump allocator leaves no gap
\* for its walk to fall into, and no forwarding header on an active page.
UsedExact ==
  intact /\ pc = "client" /\ ~disturbed => HUsed = SumFunction([o \in objs |-> o.words])

\* With a safe stack and objects of one size at most one page more than half is
\* active, which is when an allocation had to collect and all pages were kept:
\* the memory pressure, that "cannot be greater than 1" (page_map.c), exceeds 1
\* by a page and no more.  (Objects of several sizes may fit worse on the pages
\* they are copied to than on those that they came from.)
PressureBounded ==
  intact /\ ~disturbed /\ (\A j, k \in Kinds : j.size = k.size)
    => Cardinality(active) <= P!Half + 1

\* h_delete_dbg leaves no pointer to an object on the stack.
ObjectsKilled == pc = "deleted" => \A s \in Slots : ~HoldsObject(s)

\* Every collection ends, on any heap, also a cyclic one.
GcEnds == pc = "trace" ~> pc # "trace"

\* The pages take only the steps of module Pages.
PagesSpec == P!Spec

-----------------------------------------------------------------------------
(* What the project's own texts say of the program, and the code does not  *)
(* keep.                                                                   *)

\* A child that the allocation map denies "was not a real pointer"
\* (traverse_and_copy.c).
InvalidIsNoPointer ==
  intact /\ InChildren /\ Invalid /\ IsPtr(Child) => Child[2] \notin saved.addrs

=============================================================================
