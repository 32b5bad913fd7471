---------------------------- MODULE StockProofs -----------------------------
(***************************************************************************)
(* Proofs about the warehouse, for any number of merch, names, shelves     *)
(* and carts.                                                              *)
(*                                                                         *)
(* What needs the shape of the records only comes first: a cart is found   *)
(* by its id, and the table of shelves and the merch agree. Then the       *)
(* books: the amounts in a merch, on its shelves and in the items of the   *)
(* carts agree, a checkout takes from the stock what the customer pays     *)
(* for, and the program stops only in the cases that are named.            *)
(***************************************************************************)
EXTENDS Frontend, FoldTheorems

-----------------------------------------------------------------------------
(* The list of carts.                                                      *)

\* Carts whose tables are members of X.
Carts(X) == [cart_id : Nat, products : X]
CartsIn(X) == carts \in Seq(Carts(X))

CartsInv ==
  /\ next_cart_id \in Nat
  /\ no_carts_removed \in Nat
  /\ \E X : CartsIn(X)
  /\ CartsFound

\* linked_list_remove leaves the elements before and those after index i.
LEMMA RemoveAtProperties ==
  ASSUME NEW S, NEW s \in Seq(S), NEW i \in 1 .. Len(s)
  PROVE  /\ RemoveAt(s, i) \in Seq(S)
         /\ Len(RemoveAt(s, i)) = Len(s) - 1
         /\ \A k \in 1 .. (Len(s) - 1) :
              RemoveAt(s, i)[k] = IF k < i THEN s[k] ELSE s[k + 1]
  <1> DEFINE before == SubSeq(s, 1, i - 1)
             after == SubSeq(s, i + 1, Len(s))
  <1>1. Len(s) \in Nat /\ \A k \in 1 .. Len(s) : s[k] \in S
    BY ElementOfSeq, LenProperties
  <1>2. /\ before \in Seq(S)
        /\ Len(before) = i - 1
        /\ \A k \in 1 .. (i - 1) : before[k] = s[k]
    <2>1. 1 \in Int /\ i - 1 \in Int /\ \A k \in 1 .. (i - 1) : s[k] \in S
      BY <1>1
    <2> HIDE DEF before
    <2>. QED
      BY <1>1, <2>1, SubSeqProperties DEF before
  <1>3. /\ after \in Seq(S)
        /\ Len(after) = Len(s) - i
        /\ \A k \in 1 .. (Len(s) - i) : after[k] = s[i + k]
    <2>1. i + 1 \in Int /\ Len(s) \in Int /\ \A k \in (i + 1) .. Len(s) : s[k] \in S
      BY <1>1
    <2>2. /\ after \in Seq(S)
          /\ Len(after) = IF i + 1 <= Len(s) THEN Len(s) - (i + 1) + 1 ELSE 0
          /\ \A k \in 1 .. (Len(s) - (i + 1) + 1) : after[k] = s[(i + 1) + k - 1]
      BY <2>1, SubSeqProperties
    <2> HIDE DEF after
    <2>. QED
      BY <1>1, <2>2
  <1>4. RemoveAt(s, i) = before \o after
    BY DEF RemoveAt
  <1> HIDE DEF before, after
  <1>5. /\ before \o after \in Seq(S)
        /\ Len(before \o after) = Len(before) + Len(after)
        /\ \A k \in 1 .. (Len(before) + Len(after)) :
             (before \o after)[k] = IF k <= Len(before) THEN before[k] ELSE after[k - Len(before)]
    BY <1>2, <1>3, ConcatProperties
  <1>. QED
    BY <1>1, <1>2, <1>3, <1>4, <1>5

\* The list is a sequence of records with an id.
LEMMA CartsShape ==
  ASSUME NEW X, NEW s \in Seq(Carts(X))
  PROVE  /\ Len(s) \in Nat
         /\ DOMAIN s = 1 .. Len(s)
         /\ \A j \in 1 .. Len(s) : s[j] \in Carts(X) /\ s[j].cart_id \in Nat
  <1>1. Len(s) \in Nat /\ DOMAIN s = 1 .. Len(s)
    BY LenProperties
  <1>2. \A j \in 1 .. Len(s) : s[j] \in Carts(X)
    BY ElementOfSeq
  <1>. QED
    BY <1>1, <1>2 DEF Carts

LEMMA CartsWiden ==
  ASSUME NEW X, NEW Y, X \subseteq Y, NEW s \in Seq(Carts(X))
  PROVE  s \in Seq(Carts(Y))
  <1>1. Carts(X) \subseteq Carts(Y)
    BY DEF Carts
  <1>. QED
    BY <1>1, SeqMonotonic

\* A cart that is chosen from the list is found by its id.
LEMMA FindsChosen ==
  ASSUME CartsFound, NEW X, CartsIn(X), NEW i \in DOMAIN carts
  PROVE  Find(carts[i].cart_id) = i
  <1>1. /\ DOMAIN carts = 1 .. Len(carts) /\ Len(carts) \in Nat
        /\ \A j \in DOMAIN carts : carts[j].cart_id \in Nat
    BY CartsShape DEF CartsIn
  <1>2. \A j \in DOMAIN carts : carts[j].cart_id = carts[i].cart_id => j = i
    BY <1>1 DEF CartsFound
  <1>. QED
    BY <1>2 DEF Find

\* An empty list.
LEMMA CartsNone ==
  << >> \in Seq(Carts({})) /\ Len(<< >>) = 0 /\ DOMAIN << >> = {}
  BY EmptySeq

\* cart_create.
LEMMA CartsCreate ==
  ASSUME CartsInv, CartCreate
  PROVE  CartsInv'
  <1>. PICK X : CartsIn(X)
    BY DEF CartsInv
  <1> DEFINE Y == X \cup {<< >>}
             new == [cart_id |-> next_cart_id, products |-> << >>]
  <1>1. /\ carts' = Append(carts, new)
        /\ next_cart_id' = next_cart_id + 1
        /\ no_carts_removed' = no_carts_removed
    BY DEF CartCreate, NewId
  <1>2. carts \in Seq(Carts(Y)) /\ new \in Carts(Y)
    <2>1. carts \in Seq(Carts(Y))
      BY CartsWiden DEF CartsIn
    <2>. QED
      BY <2>1 DEF CartsInv, Carts
  <1> HIDE DEF Y
  <1>3. /\ DOMAIN carts = 1 .. Len(carts) /\ Len(carts) \in Nat
        /\ \A j \in 1 .. Len(carts) : carts[j].cart_id \in Nat
    BY <1>2, CartsShape
  <1>4. /\ carts' \in Seq(Carts(Y))
        /\ Len(carts') = Len(carts) + 1
        /\ \A j \in 1 .. Len(carts) : carts'[j] = carts[j]
        /\ carts'[Len(carts) + 1].cart_id = next_cart_id
    BY <1>1, <1>2, AppendProperties
  <1>5. DOMAIN carts' = 1 .. (Len(carts) + 1)
    BY <1>4, LenProperties
  <1>6. CartsFound'
    BY <1>1, <1>3, <1>4, <1>5 DEF CartsFound, CartsInv
  <1>. QED
    BY <1>1, <1>4, <1>6 DEF CartsInv, CartsIn

\* ioopm_cart_spec_destroy, which checkout ends with as well.
LEMMA CartsRemove ==
  ASSUME CartsInv, NEW i \in DOMAIN carts, carts' = RemoveAt(carts, i),
         no_carts_removed' = no_carts_removed + 1, next_cart_id' = next_cart_id
  PROVE  CartsInv'
  <1>. PICK X : CartsIn(X)
    BY DEF CartsInv
  <1>1. /\ DOMAIN carts = 1 .. Len(carts) /\ Len(carts) \in Nat
        /\ \A j \in 1 .. Len(carts) : carts[j].cart_id \in Nat
    BY CartsShape DEF CartsIn
  <1>2. /\ carts' \in Seq(Carts(X))
        /\ Len(carts') = Len(carts) - 1
        /\ \A k \in 1 .. (Len(carts) - 1) : carts'[k] = IF k < i THEN carts[k] ELSE carts[k + 1]
    BY <1>1, RemoveAtProperties DEF CartsIn
  <1>3. DOMAIN carts' = 1 .. (Len(carts) - 1)
    BY <1>2, LenProperties
  <1> DEFINE was(k) == IF k < i THEN k ELSE k + 1
  <1>4. i \in 1 .. Len(carts)
    BY <1>1
  <1>5. \A k \in DOMAIN carts' : was(k) \in DOMAIN carts /\ carts'[k] = carts[was(k)]
    BY <1>1, <1>2, <1>3, <1>4
  <1>6. \A j, k \in DOMAIN carts' : j < k => was(j) < was(k)
    BY <1>1, <1>3, <1>4
  <1> HIDE DEF was
  <1>7. CartsFound'
    <2>1. CartsFound /\ next_cart_id \in Nat /\ no_carts_removed \in Nat
      BY DEF CartsInv
    <2>2. /\ \A j, k \in DOMAIN carts' : j < k => carts'[j].cart_id < carts'[k].cart_id
          /\ \A j \in DOMAIN carts' : carts'[j].cart_id < next_cart_id'
      BY <1>5, <1>6, <2>1 DEF CartsFound
    <2>3. Len(carts') + no_carts_removed' = next_cart_id'
      <3>1. Len(carts) + no_carts_removed = next_cart_id
        BY <2>1 DEF CartsFound
      <3>2. Len(carts') = Len(carts) - 1 /\ Len(carts) \in Nat
        BY <1>1, <1>2
      <3>. QED
        BY <2>1, <3>1, <3>2
    <2>. QED
      BY <2>2, <2>3 DEF CartsFound
  <1>. QED
    BY <1>2, <1>7 DEF CartsInv, CartsIn

\* cart_add_merch and cart_remove_merch change the table of a cart.
LEMMA CartsChange ==
  ASSUME CartsInv, NEW i \in DOMAIN carts, NEW products,
         carts' = [carts EXCEPT ![i].products = products],
         UNCHANGED <<no_carts_removed, next_cart_id>>
  PROVE  CartsInv'
  <1>. PICK X : CartsIn(X)
    BY DEF CartsInv
  <1> DEFINE Y == X \cup {products}
             new == [carts[i] EXCEPT !.products = products]
  <1>1. /\ DOMAIN carts = 1 .. Len(carts) /\ Len(carts) \in Nat
        /\ \A j \in 1 .. Len(carts) : carts[j] \in Carts(X)
    BY CartsShape DEF CartsIn
  <1>2. carts \in Seq(Carts(Y))
    BY CartsWiden DEF CartsIn
  <1>3. new \in Carts(Y) /\ new.cart_id = carts[i].cart_id
    BY <1>1 DEF Carts
  <1> HIDE DEF Y
  <1>4. carts' = [carts EXCEPT ![i] = new]
    OBVIOUS
  <1> HIDE DEF new
  <1>5. /\ carts' \in Seq(Carts(Y))
        /\ Len(carts') = Len(carts)
        /\ \A j \in 1 .. Len(carts) : carts'[j] = IF j = i THEN new ELSE carts[j]
    BY <1>1, <1>2, <1>3, <1>4, ExceptSeq
  <1>6. DOMAIN carts' = DOMAIN carts /\ \A j \in DOMAIN carts : carts'[j].cart_id = carts[j].cart_id
    BY <1>1, <1>3, <1>5, LenProperties
  <1>7. CartsFound'
    BY <1>1, <1>5, <1>6 DEF CartsInv, CartsFound
  <1>. QED
    BY <1>5, <1>7 DEF CartsInv, CartsIn

\* A step that changes neither the list nor its counters.
LEMMA CartsSame ==
  ASSUME CartsInv, UNCHANGED <<carts, next_cart_id, no_carts_removed>>
  PROVE  CartsInv'
  BY DEF CartsInv, CartsIn, CartsFound

-----------------------------------------------------------------------------
(* The table of a cart, and what it holds.                                 *)

Entry(M, B) == [merch : M, bucket : B, amount : Nat]
TableOk(p) == \E M, B : p \in Seq(Entry(M, B))
HeldIn(p, m) == SumFunctionOnSet(Amounts(p), ItemsOf(p, m))

\* A table as a sequence of records.
LEMMA TableShape ==
  ASSUME NEW p, TableOk(p)
  PROVE  /\ Len(p) \in Nat
         /\ DOMAIN p = 1 .. Len(p)
         /\ IsFiniteSet(DOMAIN p)
         /\ \A k \in DOMAIN p : p[k].amount \in Nat /\ DOMAIN p[k] = {"merch", "bucket", "amount"}
  <1>. PICK M, B : p \in Seq(Entry(M, B))
    BY DEF TableOk
  <1>1. Len(p) \in Nat /\ DOMAIN p = 1 .. Len(p) /\ \A k \in 1 .. Len(p) : p[k] \in Entry(M, B)
    BY LenProperties, ElementOfSeq
  <1>2. \A e \in Entry(M, B) : e.amount \in Nat /\ DOMAIN e = {"merch", "bucket", "amount"}
    BY DEF Entry
  <1>3. IsFiniteSet(1 .. Len(p))
    BY <1>1, FS_Interval
  <1>. QED
    BY <1>1, <1>2, <1>3

\* The amounts that make up what is held of a merch.
LEMMA ItemsFinite ==
  ASSUME NEW p, TableOk(p), NEW m
  PROVE  /\ IsFiniteSet(ItemsOf(p, m))
         /\ ItemsOf(p, m) \subseteq DOMAIN p
         /\ \A k \in DOMAIN p : /\ Amounts(p)[k] = p[k].amount
                                /\ Amounts(p)[k] \in Nat
                                /\ Amounts(p)[k] \in Int
  <1>1. ItemsOf(p, m) \in SUBSET DOMAIN p
    BY DEF ItemsOf
  <1>2. IsFiniteSet(ItemsOf(p, m))
    BY <1>1, TableShape, FS_Subset
  <1>3. \A k \in DOMAIN p : Amounts(p)[k] = p[k].amount /\ p[k].amount \in Nat
    BY TableShape DEF Amounts
  <1>. QED
    BY <1>1, <1>2, <1>3

\* Some of the amounts are a number, and no more than what is held.
LEMMA HeldPart ==
  ASSUME NEW p, TableOk(p), NEW m, NEW S, S \subseteq ItemsOf(p, m)
  PROVE  /\ HeldIn(p, m) \in Nat
         /\ SumFunctionOnSet(Amounts(p), S) \in Nat
         /\ SumFunctionOnSet(Amounts(p), S) <= HeldIn(p, m)
  <1>1. IsFiniteSet(ItemsOf(p, m)) /\ \A k \in ItemsOf(p, m) : Amounts(p)[k] \in Nat
    BY ItemsFinite
  <1>2. IsFiniteSet(S) /\ \A k \in S : Amounts(p)[k] \in Nat
    BY <1>1, FS_Subset
  <1>. QED
    BY <1>1, <1>2, SumNat, SumPart DEF HeldIn

\* An item is a part of what is held.
LEMMA HeldNat ==
  ASSUME NEW p, TableOk(p), NEW m
  PROVE  /\ HeldIn(p, m) \in Nat
         /\ \A k \in DOMAIN p : p[k].merch = m => p[k].amount \in Nat /\ p[k].amount <= HeldIn(p, m)
  <1>1. HeldIn(p, m) \in Nat
    BY HeldPart
  <1>2. ASSUME NEW k \in DOMAIN p, p[k].merch = m
        PROVE  p[k].amount \in Nat /\ p[k].amount <= HeldIn(p, m)
    <2>1. k \in ItemsOf(p, m)
      BY <1>2 DEF ItemsOf
    <2>2. HeldIn(p, m) = Amounts(p)[k] + SumFunctionOnSet(Amounts(p), ItemsOf(p, m) \ {k})
      BY <2>1, ItemsFinite, SumTake DEF HeldIn
    <2>3. SumFunctionOnSet(Amounts(p), ItemsOf(p, m) \ {k}) \in Nat
      BY HeldPart
    <2>4. Amounts(p)[k] = p[k].amount /\ p[k].amount \in Nat
      BY ItemsFinite
    <2>5. \A a, b \in Nat : a <= a + b
      OBVIOUS
    <2>. QED
      BY <2>2, <2>3, <2>4, <2>5
  <1>. QED
    BY <1>1, <1>2

\* An item gets another amount.
Changes(p, q, k, a) ==
  /\ Len(q) = Len(p) /\ DOMAIN q = DOMAIN p
  /\ \A j \in DOMAIN p :
       /\ q[j].merch = p[j].merch /\ q[j].bucket = p[j].bucket
       /\ q[j].amount = IF j = k THEN a ELSE p[j].amount

Updated(p, q, k, a) == q = [p EXCEPT ![k].amount = a]
LEMMA TableChange ==
  ASSUME NEW p, TableOk(p), NEW k \in DOMAIN p, NEW a \in Nat, NEW q, Updated(p, q, k, a)
  PROVE  /\ TableOk(q)
         /\ Changes(p, q, k, a)
         /\ \A x : HeldIn(q, x) = HeldIn(p, x) + (IF p[k].merch = x THEN a - p[k].amount ELSE 0)
  <1>. PICK M, B : p \in Seq(Entry(M, B))
    BY DEF TableOk
  <1> DEFINE n == Len(p)
             e == [p[k] EXCEPT !.amount = a]
  <1>1. n \in Nat /\ DOMAIN p = 1 .. n /\ \A j \in 1 .. n : p[j] \in Entry(M, B)
    BY LenProperties, ElementOfSeq
  <1>2. e \in Entry(M, B) /\ e.amount = a /\ e.merch = p[k].merch /\ e.bucket = p[k].bucket
    BY <1>1 DEF Entry
  <1>3. q = [p EXCEPT ![k] = e]
    BY DEF Updated
  <1> HIDE DEF e
  <1>4. q \in [1 .. n -> Entry(M, B)] /\ \A j \in 1 .. n : q[j] = IF j = k THEN e ELSE p[j]
    BY <1>3, <1>1, <1>2
  <1>5. q \in Seq(Entry(M, B)) /\ Len(q) = n
    BY <1>1, <1>4, SequenceIs
  <1>6. TableOk(q) /\ DOMAIN q = DOMAIN p
    BY <1>1, <1>4, <1>5 DEF TableOk
  <1>7. Changes(p, q, k, a)
    BY <1>1, <1>2, <1>4, <1>5, <1>6 DEF Changes
  <1>8. ASSUME NEW x
        PROVE  HeldIn(q, x) = HeldIn(p, x) + (IF p[k].merch = x THEN a - p[k].amount ELSE 0)
    <2>1. ItemsOf(q, x) = ItemsOf(p, x)
      BY <1>7 DEF ItemsOf, Changes
    <2>2. /\ IsFiniteSet(ItemsOf(p, x)) /\ ItemsOf(p, x) \subseteq DOMAIN p
          /\ HeldIn(p, x) \in Nat
          /\ \A j \in DOMAIN p : Amounts(p)[j] = p[j].amount /\ Amounts(p)[j] \in Int
          /\ \A j \in DOMAIN p : Amounts(q)[j] = q[j].amount /\ Amounts(q)[j] \in Int
      BY <1>6, ItemsFinite, HeldNat
    <2>3. \A j \in DOMAIN p : j # k => Amounts(p)[j] = Amounts(q)[j]
      BY <1>7, <2>2 DEF Changes
    <2>4. CASE p[k].merch = x
      <3>1. k \in ItemsOf(p, x)
        BY <2>4 DEF ItemsOf
      <3>2. DifferAt(Amounts(p), Amounts(q), ItemsOf(p, x), k)
        BY <2>2, <2>3 DEF DifferAt
      <3>3. HeldIn(q, x) = HeldIn(p, x) - Amounts(p)[k] + Amounts(q)[k]
        BY <2>1, <2>2, <3>1, <3>2, SumChange DEF HeldIn
      <3>4. Amounts(q)[k] = a /\ Amounts(p)[k] = p[k].amount /\ p[k].amount \in Int
        BY <1>7, <2>2 DEF Changes
      <3>. QED
        BY <2>2, <2>4, <3>3, <3>4
    <2>5. CASE p[k].merch # x
      <3>1. k \notin ItemsOf(p, x)
        BY <2>5 DEF ItemsOf
      <3>2. HeldIn(q, x) = HeldIn(p, x)
        BY <2>1, <2>2, <2>3, <3>1, SumSame DEF HeldIn
      <3>. QED
        BY <2>2, <2>5, <3>2
    <2>. QED
      BY <2>4, <2>5
  <1>. QED
    BY <1>6, <1>7, <1>8

\* One item more or less: q is p without its item k.
LEMMA HeldShift ==
  ASSUME NEW p, TableOk(p), NEW q, TableOk(q), NEW k \in DOMAIN p, Removes(p, q, k), NEW x
  PROVE  HeldIn(p, x) = HeldIn(q, x) + (IF p[k].merch = x THEN p[k].amount ELSE 0)
  <1> DEFINE n == Len(p)
             h == [j \in 1 .. (n - 1) |-> IF j < k THEN j ELSE j + 1]
  <1>1. /\ n \in Nat /\ k \in 1 .. n /\ DOMAIN p = 1 .. n /\ DOMAIN q = 1 .. (n - 1)
        /\ \A j \in 1 .. (n - 1) : q[j] = IF j < k THEN p[j] ELSE p[j + 1]
    BY TableShape DEF Removes
  <1>2. \A j \in 1 .. (n - 1) : h[j] \in 1 .. n /\ h[j] # k /\ q[j] = p[h[j]]
    BY <1>1
  <1>3. \A i, j \in 1 .. (n - 1) : h[i] = h[j] => i = j
    BY <1>1
  <1>4. \A z \in 1 .. n : z # k => \E j \in 1 .. (n - 1) : h[j] = z
    <2>1. ASSUME NEW z \in 1 .. n, z # k
          PROVE  \E j \in 1 .. (n - 1) : h[j] = z
      <3>1. CASE z < k
        <4>1. z \in 1 .. (n - 1) /\ h[z] = z
          BY <1>1, <3>1
        <4>. QED
          BY <4>1
      <3>2. CASE z > k
        <4>1. z - 1 \in 1 .. (n - 1) /\ h[z - 1] = z
          BY <1>1, <3>2
        <4>. QED
          BY <4>1
      <3>. QED
        BY <1>1, <2>1, <3>1, <3>2
    <2>. QED
      BY <2>1
  <1> HIDE DEF h
  <1> DEFINE S == ItemsOf(q, x)
             T == ItemsOf(p, x) \ {k}
  <1>5. /\ IsFiniteSet(S) /\ S \subseteq 1 .. (n - 1) /\ IsFiniteSet(ItemsOf(p, x))
        /\ \A j \in 1 .. (n - 1) : Amounts(q)[j] = q[j].amount /\ Amounts(q)[j] \in Int
        /\ \A j \in 1 .. n : Amounts(p)[j] = p[j].amount /\ Amounts(p)[j] \in Nat
    BY <1>1, ItemsFinite
  <1>6. SumFunctionOnSet(Amounts(q), S) = SumFunctionOnSet(Amounts(p), T)
    <2>1. \A j \in S : h[j] \in T
      BY <1>1, <1>2, <1>5 DEF ItemsOf
    <2>2. \A j \in S : Amounts(q)[j] \in Int /\ Amounts(p)[h[j]] = Amounts(q)[j]
      BY <1>2, <1>5
    <2>3. ASSUME NEW z \in T
          PROVE  \E j \in S : h[j] = z
      <3>1. z \in 1 .. n /\ z # k /\ p[z].merch = x
        BY <1>1 DEF ItemsOf
      <3>2. PICK j \in 1 .. (n - 1) : h[j] = z
        BY <1>4, <3>1
      <3>3. q[j].merch = x /\ j \in DOMAIN q
        BY <1>1, <1>2, <3>1, <3>2
      <3>. QED
        BY <3>2, <3>3 DEF ItemsOf
    <2>4. \A i, j \in S : h[i] = h[j] => i = j
      BY <1>3, <1>5
    <2> DEFINE f == Amounts(q)
               g == Amounts(p)
    <2>5. \A j \in S : f[j] \in Int /\ h[j] \in T /\ g[h[j]] = f[j]
      BY <2>1, <2>2
    <2>6. IsFiniteSet(S) /\ \A z \in T : \E j \in S : h[j] = z
      BY <1>5, <2>3
    <2> HIDE DEF S, T, f, g
    <2>7. SumFunctionOnSet(f, S) = SumFunctionOnSet(g, T)
      BY <2>4, <2>5, <2>6, SumMatched
    <2>. QED
      BY <2>7 DEF f, g
  <1>7. HeldIn(q, x) = SumFunctionOnSet(Amounts(p), T) /\ HeldIn(q, x) \in Nat
    BY <1>6, HeldNat DEF HeldIn
  <1>8. CASE p[k].merch = x
    <2>1. k \in ItemsOf(p, x)
      BY <1>8 DEF ItemsOf
    <2>2. HeldIn(p, x) = Amounts(p)[k] + SumFunctionOnSet(Amounts(p), T)
      BY <2>1, ItemsFinite, SumTake DEF HeldIn
    <2>3. Amounts(p)[k] = p[k].amount /\ p[k].amount \in Nat
      BY <1>1, <1>5
    <2> HIDE DEF T
    <2>. QED
      BY <1>7, <1>8, <2>2, <2>3
  <1>9. CASE p[k].merch # x
    <2>1. T = ItemsOf(p, x)
      BY <1>9 DEF ItemsOf
    <2>. QED
      BY <1>7, <1>9, <2>1 DEF HeldIn
  <1>. QED
    BY <1>8, <1>9

LEMMA TableRemove ==
  ASSUME NEW p, TableOk(p), NEW k \in DOMAIN p
  PROVE  LET q == RemoveAt(p, k) IN
         /\ TableOk(q)
         /\ Removes(p, q, k)
         /\ \A x : HeldIn(p, x) = HeldIn(q, x) + (IF p[k].merch = x THEN p[k].amount ELSE 0)
  <1>. PICK M, B : p \in Seq(Entry(M, B))
    BY DEF TableOk
  <1>1. k \in 1 .. Len(p)
    BY TableShape
  <1>2. RemoveAt(p, k) \in Seq(Entry(M, B)) /\ Removes(p, RemoveAt(p, k), k)
    BY <1>1, RemovedIs
  <1>3. TableOk(RemoveAt(p, k))
    BY <1>2 DEF TableOk
  <1>. QED
    BY <1>2, <1>3, HeldShift

LEMMA TableInsert ==
  ASSUME NEW p, TableOk(p), NEW m, NEW b, NEW a \in Nat, NEW k \in 1 .. (Len(p) + 1)
  PROVE  LET e == [merch |-> m, bucket |-> b, amount |-> a]
             q == InsertAt(p, k, e)
         IN  /\ TableOk(q)
             /\ Inserts(p, q, k, e)
             /\ \A x : HeldIn(q, x) = HeldIn(p, x) + (IF m = x THEN a ELSE 0)
  <1>. PICK M, B : p \in Seq(Entry(M, B))
    BY DEF TableOk
  <1> DEFINE e == [merch |-> m, bucket |-> b, amount |-> a]
             q == InsertAt(p, k, e)
             S == Entry(M \cup {m}, B \cup {b})
  <1>1. e \in S /\ e.merch = m /\ e.amount = a
    BY DEF Entry
  <1>2. p \in Seq(S)
    <2>1. Entry(M, B) \subseteq S
      BY DEF Entry
    <2>. QED
      BY <2>1, SeqMonotonic
  <1> HIDE DEF e, S
  <1>3. q \in Seq(S) /\ Inserts(p, q, k, e)
    BY <1>1, <1>2, InsertedIs
  <1> HIDE DEF q
  <1>4. TableOk(q)
    BY <1>3 DEF TableOk, S
  <1>5. Removes(q, p, k) /\ k \in DOMAIN q /\ q[k] = e
    <2>1. Len(p) \in Nat /\ Len(q) \in Nat /\ DOMAIN q = 1 .. Len(q)
      BY <1>4, TableShape
    <2>. QED
      BY <1>3, <2>1 DEF Inserts, Removes
  <1>6. \A x : HeldIn(q, x) = HeldIn(p, x) + (IF m = x THEN a ELSE 0)
    BY <1>1, <1>4, <1>5, HeldShift
  <1>. QED
    BY <1>3, <1>4, <1>6 DEF q, e

\* An empty table.
LEMMA HeldNothing ==
  /\ TableOk(<< >>)
  /\ \A m : HeldIn(<< >>, m) = 0
  <1>1. DOMAIN << >> = {} /\ << >> \in Seq(Entry({}, {}))
    BY EmptySeq
  <1>2. TableOk(<< >>)
    BY <1>1 DEF TableOk
  <1>3. \A m : ItemsOf(<< >>, m) = {}
    BY <1>1 DEF ItemsOf
  <1>. QED
    BY <1>2, <1>3, SumEmpty DEF HeldIn

\* What hash_table_lookup finds in the table of cart i is an item of m.
LEMMA FoundIs ==
  ASSUME NEW i, NEW m
  PROVE  /\ Found(i, m) # {} => /\ Item(i, m) \in DOMAIN Products(i)
                                /\ Products(i)[Item(i, m)].merch = m
                                /\ Lookup(i, m) = Products(i)[Item(i, m)].amount
         /\ Found(i, m) = {} => Lookup(i, m) = 0
  <1>1. Found(i, m) # {} => Item(i, m) \in Found(i, m)
    BY DEF Item
  <1>2. \A k \in Found(i, m) : k \in DOMAIN Products(i) /\ Products(i)[k].merch = m
    BY DEF Found, Alike
  <1>. QED
    BY <1>1, <1>2 DEF Lookup

LEMMA LookupPart ==
  ASSUME NEW i, TableOk(Products(i)), NEW m
  PROVE  /\ Lookup(i, m) \in Nat
         /\ Lookup(i, m) <= HeldIn(Products(i), m)
         /\ HeldIn(Products(i), m) \in Nat
  BY FoundIs, HeldNat

LEMMA PositionIn ==
  ASSUME NEW i, TableOk(Products(i)), NEW m
  PROVE  Position(i, m) \in 1 .. (Len(Products(i)) + 1)
  <1> DEFINE p == Products(i)
             S == {k \in DOMAIN p :
                     \/ p[k].bucket < Bucket(m)
                     \/ p[k].bucket = Bucket(m) /\ \A j \in Alike(i, m) : k < j}
  <1>1. Len(p) \in Nat /\ DOMAIN p = 1 .. Len(p) /\ IsFiniteSet(DOMAIN p)
    BY TableShape
  <1>2. Cardinality(DOMAIN p) = Len(p)
    <2>1. Cardinality(1 .. Len(p)) = IF 1 > Len(p) THEN 0 ELSE Len(p) - 1 + 1
      BY <1>1, FS_Interval
    <2>. QED
      BY <1>1, <2>1
  <1>3. S \in SUBSET DOMAIN p
    OBVIOUS
  <1>4. Position(i, m) = 1 + Cardinality(S)
    BY DEF Position
  <1> HIDE DEF p, S
  <1>5. Cardinality(S) \in Nat /\ Cardinality(S) <= Len(p)
    BY <1>1, <1>2, <1>3, FS_Subset, FS_CardinalityType
  <1>. QED
    BY <1>1, <1>4, <1>5 DEF p

\* cart_add_merch makes table q of that of cart i.
NewItem(m, amount) == [merch |-> m, bucket |-> Bucket(m), amount |-> amount]
TablePut(i, m, amount) ==
  IF Found(i, m) # {} THEN [Products(i) EXCEPT ![Item(i, m)].amount = @ + amount]
  ELSE InsertAt(Products(i), Position(i, m), NewItem(m, amount))
IsPut(i, q, m, amount) ==
  LET p == Products(i) IN
  \/ /\ Found(i, m) # {}
     /\ \E k \in DOMAIN p : p[k].merch = m /\ Changes(p, q, k, p[k].amount + amount)
  \/ /\ Found(i, m) = {}
     /\ \E k \in 1 .. (Len(p) + 1) : Inserts(p, q, k, NewItem(m, amount))

LEMMA PutTable ==
  ASSUME NEW i, TableOk(Products(i)), NEW m, NEW amount \in Nat
  PROVE  LET p == Products(i)
             q == TablePut(i, m, amount)
         IN  /\ TableOk(q)
             /\ IsPut(i, q, m, amount)
             /\ \A x : HeldIn(q, x) = HeldIn(p, x) + (IF m = x THEN amount ELSE 0)
  <1> DEFINE p == Products(i)
             q == TablePut(i, m, amount)
  <1>1. CASE Found(i, m) # {}
    <2> DEFINE k == Item(i, m)
    <2>1. k \in DOMAIN p /\ p[k].merch = m
      BY <1>1, FoundIs
    <2>2. q = [p EXCEPT ![k].amount = p[k].amount + amount]
      BY <1>1, <2>1 DEF TablePut
    <2> DEFINE a == p[k].amount + amount
    <2> HIDE DEF k
    <2>3. p[k].amount \in Nat /\ a \in Nat /\ a - p[k].amount = amount
      BY <2>1, TableShape
    <2> HIDE DEF p, q
    <2>4. Updated(p, q, k, a) /\ TableOk(p)
      BY <2>2 DEF p, Updated
    <2> HIDE DEF a
    <2>5. /\ TableOk(q)
          /\ Changes(p, q, k, a)
          /\ \A x : HeldIn(q, x) = HeldIn(p, x) + (IF p[k].merch = x THEN a - p[k].amount ELSE 0)
      BY <2>1, <2>3, <2>4, TableChange
    <2>6. IsPut(i, q, m, amount)
      BY <1>1, <2>1, <2>5 DEF IsPut, p, a
    <2>. QED
      BY <2>1, <2>3, <2>5, <2>6 DEF p, q
  <1>2. CASE Found(i, m) = {}
    <2>1. q = InsertAt(p, Position(i, m), NewItem(m, amount)) /\ Position(i, m) \in 1 .. (Len(p) + 1)
      BY <1>2, PositionIn DEF TablePut
    <2>2. /\ TableOk(q)
          /\ Inserts(p, q, Position(i, m), NewItem(m, amount))
          /\ \A x : HeldIn(q, x) = HeldIn(p, x) + (IF m = x THEN amount ELSE 0)
      BY <2>1, TableInsert DEF NewItem
    <2>3. IsPut(i, q, m, amount)
      BY <1>2, <2>1, <2>2 DEF IsPut
    <2>. QED
      BY <2>2, <2>3
  <1>. QED
    BY <1>1, <1>2

\* cart_remove_merch, when the item is found.
Taken(i, m, amount) == IF Lookup(i, m) <= amount THEN Lookup(i, m) ELSE amount
TableTaken(i, m, amount) ==
  IF Lookup(i, m) <= amount THEN RemoveAt(Products(i), Item(i, m))
  ELSE [Products(i) EXCEPT ![Item(i, m)].amount = @ - amount]
IsTaken(i, q, m, amount) ==
  LET p == Products(i) IN
  \E k \in DOMAIN p :
    /\ p[k].merch = m
    /\ Removes(p, q, k) \/ (p[k].amount > amount /\ Changes(p, q, k, p[k].amount - amount))

LEMMA TakenTable ==
  ASSUME NEW i, TableOk(Products(i)), NEW m, Found(i, m) # {}, NEW amount \in Nat
  PROVE  LET p == Products(i)
             q == TableTaken(i, m, amount)
         IN  /\ TableOk(q)
             /\ IsTaken(i, q, m, amount)
             /\ Taken(i, m, amount) \in Nat
             /\ Taken(i, m, amount) <= HeldIn(p, m)
             /\ \A x : HeldIn(q, x) = HeldIn(p, x) - (IF m = x THEN Taken(i, m, amount) ELSE 0)
  <1> DEFINE p == Products(i)
             q == TableTaken(i, m, amount)
             k == Item(i, m)
             a == p[k].amount
  <1>1. k \in DOMAIN p /\ p[k].merch = m /\ Lookup(i, m) = a
    BY FoundIs
  <1>2. a \in Nat /\ a <= HeldIn(p, m) /\ \A x : HeldIn(p, x) \in Nat
    BY <1>1, HeldNat
  <1>3. CASE a <= amount
    <2>1. q = RemoveAt(p, k) /\ Taken(i, m, amount) = a
      BY <1>1, <1>3 DEF TableTaken, Taken
    <2> HIDE DEF k, a
    <2>2. /\ TableOk(q)
          /\ Removes(p, q, k)
          /\ \A x : HeldIn(p, x) = HeldIn(q, x) + (IF p[k].merch = x THEN p[k].amount ELSE 0)
      BY <1>1, <2>1, TableRemove
    <2>3. \A x : HeldIn(q, x) \in Nat
      BY <2>2, HeldNat
    <2>4. \A x : HeldIn(q, x) = HeldIn(p, x) - (IF m = x THEN a ELSE 0)
      BY <1>1, <1>2, <2>2, <2>3 DEF a
    <2>5. IsTaken(i, q, m, amount)
      BY <1>1, <2>2 DEF IsTaken
    <2>. QED
      BY <1>2, <2>1, <2>2, <2>4, <2>5
  <1>4. CASE a > amount
    <2> DEFINE b == a - amount
    <2>1. Taken(i, m, amount) = amount
      BY <1>1, <1>2, <1>4 DEF Taken
    <2>2. b \in Nat /\ b - p[k].amount = - amount /\ a > amount /\ amount <= HeldIn(p, m)
      BY <1>2, <1>4
    <2>3. Updated(p, q, k, b) /\ TableOk(p)
      BY <1>1, <1>2, <1>4 DEF TableTaken, Updated
    <2> HIDE DEF k, p, q, b
    <2>4. /\ TableOk(q)
          /\ Changes(p, q, k, b)
          /\ \A x : HeldIn(q, x) = HeldIn(p, x) + (IF p[k].merch = x THEN b - p[k].amount ELSE 0)
      BY <1>1, <2>2, <2>3, TableChange
    <2>5. IsTaken(i, q, m, amount)
      BY <1>1, <2>2, <2>4 DEF IsTaken, p, b
    <2> HIDE DEF a
    <2>6. \A x : HeldIn(q, x) = HeldIn(p, x) - (IF m = x THEN amount ELSE 0)
      <3>1. \A x : m = x => HeldIn(q, x) = HeldIn(p, x) + (- amount)
        BY <1>1, <2>2, <2>4
      <3>2. \A x : m # x => HeldIn(q, x) = HeldIn(p, x) + 0
        BY <1>1, <2>4
      <3>. QED
        BY <1>2, <3>1, <3>2
    <2>. QED
      BY <1>2, <2>1, <2>2, <2>4, <2>5, <2>6 DEF p, q
  <1>. QED
    BY <1>2, <1>3, <1>4

\* The items of a table after such a change.
SameItem(e, f) == e.merch = f.merch /\ e.bucket = f.bucket
LEMMA PutItems ==
  ASSUME NEW i, TableOk(Products(i)), NEW q, TableOk(q), NEW m, NEW amount, IsPut(i, q, m, amount)
  PROVE  \A k \in DOMAIN q :
           \/ q[k].merch = m /\ q[k].bucket = Bucket(m)
           \/ \E j \in DOMAIN Products(i) : SameItem(q[k], Products(i)[j])
  <1> DEFINE p == Products(i)
  <1>1. /\ Len(p) \in Nat /\ DOMAIN p = 1 .. Len(p)
        /\ Len(q) \in Nat /\ DOMAIN q = 1 .. Len(q)
    BY TableShape
  <1>2. ASSUME NEW k, Changes(p, q, k, p[k].amount + amount)
        PROVE  \A z \in DOMAIN q : \E j \in DOMAIN p : SameItem(q[z], p[j])
    BY <1>2 DEF Changes, SameItem
  <1>3. ASSUME NEW k \in 1 .. (Len(p) + 1), Inserts(p, q, k, NewItem(m, amount)), NEW z \in DOMAIN q
        PROVE  \/ q[z].merch = m /\ q[z].bucket = Bucket(m)
               \/ \E j \in DOMAIN p : SameItem(q[z], p[j])
    <2>1. q[z] = IF z < k THEN p[z] ELSE IF z = k THEN NewItem(m, amount) ELSE p[z - 1]
      BY <1>1, <1>3 DEF Inserts
    <2>2. z \in 1 .. (Len(p) + 1) /\ (z < k => z \in DOMAIN p) /\ (z > k => z - 1 \in DOMAIN p)
      BY <1>1, <1>3 DEF Inserts
    <2>3. NewItem(m, amount).merch = m /\ NewItem(m, amount).bucket = Bucket(m)
      BY DEF NewItem
    <2>. QED
      BY <1>3, <2>1, <2>2, <2>3 DEF SameItem
  <1>. QED
    BY <1>2, <1>3 DEF IsPut

LEMMA TakenItems ==
  ASSUME NEW i, TableOk(Products(i)), NEW q, TableOk(q), NEW m, NEW amount, IsTaken(i, q, m, amount)
  PROVE  \A k \in DOMAIN q : \E j \in DOMAIN Products(i) : SameItem(q[k], Products(i)[j])
  <1> DEFINE p == Products(i)
  <1>1. /\ Len(p) \in Nat /\ DOMAIN p = 1 .. Len(p)
        /\ Len(q) \in Nat /\ DOMAIN q = 1 .. Len(q)
    BY TableShape
  <1>2. ASSUME NEW k, Changes(p, q, k, p[k].amount - amount)
        PROVE  \A z \in DOMAIN q : \E j \in DOMAIN p : SameItem(q[z], p[j])
    BY <1>2 DEF Changes, SameItem
  <1>3. ASSUME NEW k \in DOMAIN p, Removes(p, q, k), NEW z \in DOMAIN q
        PROVE  \E j \in DOMAIN p : SameItem(q[z], p[j])
    <2>1. z \in 1 .. (Len(p) - 1) /\ q[z] = IF z < k THEN p[z] ELSE p[z + 1]
      BY <1>1, <1>3 DEF Removes
    <2>2. z \in DOMAIN p /\ z + 1 \in DOMAIN p
      BY <1>1, <2>1
    <2>. QED
      BY <2>1, <2>2 DEF SameItem
  <1>. QED
    BY <1>2, <1>3 DEF IsTaken

\* What S and T do to the cart at i, which is found by its id.
LEMMA PutIs ==
  ASSUME NEW i \in DOMAIN carts, Find(carts[i].cart_id) = i, NEW m, NEW amount,
         PutMerch(i, m, amount)
  PROVE  /\ carts' = [carts EXCEPT ![i].products = TablePut(i, m, amount)]
         /\ merch' = [merch EXCEPT ![m].stock_in_cart = @ + amount]
         /\ UNCHANGED <<warehouse, shelves, next_cart_id, no_carts_removed>>
  BY DEF PutMerch, CartAddMerch, TablePut, NewItem, InCartWith, Products

LEMMA TakeIs ==
  ASSUME NEW i \in DOMAIN carts, Find(carts[i].cart_id) = i, NEW k, NEW amount,
         TakeMerch(i, k, amount)
  PROVE  LET m == Products(i)[k].merch IN
         /\ Found(i, m) # {}
         /\ carts' = [carts EXCEPT ![i].products = TableTaken(i, m, amount)]
         /\ merch' = Restrict([merch EXCEPT ![m].stock_in_cart = @ - Taken(i, m, amount)],
                              Reached(warehouse, carts'))
         /\ UNCHANGED <<warehouse, shelves, next_cart_id, no_carts_removed>>
  BY DEF TakeMerch, CartRemoveMerch, TableTaken, Taken

-----------------------------------------------------------------------------
(* A cart is found by its id.                                              *)

LEMMA CartsStep ==
  ASSUME CartsInv, [Next]_vars
  PROVE  CartsInv'
  <1>. PICK X : CartsIn(X)
    BY DEF CartsInv
  <1>1. \A i \in DOMAIN carts : Find(carts[i].cart_id) = i
    BY FindsChosen DEF CartsInv
  <1>2. ASSUME NEW m, NEW n, NEW a, NEW p,
               CreateMerch(m, n, a, p) \/ EditMerch(m, n, a, p)
        PROVE  CartsInv'
    BY <1>2, CartsSame DEF CreateMerch, EditMerch, MerchInsert, MerchEdit
  <1>3. ASSUME NEW m, NEW amount, NEW s, AddStock(m, amount, s) \/ RemoveMerch(m)
        PROVE  CartsInv'
    BY <1>3, CartsSame DEF AddStock, RemoveMerch, MerchReplenish, ProductDestroy
  <1>4. ASSUME CreateCart
        PROVE  CartsInv'
    BY <1>4, CartsCreate DEF CreateCart
  <1>5. ASSUME NEW i \in DOMAIN carts, RemoveCart(i) \/ Checkout(i)
        PROVE  CartsInv'
    BY <1>1, <1>5, CartsRemove DEF RemoveCart, CartSpecDestroy, Checkout, CartCheckout
  <1>6. ASSUME NEW i \in DOMAIN carts, NEW m, NEW amount, PutMerch(i, m, amount)
        PROVE  CartsInv'
    <2>1. /\ carts' = [carts EXCEPT ![i].products = TablePut(i, m, amount)]
          /\ UNCHANGED <<no_carts_removed, next_cart_id>>
      BY <1>1, <1>6, PutIs
    <2>. QED
      BY <2>1, CartsChange
  <1>7. ASSUME NEW i \in DOMAIN carts, NEW k, NEW amount, TakeMerch(i, k, amount)
        PROVE  CartsInv'
    <2>1. /\ carts' = [carts EXCEPT ![i].products = TableTaken(i, Products(i)[k].merch, amount)]
          /\ UNCHANGED <<no_carts_removed, next_cart_id>>
      BY <1>1, <1>7, TakeIs
    <2>. QED
      BY <2>1, CartsChange
  <1>8. ASSUME SwitchUser \/ UNCHANGED vars
        PROVE  CartsInv'
    BY <1>8, CartsSame DEF SwitchUser, vars, store
  <1>9. ASSUME NEW how, Ends(how)
        PROVE  CartsInv'
    BY <1>9, CartsNone DEF Ends, CartsInv, CartsIn, CartsFound
  <1>. QED
    BY <1>2, <1>3, <1>4, <1>5, <1>6, <1>7, <1>8, <1>9 DEF Next, Crash, HeapStops, Quit

\* The cart with the id of the one that a user has chosen is that cart, through
\* any number of carts made, removed and checked out.
THEOREM CartsAreFound == Spec => []CartsFound
  <1>1. Init => CartsInv
    BY CartsNone DEF Init, WarehouseInit, CartsInv, CartsIn, CartsFound
  <1>2. CartsInv => CartsFound
    BY DEF CartsInv
  <1>. QED
    BY <1>1, <1>2, CartsStep, PTL DEF Spec

-----------------------------------------------------------------------------
(* Merch and shelves.                                                      *)

Loc(A) == [shelf_name : ShelfNames, amount : A]
LocsOk(locs) == (\E A : locs \in Seq(Loc(A))) /\ NamesOnce(locs)

MerchFields == {"name", "address", "price", "total_stock", "stock_in_cart", "locs"}
\* A merch that was removed, and is still in a cart, has no shelves.
MerchOk ==
  \A m \in DOMAIN merch :
    /\ DOMAIN merch[m] = MerchFields
    /\ LocsOk(merch[m].locs)
    /\ m \notin Range(warehouse) => merch[m].locs = << >>

\* No item of a cart leads to memory that was freed.
ItemsOk ==
  \A i \in DOMAIN carts :
    /\ TableOk(carts[i].products)
    /\ \A k \in DOMAIN carts[i].products : carts[i].products[k].merch \in DOMAIN merch

ShelvesInv == MerchOk /\ ItemsOk /\ ShelvesAgree

\* The shelves of a merch as a sequence of records.
LEMMA LocsShape ==
  ASSUME NEW A, NEW locs \in Seq(Loc(A))
  PROVE  /\ Len(locs) \in Nat
         /\ DOMAIN locs = 1 .. Len(locs)
         /\ \A k \in 1 .. Len(locs) : locs[k] \in Loc(A) /\ locs[k].shelf_name \in ShelfNames
         /\ NamesIn(locs) = {locs[k].shelf_name : k \in 1 .. Len(locs)}
  <1>1. Len(locs) \in Nat /\ DOMAIN locs = 1 .. Len(locs)
    BY LenProperties
  <1>2. \A k \in 1 .. Len(locs) : locs[k] \in Loc(A)
    BY ElementOfSeq
  <1>3. \A k \in 1 .. Len(locs) : locs[k].shelf_name \in ShelfNames
    BY <1>2 DEF Loc
  <1>4. NamesIn(locs) = {locs[k].shelf_name : k \in 1 .. Len(locs)}
    BY <1>1 DEF NamesIn, ToSet
  <1>. QED
    BY <1>1, <1>2, <1>3, <1>4

\* replenish: shelf s is added once.
LEMMA LocsWithOk ==
  ASSUME NEW locs, LocsOk(locs), NEW s \in ShelfNames, NEW amount
  PROVE  /\ LocsOk(LocsWith(locs, amount, s))
         /\ NamesIn(LocsWith(locs, amount, s)) = NamesIn(locs) \cup {s}
  <1>. PICK A : locs \in Seq(Loc(A))
    BY DEF LocsOk
  <1>1. /\ Len(locs) \in Nat
        /\ DOMAIN locs = 1 .. Len(locs)
        /\ \A k \in 1 .. Len(locs) : locs[k] \in Loc(A) /\ locs[k].shelf_name \in ShelfNames
        /\ NamesIn(locs) = {locs[k].shelf_name : k \in 1 .. Len(locs)}
    BY LocsShape
  <1>2. CASE s \in NamesIn(locs)
    <2> DEFINE more(k) == locs[k].amount + (IF locs[k].shelf_name = s THEN amount ELSE 0)
               B == {more(k) : k \in 1 .. Len(locs)}
               loc(k) == [locs[k] EXCEPT !.amount = more(k)]
    <2>1. LocsWith(locs, amount, s) = [k \in 1 .. Len(locs) |-> loc(k)]
      BY <1>1, <1>2 DEF LocsWith
    <2>2. \A k \in 1 .. Len(locs) : loc(k) \in Loc(B) /\ loc(k).shelf_name = locs[k].shelf_name
      BY <1>1 DEF Loc
    <2> HIDE DEF more, loc, B
    <2>3. /\ LocsWith(locs, amount, s) \in Seq(Loc(B))
          /\ Len(LocsWith(locs, amount, s)) = Len(locs)
      BY <1>1, <2>1, <2>2, IsASeq, LenProperties
    <2>4. NamesOnce(LocsWith(locs, amount, s))
      BY <1>1, <2>1, <2>2 DEF NamesOnce, LocsOk
    <2>5. NamesIn(LocsWith(locs, amount, s)) = NamesIn(locs)
      <3>1. NamesIn(LocsWith(locs, amount, s))
              = {LocsWith(locs, amount, s)[k].shelf_name : k \in 1 .. Len(locs)}
        BY <2>3, LocsShape
      <3>2. \A k \in 1 .. Len(locs) : LocsWith(locs, amount, s)[k].shelf_name = locs[k].shelf_name
        BY <2>1, <2>2
      <3>. QED
        BY <1>1, <3>1, <3>2
    <2>. QED
      BY <1>2, <2>3, <2>4, <2>5 DEF LocsOk
  <1>3. CASE s \notin NamesIn(locs)
    <2> DEFINE new == <<[shelf_name |-> s, amount |-> amount]>>
               B == A \cup {amount}
    <2>1. LocsWith(locs, amount, s) = new \o locs
      BY <1>3 DEF LocsWith
    <2>2. locs \in Seq(Loc(B))
      <3>1. Loc(A) \subseteq Loc(B)
        BY DEF Loc
      <3>. QED
        BY <3>1, SeqMonotonic
    <2>3. new \in Seq(Loc(B)) /\ Len(new) = 1 /\ new[1].shelf_name = s
      BY DEF Loc
    <2> HIDE DEF new, B
    <2>4. /\ new \o locs \in Seq(Loc(B))
          /\ Len(new \o locs) = 1 + Len(locs)
          /\ \A k \in 1 .. (1 + Len(locs)) :
               (new \o locs)[k] = IF k <= 1 THEN new[k] ELSE locs[k - 1]
      <3>1. /\ new \o locs \in Seq(Loc(B))
            /\ Len(new \o locs) = Len(new) + Len(locs)
            /\ \A k \in 1 .. (Len(new) + Len(locs)) :
                 (new \o locs)[k] = IF k <= Len(new) THEN new[k] ELSE locs[k - Len(new)]
        BY <2>2, <2>3, ConcatProperties
      <3>. QED
        BY <2>3, <3>1
    <2>5. \A k \in 1 .. (1 + Len(locs)) :
            (new \o locs)[k].shelf_name = IF k = 1 THEN s ELSE locs[k - 1].shelf_name
      BY <1>1, <2>3, <2>4
    <2>6. DOMAIN (new \o locs) = 1 .. (1 + Len(locs))
      BY <2>4, LenProperties
    <2>7. NamesOnce(new \o locs)
      <3> DEFINE name(k) == (new \o locs)[k].shelf_name
      <3>1. \A k \in 1 .. Len(locs) : locs[k].shelf_name # s
        BY <1>1, <1>3
      <3>2. \A j, k \in 1 .. (1 + Len(locs)) : name(j) = name(k) => j = k
        <4>. SUFFICES ASSUME NEW j \in 1 .. (1 + Len(locs)), NEW k \in 1 .. (1 + Len(locs)),
                             name(j) = name(k)
                      PROVE  j = k
          OBVIOUS
        <4>0. /\ j # 1 => j - 1 \in 1 .. Len(locs)
              /\ k # 1 => k - 1 \in 1 .. Len(locs)
              /\ 1 \in 1 .. (1 + Len(locs))
          BY <1>1
        <4>1. /\ name(j) = IF j = 1 THEN s ELSE locs[j - 1].shelf_name
              /\ name(k) = IF k = 1 THEN s ELSE locs[k - 1].shelf_name
          BY <2>5
        <4> HIDE DEF name
        <4>2. CASE j = 1 \/ k = 1
          BY <3>1, <4>0, <4>1, <4>2
        <4>3. CASE j # 1 /\ k # 1
          <5>1. j - 1 = k - 1
            BY <1>1, <4>0, <4>1, <4>3 DEF NamesOnce, LocsOk
          <5>. QED
            BY <5>1
        <4>. QED
          BY <4>2, <4>3
      <3>. QED
        BY <2>6, <3>2 DEF NamesOnce
    <2>8. NamesIn(new \o locs) = NamesIn(locs) \cup {s}
      <3>1. NamesIn(new \o locs) = {(new \o locs)[k].shelf_name : k \in 1 .. (1 + Len(locs))}
        BY <2>4, LocsShape
      <3>2. \A k \in 1 .. Len(locs) : k + 1 \in 1 .. (1 + Len(locs)) /\ (k + 1) - 1 = k /\ k + 1 # 1
        BY <1>1
      <3>3. NamesIn(new \o locs) \subseteq NamesIn(locs) \cup {s}
        <4>. SUFFICES ASSUME NEW x \in NamesIn(new \o locs)
                      PROVE  x \in NamesIn(locs) \cup {s}
          OBVIOUS
        <4>1. PICK k \in 1 .. (1 + Len(locs)) : x = (new \o locs)[k].shelf_name
          BY <3>1
        <4>2. k # 1 => k - 1 \in 1 .. Len(locs)
          BY <1>1
        <4>3. x = IF k = 1 THEN s ELSE locs[k - 1].shelf_name
          BY <2>5, <4>1
        <4>. QED
          BY <1>1, <4>2, <4>3
      <3>4. NamesIn(locs) \subseteq NamesIn(new \o locs)
        <4>1. \A k \in 1 .. Len(locs) : (new \o locs)[k + 1].shelf_name = locs[k].shelf_name
          BY <2>5, <3>2
        <4>. SUFFICES ASSUME NEW k \in 1 .. Len(locs)
                      PROVE  locs[k].shelf_name \in NamesIn(new \o locs)
          BY <1>1
        <4>2. k + 1 \in 1 .. (1 + Len(locs)) /\ (new \o locs)[k + 1].shelf_name = locs[k].shelf_name
          BY <3>2, <4>1
        <4>. QED
          BY <3>1, <4>2
      <3>5. s \in NamesIn(new \o locs)
        <4>1. 1 \in 1 .. (1 + Len(locs))
          BY <1>1
        <4>. QED
          BY <2>5, <3>1, <4>1
      <3>. QED
        BY <3>3, <3>4, <3>5
    <2>. QED
      BY <2>1, <2>4, <2>7, <2>8 DEF LocsOk
  <1>. QED
    BY <1>2, <1>3

\* checkout gives up the first shelves, up to one that is kept.
LEMMA NoGivenUpExists ==
  ASSUME NEW locs, Len(locs) \in Nat, NEW a
  PROVE  LET n == NoGivenUp(locs, a) IN
         /\ n \in 0 .. Len(locs)
         /\ \A k \in 1 .. n : GivenUp(locs, a, k)
         /\ n = Len(locs) \/ ~GivenUp(locs, a, n + 1)
  <1> DEFINE S == {n \in 0 .. Len(locs) : n = Len(locs) \/ ~GivenUp(locs, a, n + 1)}
  <1>1. PICK n \in S : \A k \in S : ~(k < n)
    <2>1. IsWellFoundedOn(OpToRel(<, Nat), Nat)
      BY NatLessThanWellFounded
    <2>2. S \subseteq Nat /\ Len(locs) \in S
      OBVIOUS
    <2>3. \E x \in S : \A y \in S : ~(<<y, x>> \in OpToRel(<, Nat))
      BY <2>1, <2>2, WFMin
    <2>. QED
      BY <2>2, <2>3 DEF OpToRel
  <1>2. ASSUME NEW k \in 1 .. n
        PROVE  GivenUp(locs, a, k)
    <2>1. k - 1 \in 0 .. Len(locs) /\ k - 1 < n /\ k - 1 # Len(locs) /\ (k - 1) + 1 = k
      BY <1>1
    <2>. QED
      BY <1>1, <2>1
  <1>3. /\ \A k \in 1 .. n : GivenUp(locs, a, k)
        /\ n = Len(locs) \/ ~GivenUp(locs, a, n + 1)
    BY <1>1, <1>2
  <1>. QED
    BY <1>1, <1>3 DEF NoGivenUp

LEMMA LocsAfterOk ==
  ASSUME NEW locs, LocsOk(locs), NEW a
  PROVE  /\ LocsOk(LocsAfter(locs, a))
         /\ NamesIn(LocsAfter(locs, a)) = NamesIn(locs) \ NamesGivenUp(locs, a)
  <1>. PICK A : locs \in Seq(Loc(A))
    BY DEF LocsOk
  <1>1. /\ Len(locs) \in Nat
        /\ DOMAIN locs = 1 .. Len(locs)
        /\ \A k \in 1 .. Len(locs) : locs[k] \in Loc(A) /\ locs[k].shelf_name \in ShelfNames
        /\ NamesIn(locs) = {locs[k].shelf_name : k \in 1 .. Len(locs)}
    BY LocsShape
  <1> DEFINE n == NoGivenUp(locs, a)
             rest == locs[n + 1].amount - (Sold(locs, a) - Upto(locs, n))
             B == A \cup {rest}
             left == LocsAfter(locs, a)
             loc(k) == IF k = 1 THEN [locs[n + 1] EXCEPT !.amount = rest] ELSE locs[n + k]
  <1>2. n \in 0 .. Len(locs)
    BY <1>1, NoGivenUpExists
  <1>3. left = [k \in 1 .. (Len(locs) - n) |-> loc(k)]
    BY DEF LocsAfter
  <1>4. NamesGivenUp(locs, a) = {locs[k].shelf_name : k \in 1 .. n}
    BY DEF NamesGivenUp
  <1> HIDE DEF n, rest, left
  <1>5. \A k \in 1 .. (Len(locs) - n) :
          loc(k) \in Loc(B) /\ loc(k).shelf_name = locs[n + k].shelf_name
    <2>1. \A k \in 1 .. (Len(locs) - n) : n + k \in 1 .. Len(locs)
      BY <1>1, <1>2
    <2>. QED
      BY <1>1, <2>1 DEF Loc
  <1> HIDE DEF loc, B
  <1>6. Len(locs) - n \in Nat
    BY <1>1, <1>2
  <1>7. left \in Seq(Loc(B))
    BY <1>3, <1>5, <1>6, IsASeq
  <1>8. Len(left) = Len(locs) - n /\ DOMAIN left = 1 .. (Len(locs) - n)
    BY <1>3, <1>6, <1>7, LenProperties
  <1>9. \A k \in 1 .. (Len(locs) - n) :
          n + k \in 1 .. Len(locs) /\ left[k].shelf_name = locs[n + k].shelf_name
    BY <1>1, <1>2, <1>3, <1>5
  <1>10. NamesOnce(locs)
    BY DEF LocsOk
  <1>11. NamesOnce(left)
    <2>. SUFFICES ASSUME NEW j \in DOMAIN left, NEW k \in DOMAIN left,
                         left[j].shelf_name = left[k].shelf_name
                  PROVE  j = k
      BY DEF NamesOnce
    <2>1. n + j = n + k
      BY <1>1, <1>8, <1>9, <1>10 DEF NamesOnce
    <2>. QED
      BY <1>2, <1>8, <2>1
  <1>12. NamesIn(left) = {left[k].shelf_name : k \in 1 .. (Len(locs) - n)}
    BY <1>7, <1>8, LocsShape
  <1>13. NamesIn(left) \subseteq NamesIn(locs) \ NamesGivenUp(locs, a)
    <2>. SUFFICES ASSUME NEW x \in NamesIn(left)
                  PROVE  x \in NamesIn(locs) /\ x \notin NamesGivenUp(locs, a)
      OBVIOUS
    <2>1. PICK k \in 1 .. (Len(locs) - n) : x = locs[n + k].shelf_name
      BY <1>9, <1>12
    <2>2. \A j \in 1 .. n : j \in 1 .. Len(locs) /\ j # n + k
      BY <1>1, <1>2
    <2>3. n + k \in 1 .. Len(locs)
      BY <1>9
    <2>. QED
      BY <1>1, <1>4, <1>10, <2>1, <2>2, <2>3 DEF NamesOnce
  <1>14. NamesIn(locs) \ NamesGivenUp(locs, a) \subseteq NamesIn(left)
    <2>. SUFFICES ASSUME NEW x \in NamesIn(locs), x \notin NamesGivenUp(locs, a)
                  PROVE  x \in NamesIn(left)
      OBVIOUS
    <2>1. PICK k \in 1 .. Len(locs) : x = locs[k].shelf_name
      BY <1>1
    <2>2. k \notin 1 .. n
      BY <1>4, <2>1
    <2>3. k - n \in 1 .. (Len(locs) - n) /\ n + (k - n) = k
      BY <1>1, <1>2, <2>2
    <2>4. left[k - n].shelf_name = x
      BY <1>9, <2>1, <2>3
    <2>. QED
      BY <1>12, <2>3, <2>4
  <1>. QED
    BY <1>7, <1>11, <1>13, <1>14 DEF LocsOk, left

\* What checkout gives up is a shelf of the merch.
LEMMA GivenUpAreHad ==
  ASSUME NEW locs, LocsOk(locs), NEW a
  PROVE  NamesGivenUp(locs, a) \subseteq NamesIn(locs)
  <1>. PICK A : locs \in Seq(Loc(A))
    BY DEF LocsOk
  <1>1. Len(locs) \in Nat /\ NamesIn(locs) = {locs[k].shelf_name : k \in 1 .. Len(locs)}
    BY LocsShape
  <1>2. 1 .. NoGivenUp(locs, a) \subseteq 1 .. Len(locs)
    BY <1>1, NoGivenUpExists
  <1>. QED
    BY <1>1, <1>2 DEF NamesGivenUp

\* What the garbage collector keeps: no item of a table leads elsewhere.
LEMMA ItemsReached ==
  ASSUME NEW wh, NEW cs
  PROVE  \A i \in DOMAIN cs : \A k \in DOMAIN cs[i].products :
           cs[i].products[k].merch \in Reached(wh, cs)
  BY DEF Reached, ToSet

LEMMA ReachedOnly ==
  ASSUME NEW wh, NEW cs, NEW S, Range(wh) \subseteq S,
         \A i \in DOMAIN cs : \A k \in DOMAIN cs[i].products : cs[i].products[k].merch \in S
  PROVE  Reached(wh, cs) \subseteq S
  BY DEF Reached, ToSet

\* When a cart has gone, what the other carts lead to was there before.
LEMMA ItemsLeft ==
  ASSUME CartsInv, ItemsOk, Range(warehouse) \subseteq DOMAIN merch,
         NEW i \in DOMAIN carts, carts' = RemoveAt(carts, i),
         DOMAIN merch' = Reached(warehouse, carts')
  PROVE  ItemsOk' /\ DOMAIN merch' \subseteq DOMAIN merch
  <1>. PICK X : CartsIn(X)
    BY DEF CartsInv
  <1>1. DOMAIN carts = 1 .. Len(carts) /\ Len(carts) \in Nat
    BY CartsShape DEF CartsIn
  <1>2. /\ carts' \in Seq(Carts(X))
        /\ Len(carts') = Len(carts) - 1
        /\ \A k \in 1 .. (Len(carts) - 1) : carts'[k] = IF k < i THEN carts[k] ELSE carts[k + 1]
    BY <1>1, RemoveAtProperties DEF CartsIn
  <1>3. DOMAIN carts' = 1 .. (Len(carts) - 1)
    BY <1>2, LenProperties
  <1>4. \A k \in DOMAIN carts' : \E j \in DOMAIN carts : carts'[k] = carts[j]
    <2>1. \A k \in 1 .. (Len(carts) - 1) : k \in DOMAIN carts /\ k + 1 \in DOMAIN carts
      BY <1>1
    <2>. QED
      BY <1>2, <1>3, <2>1
  <1>5. \A k \in DOMAIN carts' : TableOk(carts'[k].products)
    BY <1>4 DEF ItemsOk
  <1>6. \A k \in DOMAIN carts' : \A z \in DOMAIN carts'[k].products :
          carts'[k].products[z].merch \in DOMAIN merch
    BY <1>4 DEF ItemsOk
  <1>. QED
    BY <1>5, <1>6, ReachedOnly, ItemsReached DEF ItemsOk

LEMMA NoLocs ==
  /\ LocsOk(<< >>)
  /\ NamesIn(<< >>) = {}
  /\ \A a : NamesGivenUp(<< >>, a) = {} /\ LocsAfter(<< >>, a) = << >>
  <1>1. << >> \in Seq(Loc({})) /\ Len(<< >>) = 0 /\ DOMAIN << >> = {}
    BY EmptySeq
  <1>2. LocsOk(<< >>) /\ NamesIn(<< >>) = {}
    BY <1>1 DEF LocsOk, NamesOnce, NamesIn, ToSet
  <1>3. ASSUME NEW a
        PROVE  NamesGivenUp(<< >>, a) = {} /\ LocsAfter(<< >>, a) = << >>
    <2>1. NoGivenUp(<< >>, a) = 0
      <3>1. NoGivenUp(<< >>, a) \in 0 .. Len(<< >>)
        BY <1>1, NoGivenUpExists
      <3>. QED
        BY <1>1, <3>1
    <2>2. NamesGivenUp(<< >>, a) = {}
      BY <2>1 DEF NamesGivenUp
    <2>3. DOMAIN LocsAfter(<< >>, a) = {}
      BY <1>1, <2>1 DEF LocsAfter
    <2>4. LocsAfter(<< >>, a) \in Seq({}) /\ Len(LocsAfter(<< >>, a)) = 0
      BY <1>1, <2>1 DEF LocsAfter
    <2>. QED
      BY <2>2, <2>4, EmptySeq
  <1>. QED
    BY <1>2, <1>3

LEMMA InsertShelves ==
  ASSUME ShelvesInv, NEW m, NEW name, NEW address, NEW price,
         MerchInsert(m, name, address, price)
  PROVE  ShelvesInv'
  <1> DEFINE new == [name |-> name, address |-> address, price |-> price,
                     total_stock |-> 0, stock_in_cart |-> 0, locs |-> << >>]
  <1>1. /\ DOMAIN warehouse' = DOMAIN warehouse \cup {name}
        /\ \A n \in DOMAIN warehouse' : warehouse'[n] = IF n = name THEN m ELSE warehouse[n]
        /\ DOMAIN merch' = DOMAIN merch \cup {m}
        /\ \A x \in DOMAIN merch' : merch'[x] = IF x = m THEN new ELSE merch[x]
        /\ m \notin DOMAIN merch /\ name \notin DOMAIN warehouse
        /\ UNCHANGED <<shelves, carts>>
    BY DEF MerchInsert, With
  <1>2. DOMAIN new = MerchFields /\ new.name = name /\ new.locs = << >>
    BY DEF MerchFields
  <1> HIDE DEF new
  <1>3. Range(warehouse') = Range(warehouse) \cup {m}
    BY <1>1 DEF Range
  <1>4. Range(warehouse) \subseteq DOMAIN merch
    BY DEF ShelvesInv, ShelvesAgree, Range
  <1>5. MerchOk'
    BY <1>1, <1>2, <1>3, NoLocs DEF ShelvesInv, MerchOk
  <1>6. ItemsOk'
    BY <1>1 DEF ShelvesInv, ItemsOk
  <1>7. ShelvesAgree'
    <2>1. \A n \in DOMAIN warehouse' :
            warehouse'[n] \in DOMAIN merch' /\ merch'[warehouse'[n]].name = n
      BY <1>1, <1>2 DEF ShelvesInv, ShelvesAgree
    <2>2. NamesIn(merch'[m].locs) = {} /\ NamesOnce(merch'[m].locs)
      BY <1>1, <1>2, NoLocs DEF LocNames, LocsOk
    <2>3. \A x \in Range(warehouse) : x # m /\ merch'[x] = merch[x] /\ NamesIn(merch'[x].locs) = LocNames(x)
      BY <1>1, <1>4 DEF LocNames
    <2>. QED
      BY <1>1, <1>3, <2>1, <2>2, <2>3 DEF ShelvesInv, ShelvesAgree, LocNames
  <1>. QED
    BY <1>5, <1>6, <1>7 DEF ShelvesInv

\* merch_edit: the same merch is listed, under one name more or less.
LEMMA EditTables ==
  ASSUME ShelvesInv, NEW m \in Range(warehouse), NEW name, NEW address, NEW price,
         name \notin DOMAIN warehouse \/ name = merch[m].name, MerchEdit(m, name, address, price)
  PROVE  /\ DOMAIN warehouse' = (DOMAIN warehouse \ {merch[m].name}) \cup {name}
         /\ \A n \in DOMAIN warehouse' : warehouse'[n] = IF n = name THEN m ELSE warehouse[n]
         /\ Range(warehouse') = Range(warehouse)
         /\ DOMAIN merch' = DOMAIN merch
         /\ \A x \in DOMAIN merch : x # m => merch'[x] = merch[x]
         /\ UNCHANGED <<shelves, carts>>
  <1>1. /\ DOMAIN warehouse' = (DOMAIN warehouse \ {merch[m].name}) \cup {name}
        /\ \A n \in DOMAIN warehouse' : warehouse'[n] = IF n = name THEN m ELSE warehouse[n]
        /\ DOMAIN merch' = DOMAIN merch
        /\ \A x \in DOMAIN merch : x # m => merch'[x] = merch[x]
        /\ UNCHANGED <<shelves, carts>>
    BY DEF MerchEdit, With, Without, Restrict
  <1>2. /\ m \in DOMAIN merch
        /\ \A n \in DOMAIN warehouse : warehouse[n] \in DOMAIN merch /\ merch[warehouse[n]].name = n
    BY DEF ShelvesInv, ShelvesAgree, Range
  <1>3. Range(warehouse') = Range(warehouse)
    <2>1. \A n \in DOMAIN warehouse : warehouse[n] # m => n # merch[m].name /\ n # name
      BY <1>2 DEF Range
    <2>2. warehouse'[name] = m /\ name \in DOMAIN warehouse'
      BY <1>1
    <2>3. Range(warehouse') \subseteq Range(warehouse)
      BY <1>1 DEF Range
    <2>4. ASSUME NEW x \in Range(warehouse), x # m
          PROVE  x \in Range(warehouse')
      BY <1>1, <2>1, <2>4 DEF Range
    <2>5. m \in Range(warehouse')
      BY <2>2 DEF Range
    <2>. QED
      BY <2>3, <2>4, <2>5
  <1>. QED
    BY <1>1, <1>3

LEMMA EditShelves ==
  ASSUME ShelvesInv, NEW m \in Range(warehouse), NEW name, NEW address, NEW price,
         name \notin DOMAIN warehouse \/ name = merch[m].name, MerchEdit(m, name, address, price)
  PROVE  ShelvesInv'
  <1>1. /\ DOMAIN warehouse' = (DOMAIN warehouse \ {merch[m].name}) \cup {name}
        /\ \A n \in DOMAIN warehouse' : warehouse'[n] = IF n = name THEN m ELSE warehouse[n]
        /\ Range(warehouse') = Range(warehouse)
        /\ DOMAIN merch' = DOMAIN merch
        /\ \A x \in DOMAIN merch : x # m => merch'[x] = merch[x]
        /\ UNCHANGED <<shelves, carts>>
    BY EditTables
  <1>2. /\ m \in DOMAIN merch
        /\ \A n \in DOMAIN warehouse : warehouse[n] \in DOMAIN merch /\ merch[warehouse[n]].name = n
    BY DEF ShelvesInv, ShelvesAgree, Range
  <1>3. DOMAIN merch'[m] = MerchFields /\ merch'[m].name = name /\ merch'[m].locs = merch[m].locs
    <2>1. DOMAIN merch[m] = MerchFields
      BY <1>2 DEF ShelvesInv, MerchOk
    <2>. QED
      BY <1>2, <2>1 DEF MerchEdit, MerchFields
  <1>4. MerchOk'
    BY <1>1, <1>3 DEF ShelvesInv, MerchOk
  <1>5. ItemsOk'
    BY <1>1 DEF ShelvesInv, ItemsOk
  <1>6. ShelvesAgree'
    <2>1. \A n \in DOMAIN warehouse' :
            warehouse'[n] \in DOMAIN merch' /\ merch'[warehouse'[n]].name = n
      <3>1. ASSUME NEW n \in DOMAIN warehouse', n # name
            PROVE  n \in DOMAIN warehouse /\ warehouse[n] # m
        BY <1>1, <1>2, <3>1
      <3>. QED
        BY <1>1, <1>2, <1>3, <3>1
    <2>2. \A x \in DOMAIN merch : merch'[x].locs = merch[x].locs /\ NamesIn(merch'[x].locs) = LocNames(x)
      BY <1>1, <1>3 DEF LocNames
    <2>3. Range(warehouse) \subseteq DOMAIN merch
      BY <1>2 DEF Range
    <2>. QED
      BY <1>1, <2>1, <2>2, <2>3 DEF ShelvesInv, ShelvesAgree, LocNames
  <1>. QED
    BY <1>4, <1>5, <1>6 DEF ShelvesInv

LEMMA ReplenishShelves ==
  ASSUME ShelvesInv, NEW m \in Range(warehouse), NEW amount, NEW s \in ShelfNames,
         MerchReplenish(m, amount, s)
  PROVE  ShelvesInv'
  <1>1. /\ \A n \in DOMAIN warehouse : warehouse[n] \in DOMAIN merch /\ merch[warehouse[n]].name = n
        /\ Range(warehouse) \subseteq DOMAIN merch
    BY DEF ShelvesInv, ShelvesAgree, Range
  <1>2. /\ UNCHANGED <<warehouse, carts>>
        /\ DOMAIN merch' = DOMAIN merch
        /\ \A x \in DOMAIN merch : x # m => merch'[x] = merch[x]
        /\ s \notin DOMAIN shelves \/ s \in LocNames(m)
    BY DEF MerchReplenish, IsShelfFree
  <1>3. DOMAIN merch[m] = MerchFields /\ LocsOk(merch[m].locs)
    BY <1>1 DEF ShelvesInv, MerchOk
  <1>4. /\ DOMAIN merch'[m] = MerchFields
        /\ merch'[m].name = merch[m].name
        /\ merch'[m].locs = LocsWith(merch[m].locs, amount, s)
    BY <1>1, <1>3 DEF MerchReplenish, MerchFields
  <1>5. /\ LocsOk(merch'[m].locs)
        /\ NamesIn(merch'[m].locs) = LocNames(m) \cup {s}
    BY <1>3, <1>4, LocsWithOk DEF LocNames
  <1>6. /\ DOMAIN shelves' = DOMAIN shelves \cup {s}
        /\ \A t \in DOMAIN shelves' : shelves'[t] = IF t = s THEN m ELSE shelves[t]
    <2>1. CASE s \in LocNames(m)
      <3>1. shelves' = shelves /\ s \in DOMAIN shelves /\ shelves[s] = m
        BY <2>1 DEF MerchReplenish, ShelvesInv, ShelvesAgree
      <3>. QED
        BY <3>1
    <2>2. CASE s \notin LocNames(m)
      BY <2>2 DEF MerchReplenish, With
    <2>. QED
      BY <2>1, <2>2
  <1>7. MerchOk'
    BY <1>2, <1>4, <1>5 DEF ShelvesInv, MerchOk
  <1>8. ItemsOk'
    BY <1>2 DEF ShelvesInv, ItemsOk
  <1>9. ShelvesAgree'
    <2>1. \A x \in DOMAIN merch : x # m => NamesIn(merch'[x].locs) = LocNames(x)
      BY <1>2 DEF LocNames
    <2>2. \A n \in DOMAIN warehouse' :
            warehouse'[n] \in DOMAIN merch' /\ merch'[warehouse'[n]].name = n
      BY <1>1, <1>2, <1>4
    <2>3. \A t \in DOMAIN shelves' :
            shelves'[t] \in Range(warehouse') /\ t \in NamesIn(merch'[shelves'[t]].locs)
      <3>1. ASSUME NEW t \in DOMAIN shelves', t # s
            PROVE  shelves'[t] \in Range(warehouse') /\ t \in NamesIn(merch'[shelves'[t]].locs)
        <4>1. shelves'[t] = shelves[t] /\ shelves[t] \in Range(warehouse) /\ t \in LocNames(shelves[t])
          BY <1>6, <3>1 DEF ShelvesInv, ShelvesAgree
        <4>2. NamesIn(merch'[shelves[t]].locs) = LocNames(shelves[t]) \/ shelves[t] = m
          BY <1>1, <2>1, <4>1
        <4>3. CASE shelves[t] = m
          BY <1>2, <1>5, <4>1, <4>3 DEF LocNames
        <4>4. CASE shelves[t] # m
          BY <1>1, <1>2, <4>1, <4>4 DEF LocNames
        <4>. QED
          BY <4>3, <4>4
      <3>2. shelves'[s] = m /\ s \in NamesIn(merch'[m].locs)
        BY <1>5, <1>6
      <3>3. shelves'[s] \in Range(warehouse') /\ s \in NamesIn(merch'[shelves'[s]].locs)
        BY <1>2, <3>2 DEF LocNames
      <3>. QED
        BY <3>1, <3>3
    <2>4. ASSUME NEW x \in Range(warehouse')
          PROVE  /\ NamesOnce(merch'[x].locs)
                 /\ \A t \in NamesIn(merch'[x].locs) : t \in DOMAIN shelves' /\ shelves'[t] = x
      <3>1. x \in Range(warehouse) /\ x \in DOMAIN merch
        BY <1>1, <1>2
      <3>2. CASE x = m
        BY <1>5, <1>6, <3>1, <3>2 DEF ShelvesInv, ShelvesAgree, LocsOk
      <3>3. CASE x # m
        <4>1. s \notin LocNames(x)
          BY <1>2, <3>1, <3>3 DEF ShelvesInv, ShelvesAgree
        <4>. QED
          BY <1>2, <1>6, <2>1, <3>1, <3>3, <4>1 DEF ShelvesInv, ShelvesAgree
      <3>. QED
        BY <3>2, <3>3
    <2>. QED
      BY <2>2, <2>3, <2>4 DEF ShelvesAgree, LocNames
  <1>. QED
    BY <1>7, <1>8, <1>9 DEF ShelvesInv

\* product_destroy: m is no longer listed.
LEMMA DestroyTables ==
  ASSUME ShelvesInv, NEW m \in Range(warehouse), ProductDestroy(m)
  PROVE  Range(warehouse') = Range(warehouse) \ {m}
  <1>1. \A n \in DOMAIN warehouse : warehouse[n] \in DOMAIN merch /\ merch[warehouse[n]].name = n
    BY DEF ShelvesInv, ShelvesAgree
  <1>2. /\ DOMAIN warehouse' = DOMAIN warehouse \ {merch[m].name}
        /\ \A n \in DOMAIN warehouse' : warehouse'[n] = warehouse[n]
    BY DEF ProductDestroy, Without, Restrict
  <1>3. \A n \in DOMAIN warehouse : warehouse[n] = m <=> n = merch[m].name
    BY <1>1 DEF Range
  <1>. QED
    BY <1>2, <1>3 DEF Range

LEMMA DestroyShelves ==
  ASSUME ShelvesInv, NEW m \in Range(warehouse), ProductDestroy(m)
  PROVE  ShelvesInv'
  <1>1. /\ \A n \in DOMAIN warehouse : warehouse[n] \in DOMAIN merch /\ merch[warehouse[n]].name = n
        /\ Range(warehouse) \subseteq DOMAIN merch
    BY DEF ShelvesInv, ShelvesAgree, Range
  <1>2. /\ DOMAIN shelves' = DOMAIN shelves \ LocNames(m)
        /\ \A t \in DOMAIN shelves' : shelves'[t] = shelves[t]
        /\ DOMAIN warehouse' = DOMAIN warehouse \ {merch[m].name}
        /\ \A n \in DOMAIN warehouse' : warehouse'[n] = warehouse[n]
        /\ UNCHANGED carts
    BY DEF ProductDestroy, Without, Restrict
  <1>3. Range(warehouse') = Range(warehouse) \ {m}
    BY DestroyTables
  <1>4. DOMAIN merch' = Reached(warehouse', carts)
    BY DEF ProductDestroy, Restrict
  <1>5. DOMAIN merch' \subseteq DOMAIN merch
    <2>1. Range(warehouse') \subseteq DOMAIN merch
      BY <1>1, <1>3
    <2>. QED
      BY <1>4, <2>1, ReachedOnly DEF ShelvesInv, ItemsOk
  <1>6. \A x \in DOMAIN merch' : merch'[x] = [merch EXCEPT ![m].locs = << >>][x]
    BY <1>4 DEF ProductDestroy, Restrict
  <1>7. \A x \in DOMAIN merch' : x # m => merch'[x] = merch[x]
    BY <1>5, <1>6
  <1>8. m \in DOMAIN merch' => DOMAIN merch'[m] = MerchFields /\ merch'[m].locs = << >>
    <2>1. DOMAIN merch[m] = MerchFields
      BY <1>1 DEF ShelvesInv, MerchOk
    <2>2. m \in DOMAIN merch' => merch'[m] = [merch[m] EXCEPT !.locs = << >>]
      BY <1>1, <1>6
    <2>. QED
      BY <2>1, <2>2 DEF MerchFields
  <1>9. MerchOk'
    BY <1>3, <1>5, <1>7, <1>8, NoLocs DEF ShelvesInv, MerchOk
  <1>10. ItemsOk'
    BY <1>2, <1>4, ItemsReached DEF ItemsOk, ShelvesInv
  <1>11. ShelvesAgree'
    <2>1. Range(warehouse') \subseteq DOMAIN merch'
      BY <1>4 DEF Reached
    <2>2. \A x \in Range(warehouse') : merch'[x] = merch[x] /\ NamesIn(merch'[x].locs) = LocNames(x)
      BY <1>3, <1>7, <2>1 DEF LocNames
    <2>3. \A n \in DOMAIN warehouse' :
            warehouse'[n] \in DOMAIN merch' /\ merch'[warehouse'[n]].name = n
      BY <1>1, <1>2, <2>1, <2>2 DEF Range
    <2>4. \A t \in DOMAIN shelves' :
            shelves'[t] \in Range(warehouse') /\ t \in LocNames(shelves'[t])
      BY <1>2, <1>3 DEF ShelvesInv, ShelvesAgree
    <2>5. \A t \in DOMAIN shelves' : t \in NamesIn(merch'[shelves'[t]].locs)
      BY <2>2, <2>4 DEF LocNames
    <2>6. ASSUME NEW x \in Range(warehouse')
          PROVE  /\ NamesOnce(merch'[x].locs)
                 /\ \A t \in NamesIn(merch'[x].locs) : t \in DOMAIN shelves' /\ shelves'[t] = x
      BY <1>2, <1>3, <2>2 DEF ShelvesInv, ShelvesAgree
    <2>. QED
      BY <2>3, <2>4, <2>5, <2>6 DEF ShelvesAgree, LocNames
  <1>. QED
    BY <1>9, <1>10, <1>11 DEF ShelvesInv

\* The carts change, and of the merch only what no shelf is about.
LEMMA KeepShelves ==
  ASSUME ShelvesInv, ItemsOk', UNCHANGED <<warehouse, shelves>>,
         DOMAIN merch' \subseteq DOMAIN merch, Range(warehouse) \subseteq DOMAIN merch',
         \A m \in DOMAIN merch' :
           /\ DOMAIN merch'[m] = DOMAIN merch[m]
           /\ merch'[m].locs = merch[m].locs
           /\ merch'[m].name = merch[m].name
  PROVE  ShelvesInv'
  <1>1. MerchOk'
    BY DEF ShelvesInv, MerchOk
  <1>2. \A m \in DOMAIN merch' : NamesIn(merch'[m].locs) = LocNames(m)
    BY DEF LocNames
  <1>3. ShelvesAgree'
    <2>1. \A n \in DOMAIN warehouse :
            warehouse[n] \in Range(warehouse) /\ merch[warehouse[n]].name = n
      BY DEF ShelvesInv, ShelvesAgree, Range
    <2>2. \A t \in DOMAIN shelves :
            shelves[t] \in Range(warehouse) /\ t \in LocNames(shelves[t])
      BY DEF ShelvesInv, ShelvesAgree
    <2>3. \A t \in DOMAIN shelves : t \in NamesIn(merch'[shelves[t]].locs)
      BY <1>2, <2>2
    <2>4. \A n \in DOMAIN warehouse' :
            warehouse'[n] \in DOMAIN merch' /\ merch'[warehouse'[n]].name = n
      BY <2>1
    <2>5. \A t \in DOMAIN shelves' :
            shelves'[t] \in Range(warehouse') /\ t \in NamesIn(merch'[shelves'[t]].locs)
      BY <2>2, <2>3 DEF LocNames
    <2>6. \A x \in Range(warehouse') :
            /\ NamesOnce(merch'[x].locs)
            /\ \A t \in NamesIn(merch'[x].locs) : t \in DOMAIN shelves' /\ shelves'[t] = x
      BY <1>2 DEF ShelvesInv, ShelvesAgree
    <2>. QED
      BY <2>4, <2>5, <2>6 DEF ShelvesAgree, LocNames
  <1>. QED
    BY <1>1, <1>3 DEF ShelvesInv

\* ioopm_cart_checkout, of the cart at i.
LEMMA CheckoutShelves ==
  ASSUME ShelvesInv, CartsInv, NEW i \in DOMAIN carts, Find(carts[i].cart_id) = i,
         CartCheckout(carts[i].cart_id)
  PROVE  ShelvesInv'
  <1>1. /\ \A n \in DOMAIN warehouse : warehouse[n] \in DOMAIN merch /\ merch[warehouse[n]].name = n
        /\ Range(warehouse) \subseteq DOMAIN merch
    BY DEF ShelvesInv, ShelvesAgree, Range
  <1> DEFINE given(m) == NamesGivenUp(merch[m].locs, Held(i, m))
             rest(m) == LocsAfter(merch[m].locs, Held(i, m))
             changed(m) == [merch[m] EXCEPT !.locs = LocsAfter(@, Held(i, m)),
                                            !.total_stock = StockAfter(i, m),
                                            !.stock_in_cart = @ - Held(i, m)]
  <1>2. /\ UNCHANGED warehouse
        /\ carts' = RemoveAt(carts, i)
        /\ DOMAIN shelves' = DOMAIN shelves \ UNION {given(m) : m \in DOMAIN merch}
        /\ \A t \in DOMAIN shelves' : shelves'[t] = shelves[t]
        /\ DOMAIN merch' = Reached(warehouse, carts')
        /\ \A m \in DOMAIN merch' : merch'[m] = changed(m)
    BY DEF CartCheckout, ShelvesAfter, Without, Restrict
  <1>3. \A m \in DOMAIN merch : DOMAIN merch[m] = MerchFields /\ LocsOk(merch[m].locs)
    BY DEF ShelvesInv, MerchOk
  <1>4. \A m \in DOMAIN merch :
          /\ DOMAIN changed(m) = MerchFields
          /\ changed(m).name = merch[m].name
          /\ changed(m).locs = rest(m)
    BY <1>3 DEF MerchFields
  <1> HIDE DEF changed
  <1>5. \A m \in DOMAIN merch : LocsOk(rest(m)) /\ NamesIn(rest(m)) = LocNames(m) \ given(m)
    BY <1>3, LocsAfterOk DEF LocNames
  <1>6. \A m \in DOMAIN merch \ Range(warehouse) : given(m) = {} /\ rest(m) = << >>
    BY NoLocs DEF ShelvesInv, MerchOk
  <1>7. \A m \in DOMAIN merch : given(m) \subseteq LocNames(m)
    BY <1>3, GivenUpAreHad DEF LocNames
  <1> HIDE DEF given, rest
  <1>8. ItemsOk' /\ DOMAIN merch' \subseteq DOMAIN merch
    BY <1>1, <1>2, ItemsLeft DEF ShelvesInv
  <1>9. MerchOk'
    BY <1>2, <1>4, <1>5, <1>6, <1>8 DEF MerchOk
  <1>10. ShelvesAgree'
    <2>1. Range(warehouse) \subseteq DOMAIN merch'
      BY <1>2 DEF Reached
    <2>2. \A n \in DOMAIN warehouse' :
            warehouse'[n] \in DOMAIN merch' /\ merch'[warehouse'[n]].name = n
      BY <1>1, <1>2, <1>4, <2>1 DEF Range
    <2>3. \A x \in Range(warehouse) : merch'[x].locs = rest(x)
      BY <1>1, <1>2, <1>4, <2>1
    <2>4. ASSUME NEW t \in DOMAIN shelves'
          PROVE  shelves'[t] \in Range(warehouse') /\ t \in NamesIn(merch'[shelves'[t]].locs)
      <3>1. shelves[t] \in Range(warehouse) /\ t \in LocNames(shelves[t])
        BY <1>2 DEF ShelvesInv, ShelvesAgree
      <3>2. t \notin given(shelves[t])
        BY <1>1, <1>2, <3>1
      <3>. QED
        BY <1>1, <1>2, <1>5, <2>3, <3>1, <3>2
    <2>5. ASSUME NEW x \in Range(warehouse'), NEW t \in NamesIn(merch'[x].locs)
          PROVE  t \in DOMAIN shelves' /\ shelves'[t] = x
      <3>1. x \in Range(warehouse) /\ x \in DOMAIN merch /\ t \in LocNames(x) /\ t \notin given(x)
        BY <1>1, <1>2, <1>5, <2>3
      <3>2. t \in DOMAIN shelves /\ shelves[t] = x
        BY <3>1 DEF ShelvesInv, ShelvesAgree
      <3>3. ASSUME NEW m \in DOMAIN merch, t \in given(m)
            PROVE  FALSE
        <4>1. m \in Range(warehouse) /\ t \in LocNames(m)
          BY <1>6, <1>7, <3>3
        <4>2. shelves[t] = m
          BY <4>1 DEF ShelvesInv, ShelvesAgree
        <4>. QED
          BY <3>1, <3>2, <3>3, <4>2
      <3>. QED
        BY <1>2, <3>2, <3>3
    <2>6. \A x \in Range(warehouse') : NamesOnce(merch'[x].locs)
      BY <1>1, <1>2, <1>5, <2>3 DEF LocsOk
    <2>. QED
      BY <2>2, <2>4, <2>5, <2>6 DEF ShelvesAgree, LocNames
  <1>. QED
    BY <1>8, <1>9, <1>10 DEF ShelvesInv

\* The tables of the carts when the one at i has become products.
LEMMA TablesChange ==
  ASSUME CartsInv, NEW i \in DOMAIN carts, NEW products,
         carts' = [carts EXCEPT ![i].products = products]
  PROVE  /\ DOMAIN carts' = DOMAIN carts
         /\ \A j \in DOMAIN carts :
              carts'[j].products = IF j = i THEN products ELSE carts[j].products
  <1>. PICK X : CartsIn(X)
    BY DEF CartsInv
  <1>1. carts[i] \in Carts(X)
    BY CartsShape DEF CartsIn
  <1>. QED
    BY <1>1 DEF Carts

\* A field of a merch that has nothing to do with shelves.
LEMMA StockFields ==
  ASSUME ShelvesInv, NEW m \in DOMAIN merch, NEW v
  PROVE  LET r == [merch[m] EXCEPT !.stock_in_cart = v]
         IN  DOMAIN r = DOMAIN merch[m] /\ r.locs = merch[m].locs /\ r.name = merch[m].name
  <1>1. DOMAIN merch[m] = MerchFields
    BY DEF ShelvesInv, MerchOk
  <1>. QED
    BY <1>1 DEF MerchFields

LEMMA ShelvesStep ==
  ASSUME CartsInv, ShelvesInv, [Next]_vars
  PROVE  ShelvesInv'
  <1>. PICK X : CartsIn(X)
    BY DEF CartsInv
  <1>1. \A i \in DOMAIN carts : Find(carts[i].cart_id) = i
    BY FindsChosen DEF CartsInv
  <1>2. Range(warehouse) \subseteq DOMAIN merch
    BY DEF ShelvesInv, ShelvesAgree, Range
  <1>3. ASSUME NEW m, NEW n, NEW a, NEW p, CreateMerch(m, n, a, p)
        PROVE  ShelvesInv'
    BY <1>3, InsertShelves DEF CreateMerch
  <1>4. ASSUME NEW m \in Range(warehouse), NEW n, NEW a, NEW p, EditMerch(m, n, a, p)
        PROVE  ShelvesInv'
    BY <1>4, EditShelves DEF EditMerch
  <1>5. ASSUME NEW m \in Range(warehouse), NEW amount, NEW s \in ShelfNames,
               AddStock(m, amount, s)
        PROVE  ShelvesInv'
    BY <1>5, ReplenishShelves DEF AddStock
  <1>6. ASSUME NEW m \in Range(warehouse), RemoveMerch(m)
        PROVE  ShelvesInv'
    BY <1>6, DestroyShelves DEF RemoveMerch
  <1>7. ASSUME NEW m \in Range(warehouse), NEW i \in DOMAIN carts, NEW amount \in Nat,
               PutMerch(i, m, amount)
        PROVE  ShelvesInv'
    <2> DEFINE q == TablePut(i, m, amount)
               v == merch[m].stock_in_cart + amount
    <2>1. /\ carts' = [carts EXCEPT ![i].products = q]
          /\ merch' = [merch EXCEPT ![m].stock_in_cart = v]
          /\ UNCHANGED <<warehouse, shelves>>
      BY <1>1, <1>7, PutIs
    <2>2. TableOk(Products(i)) /\ \A k \in DOMAIN Products(i) : Products(i)[k].merch \in DOMAIN merch
      BY DEF ShelvesInv, ItemsOk, Products
    <2>3. TableOk(q) /\ IsPut(i, q, m, amount)
      BY <2>2, PutTable
    <2> HIDE DEF q, v
    <2>4. \A k \in DOMAIN q : q[k].merch \in DOMAIN merch
      BY <1>2, <2>2, <2>3, PutItems DEF SameItem
    <2>5. /\ DOMAIN carts' = DOMAIN carts
          /\ \A j \in DOMAIN carts : carts'[j].products = IF j = i THEN q ELSE carts[j].products
      BY <2>1, TablesChange
    <2>6. ItemsOk' /\ DOMAIN merch' = DOMAIN merch
      BY <2>1, <2>3, <2>4, <2>5 DEF ItemsOk, ShelvesInv
    <2>7. \A x \in DOMAIN merch' : \/ merch'[x] = merch[x]
                                   \/ merch'[x] = [merch[x] EXCEPT !.stock_in_cart = v]
      BY <2>1
    <2>. QED
      BY <1>2, <2>1, <2>6, <2>7, StockFields, KeepShelves
  <1>8. ASSUME CreateCart
        PROVE  ShelvesInv'
    <2>1. /\ carts' = Append(carts, [cart_id |-> next_cart_id, products |-> << >>])
          /\ UNCHANGED <<warehouse, merch, shelves>>
      BY <1>8 DEF CreateCart, CartCreate, NewId
    <2> DEFINE Y == X \cup {<< >>}
               new == [cart_id |-> next_cart_id, products |-> << >>]
    <2>2. carts \in Seq(Carts(Y)) /\ new \in Carts(Y)
      <3>1. carts \in Seq(Carts(Y))
        BY CartsWiden DEF CartsIn
      <3>. QED
        BY <3>1 DEF CartsInv, Carts
    <2>3. new.products = << >> /\ DOMAIN << >> = {}
      OBVIOUS
    <2> HIDE DEF Y, new
    <2>4. /\ Len(carts) \in Nat
          /\ DOMAIN carts = 1 .. Len(carts)
          /\ DOMAIN carts' = 1 .. (Len(carts) + 1)
          /\ \A j \in 1 .. Len(carts) : carts'[j] = carts[j]
          /\ carts'[Len(carts) + 1] = new
      BY <2>1, <2>2, CartsShape, AppendProperties, LenProperties DEF new
    <2>5. ItemsOk'
      BY <2>1, <2>3, <2>4, HeldNothing DEF ItemsOk, ShelvesInv
    <2>. QED
      BY <1>2, <2>1, <2>5, KeepShelves
  <1>9. ASSUME NEW i \in DOMAIN carts, RemoveCart(i)
        PROVE  ShelvesInv'
    <2>1. /\ carts' = RemoveAt(carts, i)
          /\ UNCHANGED <<warehouse, shelves>>
          /\ DOMAIN merch' = Reached(warehouse, carts')
          /\ \A m \in DOMAIN merch' :
               merch'[m] = [merch[m] EXCEPT !.stock_in_cart = @ - Held(i, m)]
      BY <1>1, <1>9 DEF RemoveCart, CartSpecDestroy
    <2>2. ItemsOk' /\ DOMAIN merch' \subseteq DOMAIN merch
      BY <1>2, <2>1, ItemsLeft DEF ShelvesInv
    <2>3. Range(warehouse) \subseteq DOMAIN merch'
      BY <2>1 DEF Reached
    <2>4. \A x \in DOMAIN merch' : /\ DOMAIN merch'[x] = DOMAIN merch[x]
                                   /\ merch'[x].locs = merch[x].locs
                                   /\ merch'[x].name = merch[x].name
      <3>1. ASSUME NEW x \in DOMAIN merch'
            PROVE  /\ DOMAIN merch'[x] = DOMAIN merch[x]
                   /\ merch'[x].locs = merch[x].locs
                   /\ merch'[x].name = merch[x].name
        <4> DEFINE w == merch[x].stock_in_cart - Held(i, x)
        <4>1. x \in DOMAIN merch /\ merch'[x] = [merch[x] EXCEPT !.stock_in_cart = w]
          BY <2>1, <2>2
        <4> HIDE DEF w
        <4>. QED
          BY <4>1, StockFields
      <3>. QED
        BY <3>1
    <2>. QED
      BY <2>1, <2>2, <2>3, <2>4, KeepShelves
  <1>10. ASSUME NEW i \in DOMAIN carts, Checkout(i)
         PROVE  ShelvesInv'
    BY <1>1, <1>10, CheckoutShelves DEF Checkout
  <1>11. ASSUME NEW i \in DOMAIN carts, NEW k \in DOMAIN Products(i), NEW amount \in Nat,
                TakeMerch(i, k, amount)
         PROVE  ShelvesInv'
    <2> DEFINE m == Products(i)[k].merch
               q == TableTaken(i, m, amount)
               v == merch[m].stock_in_cart - Taken(i, m, amount)
    <2>1. /\ carts' = [carts EXCEPT ![i].products = q]
          /\ merch' = Restrict([merch EXCEPT ![m].stock_in_cart = v], Reached(warehouse, carts'))
          /\ UNCHANGED <<warehouse, shelves>>
          /\ Found(i, m) # {}
      BY <1>1, <1>11, TakeIs
    <2>2. TableOk(Products(i)) /\ \A j \in DOMAIN Products(i) : Products(i)[j].merch \in DOMAIN merch
      BY DEF ShelvesInv, ItemsOk, Products
    <2> HIDE DEF m
    <2>3. TableOk(q) /\ IsTaken(i, q, m, amount)
      BY <2>1, <2>2, TakenTable
    <2> HIDE DEF q, v
    <2>4. \A j \in DOMAIN q : q[j].merch \in DOMAIN merch
      BY <2>2, <2>3, TakenItems DEF SameItem
    <2>5. /\ DOMAIN carts' = DOMAIN carts
          /\ \A j \in DOMAIN carts : carts'[j].products = IF j = i THEN q ELSE carts[j].products
      BY <2>1, TablesChange
    <2>6. DOMAIN merch' = Reached(warehouse, carts')
      BY <2>1 DEF Restrict
    <2>7. DOMAIN merch' \subseteq DOMAIN merch
      <3>1. \A j \in DOMAIN carts' : \A z \in DOMAIN carts'[j].products :
              carts'[j].products[z].merch \in DOMAIN merch
        BY <2>4, <2>5 DEF ShelvesInv, ItemsOk
      <3>. QED
        BY <1>2, <2>6, <3>1, ReachedOnly
    <2>8. ItemsOk' /\ Range(warehouse) \subseteq DOMAIN merch'
      <3>1. \A j \in DOMAIN carts' : TableOk(carts'[j].products)
        BY <2>3, <2>5 DEF ShelvesInv, ItemsOk
      <3>2. Range(warehouse) \subseteq DOMAIN merch'
        BY <2>6 DEF Reached
      <3>. QED
        BY <2>6, <3>1, <3>2, ItemsReached DEF ItemsOk
    <2>9. \A x \in DOMAIN merch' : \/ merch'[x] = merch[x]
                                   \/ merch'[x] = [merch[x] EXCEPT !.stock_in_cart = v]
      <3>1. \A x \in DOMAIN merch' : merch'[x] = [merch EXCEPT ![m].stock_in_cart = v][x]
        BY <2>1, <2>6 DEF Restrict
      <3>. QED
        BY <2>7, <3>1
    <2>10. \A x \in DOMAIN merch' : /\ DOMAIN merch'[x] = DOMAIN merch[x]
                                    /\ merch'[x].locs = merch[x].locs
                                    /\ merch'[x].name = merch[x].name
      <3>1. ASSUME NEW x \in DOMAIN merch'
            PROVE  /\ DOMAIN merch'[x] = DOMAIN merch[x]
                   /\ merch'[x].locs = merch[x].locs
                   /\ merch'[x].name = merch[x].name
        <4>1. x \in DOMAIN merch
          BY <2>7
        <4>2. CASE merch'[x] = [merch[x] EXCEPT !.stock_in_cart = v]
          BY <4>1, <4>2, StockFields
        <4>. QED
          BY <2>9, <4>2
      <3>. QED
        BY <3>1
    <2>. QED
      BY <2>1, <2>7, <2>8, <2>10, KeepShelves
  <1>12. ASSUME UNCHANGED store
         PROVE  ShelvesInv'
    BY <1>12 DEF store, ShelvesInv, MerchOk, ItemsOk, ShelvesAgree, LocNames, Range
  <1>13. ASSUME NEW how, Ends(how)
         PROVE  ShelvesInv'
    BY <1>13 DEF Ends, ShelvesInv, MerchOk, ItemsOk, ShelvesAgree, Range
  <1>14. \A n \in 0 .. MaxStock : n \in Nat
    BY BoundsAssumption
  <1>. QED
    BY <1>3, <1>4, <1>5, <1>6, <1>7, <1>8, <1>9, <1>10, <1>11, <1>12, <1>13, <1>14
       DEF Next, SwitchUser, Crash, HeapStops, Quit, vars

\* The table of shelves and the lists of the merch agree, with any number of
\* merch and shelves, edited, removed and sold from in any order: a checkout
\* removes from the table what it takes from a list.
THEOREM ShelvesStayAgreed == Spec => []ShelvesAgree
  <1>1. Init => CartsInv /\ ShelvesInv
    BY CartsNone DEF Init, WarehouseInit, CartsInv, CartsIn, CartsFound,
       ShelvesInv, MerchOk, ItemsOk, ShelvesAgree, Range
  <1>2. ShelvesInv => ShelvesAgree
    BY DEF ShelvesInv
  <1>. QED
    BY <1>1, <1>2, CartsStep, ShelvesStep, PTL DEF Spec

-----------------------------------------------------------------------------
(* What all carts hold.                                                    *)

TablesOk(cs) == (\E X : cs \in Seq(Carts(X))) /\ \A i \in DOMAIN cs : TableOk(cs[i].products)
HeldBy(cs, m) == [i \in DOMAIN cs |-> HeldIn(cs[i].products, m)]
HeldByAll(cs, m) == SumFunction(HeldBy(cs, m))

LEMMA HeldByNat ==
  ASSUME NEW cs, TablesOk(cs), NEW m
  PROVE  /\ IsFiniteSet(DOMAIN cs) /\ DOMAIN HeldBy(cs, m) = DOMAIN cs
         /\ \A i \in DOMAIN cs :
              /\ HeldBy(cs, m)[i] = HeldIn(cs[i].products, m)
              /\ HeldBy(cs, m)[i] \in Nat /\ HeldBy(cs, m)[i] \in Int
  <1>. PICK X : cs \in Seq(Carts(X))
    BY DEF TablesOk
  <1>1. Len(cs) \in Nat /\ DOMAIN cs = 1 .. Len(cs)
    BY CartsShape
  <1>2. IsFiniteSet(DOMAIN cs)
    <2>1. IsFiniteSet(1 .. Len(cs))
      BY <1>1, FS_Interval
    <2>. QED
      BY <1>1, <2>1
  <1>3. \A i \in DOMAIN cs : HeldIn(cs[i].products, m) \in Nat
    BY HeldNat DEF TablesOk
  <1>. QED
    BY <1>2, <1>3 DEF HeldBy

LEMMA HeldByAllNat ==
  ASSUME NEW cs, TablesOk(cs), NEW m
  PROVE  /\ HeldByAll(cs, m) \in Nat
         /\ \A i \in DOMAIN cs : HeldIn(cs[i].products, m) <= HeldByAll(cs, m)
  <1> DEFINE f == HeldBy(cs, m)
  <1>1. /\ IsFiniteSet(DOMAIN cs) /\ DOMAIN f = DOMAIN cs
        /\ \A i \in DOMAIN cs : f[i] = HeldIn(cs[i].products, m) /\ f[i] \in Nat /\ f[i] \in Int
    BY HeldByNat
  <1>2. HeldByAll(cs, m) = SumFunctionOnSet(f, DOMAIN cs)
    BY <1>1 DEF HeldByAll, SumFunction
  <1> HIDE DEF f
  <1>3. HeldByAll(cs, m) \in Nat
    BY <1>1, <1>2, SumNat
  <1>4. ASSUME NEW i \in DOMAIN cs
        PROVE  f[i] <= HeldByAll(cs, m)
    <2>1. HeldByAll(cs, m) = f[i] + SumFunctionOnSet(f, DOMAIN cs \ {i})
      BY <1>1, <1>2, SumTake
    <2>2. SumFunctionOnSet(f, DOMAIN cs \ {i}) \in Nat
      <3>1. IsFiniteSet(DOMAIN cs \ {i})
        BY <1>1, FS_RemoveElement
      <3>. QED
        BY <1>1, <3>1, SumNat
    <2>3. \A a, b \in Nat : a <= a + b
      OBVIOUS
    <2>. QED
      BY <1>1, <2>1, <2>2, <2>3
  <1>. QED
    BY <1>1, <1>3, <1>4

\* The table of one cart changes.
LEMMA HeldByChange ==
  ASSUME NEW cs, TablesOk(cs), NEW ds, TablesOk(ds), DOMAIN ds = DOMAIN cs,
         NEW i \in DOMAIN cs, \A j \in DOMAIN cs : j # i => ds[j].products = cs[j].products, NEW m
  PROVE  HeldByAll(ds, m)
           = HeldByAll(cs, m) - HeldIn(cs[i].products, m) + HeldIn(ds[i].products, m)
  <1> DEFINE f == HeldBy(cs, m)
             g == HeldBy(ds, m)
  <1>1. /\ IsFiniteSet(DOMAIN cs) /\ DOMAIN f = DOMAIN cs
        /\ \A j \in DOMAIN cs : f[j] = HeldIn(cs[j].products, m) /\ f[j] \in Int
    BY HeldByNat
  <1>2. /\ DOMAIN g = DOMAIN cs
        /\ \A j \in DOMAIN cs : g[j] = HeldIn(ds[j].products, m) /\ g[j] \in Int
    BY HeldByNat
  <1>3. /\ HeldByAll(cs, m) = SumFunctionOnSet(f, DOMAIN cs)
        /\ HeldByAll(ds, m) = SumFunctionOnSet(g, DOMAIN cs)
    BY <1>1, <1>2 DEF HeldByAll, SumFunction
  <1>4. \A j \in DOMAIN cs : j # i => f[j] = g[j]
    BY <1>1, <1>2
  <1> HIDE DEF f, g
  <1>5. SumFunctionOnSet(g, DOMAIN cs) = SumFunctionOnSet(f, DOMAIN cs) - f[i] + g[i]
    <2>1. DifferAt(f, g, DOMAIN cs, i)
      BY <1>1, <1>2, <1>4 DEF DifferAt
    <2>. QED
      BY <1>1, <2>1, SumChange
  <1>. QED
    BY <1>1, <1>2, <1>3, <1>5

\* A cart is removed from the list.
LEMMA HeldByRemove ==
  ASSUME NEW cs, TablesOk(cs), NEW i \in DOMAIN cs, NEW m
  PROVE  LET ds == RemoveAt(cs, i) IN
         /\ TablesOk(ds)
         /\ \A k \in DOMAIN ds : \E j \in DOMAIN cs : ds[k] = cs[j]
         /\ HeldByAll(ds, m) = HeldByAll(cs, m) - HeldIn(cs[i].products, m)
  <1>. PICK X : cs \in Seq(Carts(X))
    BY DEF TablesOk
  <1> DEFINE ds == RemoveAt(cs, i)
             n == Len(cs)
             f == HeldBy(cs, m)
             g == HeldBy(ds, m)
             was == [k \in 1 .. (n - 1) |-> IF k < i THEN k ELSE k + 1]
  <1>1. n \in Nat /\ DOMAIN cs = 1 .. n /\ i \in 1 .. n
    BY CartsShape
  <1>2. ds \in Seq(Carts(X)) /\ Len(ds) = n - 1
        /\ \A k \in 1 .. (n - 1) : ds[k] = IF k < i THEN cs[k] ELSE cs[k + 1]
    BY <1>1, RemoveAtProperties
  <1> HIDE DEF ds, n
  <1>3. DOMAIN ds = 1 .. (n - 1)
    BY <1>2, LenProperties
  <1>4. /\ \A k \in 1 .. (n - 1) : was[k] \in (1 .. n) \ {i} /\ ds[k] = cs[was[k]]
        /\ \A j, k \in 1 .. (n - 1) : was[j] = was[k] => j = k
    BY <1>1, <1>2
  <1>5. \A j \in (1 .. n) \ {i} : \E k \in 1 .. (n - 1) : was[k] = j
    <2> SUFFICES ASSUME NEW j \in (1 .. n) \ {i} PROVE \E k \in 1 .. (n - 1) : was[k] = j
      OBVIOUS
    <2>1. CASE j < i
      <3>1. j \in 1 .. (n - 1) /\ was[j] = j
        BY <1>1, <2>1
      <3>. QED
        BY <3>1
    <2>2. CASE i < j
      <3>1. j - 1 \in 1 .. (n - 1) /\ was[j - 1] = j
        BY <1>1, <2>2
      <3>. QED
        BY <3>1
    <2>. QED
      BY <1>1, <2>1, <2>2
  <1> HIDE DEF was
  <1>6. TablesOk(ds)
    <2>1. \A k \in DOMAIN ds : TableOk(ds[k].products)
      BY <1>1, <1>3, <1>4 DEF TablesOk
    <2>. QED
      BY <1>2, <2>1 DEF TablesOk
  <1>7. /\ IsFiniteSet(DOMAIN cs) /\ DOMAIN f = DOMAIN cs
        /\ \A j \in DOMAIN cs : f[j] = HeldIn(cs[j].products, m) /\ f[j] \in Int
    BY HeldByNat
  <1>8. /\ IsFiniteSet(DOMAIN ds) /\ DOMAIN g = DOMAIN ds
        /\ \A j \in DOMAIN ds : g[j] = HeldIn(ds[j].products, m) /\ g[j] \in Int
    BY <1>6, HeldByNat
  <1>9. /\ HeldByAll(cs, m) = SumFunctionOnSet(f, DOMAIN cs)
        /\ HeldByAll(ds, m) = SumFunctionOnSet(g, DOMAIN ds)
    BY <1>7, <1>8 DEF HeldByAll, SumFunction
  <1> HIDE DEF f, g
  <1>10. SumFunctionOnSet(g, DOMAIN ds) = SumFunctionOnSet(f, DOMAIN cs \ {i})
    <2>1. \A k \in DOMAIN ds : g[k] \in Int /\ was[k] \in DOMAIN cs \ {i} /\ f[was[k]] = g[k]
      BY <1>1, <1>3, <1>4, <1>7, <1>8
    <2>2. \A j \in DOMAIN cs \ {i} : \E k \in DOMAIN ds : was[k] = j
      BY <1>1, <1>3, <1>5
    <2>3. \A j, k \in DOMAIN ds : was[j] = was[k] => j = k
      BY <1>3, <1>4
    <2> DEFINE S == DOMAIN ds
               T == DOMAIN cs \ {i}
    <2>4. /\ IsFiniteSet(S)
          /\ \A k \in S : g[k] \in Int /\ was[k] \in T /\ f[was[k]] = g[k]
          /\ \A j, k \in S : was[j] = was[k] => j = k
          /\ \A j \in T : \E k \in S : was[k] = j
      BY <1>8, <2>1, <2>2, <2>3
    <2> HIDE DEF S, T
    <2>5. SumFunctionOnSet(g, S) = SumFunctionOnSet(f, T)
      BY <2>4, SumMatched
    <2>. QED
      BY <2>5 DEF S, T
  <1>11. SumFunctionOnSet(f, DOMAIN cs) = f[i] + SumFunctionOnSet(f, DOMAIN cs \ {i})
    BY <1>7, SumTake
  <1>12. SumFunctionOnSet(g, DOMAIN ds) \in Int /\ f[i] \in Int
    BY <1>7, <1>8, SumInt
  <1>13. HeldByAll(ds, m) = HeldByAll(cs, m) - HeldIn(cs[i].products, m)
    BY <1>7, <1>9, <1>10, <1>11, <1>12
  <1>14. \A k \in DOMAIN ds : \E j \in DOMAIN cs : ds[k] = cs[j]
    BY <1>1, <1>3, <1>4
  <1>. QED
    BY <1>6, <1>13, <1>14 DEF ds

\* A cart without items is appended.
LEMMA HeldByAppend ==
  ASSUME NEW cs, TablesOk(cs), NEW id \in Nat, NEW m
  PROVE  LET ds == Append(cs, [cart_id |-> id, products |-> << >>]) IN
         /\ TablesOk(ds)
         /\ \A k \in DOMAIN ds : \/ ds[k].products = << >> /\ ds[k].cart_id = id
                                \/ \E j \in DOMAIN cs : ds[k] = cs[j]
         /\ HeldByAll(ds, m) = HeldByAll(cs, m)
  <1>. PICK X : cs \in Seq(Carts(X))
    BY DEF TablesOk
  <1> DEFINE new == [cart_id |-> id, products |-> << >>]
             ds == Append(cs, new)
             n == Len(cs)
             Y == X \cup {<< >>}
             f == HeldBy(cs, m)
             g == HeldBy(ds, m)
  <1>1. n \in Nat /\ DOMAIN cs = 1 .. n
    BY CartsShape
  <1>2. new \in Carts(Y) /\ new.products = << >> /\ new.cart_id = id
    BY DEF Carts
  <1>3. cs \in Seq(Carts(Y))
    BY CartsWiden
  <1> HIDE DEF new, Y
  <1>4. /\ ds \in Seq(Carts(Y))
        /\ Len(ds) = n + 1
        /\ \A j \in 1 .. n : ds[j] = cs[j]
        /\ ds[n + 1] = new
    BY <1>2, <1>3, AppendProperties
  <1> HIDE DEF ds
  <1>5. DOMAIN ds = 1 .. (n + 1)
    BY <1>4, LenProperties
  <1> HIDE DEF n
  <1>6. DOMAIN ds = DOMAIN cs \cup {n + 1} /\ n + 1 \notin DOMAIN cs
    BY <1>1, <1>5
  <1>7. TablesOk(ds)
    <2>1. \A k \in DOMAIN ds : TableOk(ds[k].products)
      BY <1>1, <1>2, <1>4, <1>6, HeldNothing DEF TablesOk
    <2>. QED
      BY <1>4, <2>1 DEF TablesOk
  <1>8. /\ IsFiniteSet(DOMAIN cs) /\ DOMAIN f = DOMAIN cs
        /\ \A j \in DOMAIN cs : f[j] = HeldIn(cs[j].products, m) /\ f[j] \in Int
    BY HeldByNat
  <1>9. /\ DOMAIN g = DOMAIN ds
        /\ \A j \in DOMAIN ds : g[j] = HeldIn(ds[j].products, m) /\ g[j] \in Int
    BY <1>7, HeldByNat
  <1>10. /\ HeldByAll(cs, m) = SumFunctionOnSet(f, DOMAIN cs)
         /\ HeldByAll(ds, m) = SumFunctionOnSet(g, DOMAIN ds)
    BY <1>8, <1>9 DEF HeldByAll, SumFunction
  <1> HIDE DEF f, g
  <1>11. g[n + 1] = 0
    BY <1>2, <1>4, <1>6, <1>9, HeldNothing
  <1>12. SumFunctionOnSet(g, DOMAIN ds) = g[n + 1] + SumFunctionOnSet(g, DOMAIN cs)
    BY <1>6, <1>8, <1>9, SumAdd
  <1>13. SumFunctionOnSet(f, DOMAIN cs) = SumFunctionOnSet(g, DOMAIN cs)
    <2>1. \A j \in DOMAIN cs : f[j] \in Int /\ f[j] = g[j]
      BY <1>1, <1>4, <1>6, <1>8, <1>9
    <2>. QED
      BY <1>8, <2>1, SumSame
  <1>14. SumFunctionOnSet(f, DOMAIN cs) \in Int
    BY <1>8, SumInt
  <1>15. HeldByAll(ds, m) = HeldByAll(cs, m)
    BY <1>10, <1>11, <1>12, <1>13, <1>14
  <1>16. \A k \in DOMAIN ds : \/ ds[k].products = << >> /\ ds[k].cart_id = id
                             \/ \E j \in DOMAIN cs : ds[k] = cs[j]
    BY <1>1, <1>2, <1>4, <1>6
  <1>. QED
    BY <1>7, <1>15, <1>16 DEF ds, new

-----------------------------------------------------------------------------
(* What the shelves of a merch hold.                                       *)

LocsNat(locs) == locs \in Seq(Loc(Nat))
AllOn(locs) == Upto(locs, Len(locs))

LEMMA AmountsNat ==
  ASSUME NEW locs, LocsNat(locs)
  PROVE  /\ Len(locs) \in Nat /\ DOMAIN locs = 1 .. Len(locs) /\ IsFiniteSet(1 .. Len(locs))
         /\ \A k \in 1 .. Len(locs) :
              /\ Amounts(locs)[k] = locs[k].amount
              /\ Amounts(locs)[k] \in Nat /\ Amounts(locs)[k] \in Int
         /\ \A n : Upto(locs, n) = SumFunctionOnSet(Amounts(locs), 1 .. n)
  <1>1. Len(locs) \in Nat /\ DOMAIN locs = 1 .. Len(locs)
    BY LocsShape DEF LocsNat
  <1>2. \A k \in 1 .. Len(locs) : locs[k].amount \in Nat
    BY LocsShape DEF LocsNat, Loc
  <1>3. IsFiniteSet(1 .. Len(locs))
    BY <1>1, FS_Interval
  <1>. QED
    BY <1>1, <1>2, <1>3 DEF Amounts, Upto

\* The shelves up to k, one by one.
LEMMA UptoSteps ==
  ASSUME NEW locs, LocsNat(locs)
  PROVE  /\ Upto(locs, 0) = 0
         /\ \A k \in 0 .. Len(locs) : Upto(locs, k) \in Nat /\ Upto(locs, k) <= AllOn(locs)
         /\ \A k \in 1 .. Len(locs) : Upto(locs, k) = Upto(locs, k - 1) + locs[k].amount
  <1> DEFINE f == Amounts(locs)
             n == Len(locs)
  <1>1. /\ n \in Nat /\ IsFiniteSet(1 .. n)
        /\ \A k \in 1 .. n : f[k] = locs[k].amount /\ f[k] \in Nat /\ f[k] \in Int
        /\ \A k : Upto(locs, k) = SumFunctionOnSet(f, 1 .. k)
    BY AmountsNat
  <1>2. AllOn(locs) = SumFunctionOnSet(f, 1 .. n)
    BY <1>1 DEF AllOn
  <1> HIDE DEF f, n
  <1>3. Upto(locs, 0) = 0
    <2>1. 1 .. 0 = {}
      OBVIOUS
    <2>. QED
      BY <1>1, <2>1, SumEmpty
  <1>4. ASSUME NEW k \in 0 .. n
        PROVE  Upto(locs, k) \in Nat /\ Upto(locs, k) <= AllOn(locs)
    <2>1. 1 .. k \in SUBSET (1 .. n)
      BY <1>1
    <2>2. IsFiniteSet(1 .. k)
      BY <1>1, <2>1, FS_Subset
    <2>3. SumFunctionOnSet(f, 1 .. k) \in Nat
      BY <1>1, <2>1, <2>2, SumNat
    <2>4. SumFunctionOnSet(f, 1 .. k) <= SumFunctionOnSet(f, 1 .. n)
      BY <1>1, <2>1, SumPart
    <2>. QED
      BY <1>1, <1>2, <2>3, <2>4
  <1>5. ASSUME NEW k \in 1 .. n
        PROVE  Upto(locs, k) = Upto(locs, k - 1) + locs[k].amount
    <2>1. 1 .. k \in SUBSET (1 .. n) /\ k \in 1 .. k /\ (1 .. k) \ {k} = 1 .. (k - 1)
      BY <1>1
    <2>2. IsFiniteSet(1 .. k)
      BY <1>1, <2>1, FS_Subset
    <2>3. SumFunctionOnSet(f, 1 .. k) = f[k] + SumFunctionOnSet(f, 1 .. (k - 1))
      <3>1. \A x \in 1 .. k : f[x] \in Int
        BY <1>1, <2>1
      <3>2. SumFunctionOnSet(f, 1 .. k) = f[k] + SumFunctionOnSet(f, (1 .. k) \ {k})
        BY <2>1, <2>2, <3>1, SumTake
      <3>. QED
        BY <2>1, <3>2
    <2>4. Upto(locs, k - 1) \in Nat
      <3>1. k - 1 \in 0 .. n
        BY <1>1
      <3>. QED
        BY <1>4, <3>1
    <2>. QED
      BY <1>1, <2>3, <2>4
  <1>. QED
    BY <1>3, <1>4, <1>5 DEF n

\* replenish: the shelves hold amount more.
LEMMA LocsWithMore ==
  ASSUME NEW locs, LocsNat(locs), NamesOnce(locs), NEW s \in ShelfNames, NEW amount \in Nat
  PROVE  /\ LocsNat(LocsWith(locs, amount, s))
         /\ AllOn(LocsWith(locs, amount, s)) = AllOn(locs) + amount
  <1> DEFINE f == Amounts(locs)
             n == Len(locs)
             ls == LocsWith(locs, amount, s)
             g == Amounts(ls)
  <1>1. /\ n \in Nat /\ DOMAIN locs = 1 .. n /\ IsFiniteSet(1 .. n)
        /\ \A k \in 1 .. n : f[k] = locs[k].amount /\ f[k] \in Nat /\ f[k] \in Int
        /\ AllOn(locs) = SumFunctionOnSet(f, 1 .. n)
    BY AmountsNat DEF AllOn
  <1>2. /\ \A k \in 1 .. n : locs[k] \in Loc(Nat)
        /\ NamesIn(locs) = {locs[k].shelf_name : k \in 1 .. n}
    BY LocsShape DEF LocsNat
  <1>3. CASE s \in NamesIn(locs)
    <2> DEFINE more(k) == locs[k].amount + (IF locs[k].shelf_name = s THEN amount ELSE 0)
               loc(k) == [locs[k] EXCEPT !.amount = more(k)]
    <2>1. ls = [k \in 1 .. n |-> loc(k)]
      BY <1>1, <1>3 DEF LocsWith
    <2>2. \A k \in 1 .. n : loc(k) \in Loc(Nat) /\ loc(k).amount = more(k) /\ more(k) \in Nat
      BY <1>2 DEF Loc
    <2>3. PICK y \in 1 .. n : locs[y].shelf_name = s
      BY <1>2, <1>3
    <2>4. more(y) = f[y] + amount /\ \A k \in 1 .. n : k # y => more(k) = f[k]
      <3>1. \A k \in 1 .. n : locs[k].shelf_name = s => k = y
        BY <1>1, <2>3 DEF NamesOnce
      <3>2. \A k \in 1 .. n : k # y => more(k) = f[k]
        BY <1>1, <3>1
      <3>3. more(y) = f[y] + amount
        BY <1>1, <2>3
      <3>. QED
        BY <3>2, <3>3
    <2> HIDE DEF more, loc, ls
    <2>5. LocsNat(ls) /\ Len(ls) = n
      <3>1. ls \in Seq(Loc(Nat))
        BY <1>1, <2>1, <2>2, IsASeq
      <3>. QED
        BY <1>1, <2>1, <3>1, LenProperties DEF LocsNat
    <2>6. /\ \A k \in 1 .. n : g[k] = ls[k].amount /\ g[k] \in Int
          /\ AllOn(ls) = SumFunctionOnSet(g, 1 .. n)
      BY <2>5, AmountsNat DEF AllOn
    <2>7. \A k \in 1 .. n : g[k] = more(k)
      BY <2>1, <2>2, <2>6
    <2> HIDE DEF f, g, n
    <2>8. SumFunctionOnSet(g, 1 .. n) = SumFunctionOnSet(f, 1 .. n) - f[y] + g[y]
      <3>1. /\ \A k \in 1 .. n : f[k] \in Int /\ g[k] \in Int
            /\ \A k \in 1 .. n : k # y => f[k] = g[k]
        BY <1>1, <2>4, <2>6, <2>7
      <3> DEFINE S == 1 .. n
      <3>2. IsFiniteSet(S) /\ y \in S
        BY <1>1, <2>3
      <3>3. DifferAt(f, g, S, y)
        BY <3>1 DEF DifferAt
      <3> HIDE DEF S
      <3>4. SumFunctionOnSet(g, S) = SumFunctionOnSet(f, S) - f[y] + g[y]
        BY <3>2, <3>3, SumChange
      <3>. QED
        BY <3>4 DEF S
    <2>9. SumFunctionOnSet(f, 1 .. n) \in Int
      BY <1>1, SumInt
    <2>. QED
      BY <1>1, <2>4, <2>5, <2>6, <2>7, <2>8, <2>9 DEF ls
  <1>4. CASE s \notin NamesIn(locs)
    <2> DEFINE new == <<[shelf_name |-> s, amount |-> amount]>>
    <2>1. ls = new \o locs
      BY <1>4 DEF LocsWith
    <2>2. new \in Seq(Loc(Nat)) /\ Len(new) = 1 /\ new[1].amount = amount
      BY DEF Loc
    <2> HIDE DEF new, ls
    <2>3. /\ ls \in Seq(Loc(Nat))
          /\ Len(ls) = n + 1
          /\ \A k \in 1 .. (n + 1) : ls[k] = IF k <= 1 THEN new[k] ELSE locs[k - 1]
      <3>1. /\ ls \in Seq(Loc(Nat))
            /\ Len(ls) = Len(new) + Len(locs)
            /\ \A k \in 1 .. (Len(new) + Len(locs)) :
                 ls[k] = IF k <= Len(new) THEN new[k] ELSE locs[k - Len(new)]
        BY <2>1, <2>2, ConcatProperties DEF LocsNat
      <3>. QED
        BY <1>1, <2>2, <3>1
    <2>4. LocsNat(ls)
      BY <2>3 DEF LocsNat
    <2>5. /\ IsFiniteSet(1 .. (n + 1))
          /\ \A k \in 1 .. (n + 1) : g[k] = ls[k].amount /\ g[k] \in Int
          /\ AllOn(ls) = SumFunctionOnSet(g, 1 .. (n + 1))
      BY <2>3, <2>4, AmountsNat DEF AllOn
    <2> HIDE DEF f, g
    <2> DEFINE T == (1 .. (n + 1)) \ {1}
               h == [k \in 1 .. n |-> k + 1]
    <2>6. /\ \A k \in 1 .. n : h[k] \in T /\ g[h[k]] = f[k]
          /\ \A j, k \in 1 .. n : h[j] = h[k] => j = k
          /\ \A z \in T : \E k \in 1 .. n : h[k] = z
      <3>1. ASSUME NEW k \in 1 .. n
            PROVE  h[k] \in T /\ g[h[k]] = f[k]
        <4>1. h[k] = k + 1 /\ k + 1 \in T /\ k + 1 \in 1 .. (n + 1) /\ ~(k + 1 <= 1) /\ (k + 1) - 1 = k
          BY <1>1
        <4>2. ls[k + 1] = locs[k]
          BY <2>3, <4>1
        <4>. QED
          BY <1>1, <2>5, <4>1, <4>2
      <3>2. \A j, k \in 1 .. n : h[j] = h[k] => j = k
        BY <1>1
      <3>3. \A z \in T : z - 1 \in 1 .. n /\ h[z - 1] = z
        BY <1>1
      <3>. QED
        BY <3>1, <3>2, <3>3
    <2>7. g[1] = amount /\ 1 \in 1 .. (n + 1)
      BY <1>1, <2>2, <2>3, <2>5
    <2> HIDE DEF h, n
    <2>8. SumFunctionOnSet(g, 1 .. (n + 1)) = g[1] + SumFunctionOnSet(g, T)
      <3> DEFINE S == 1 .. (n + 1)
      <3>1. IsFiniteSet(S) /\ (\A k \in S : g[k] \in Int) /\ 1 \in S
        BY <2>5, <2>7
      <3> HIDE DEF S
      <3>2. SumFunctionOnSet(g, S) = g[1] + SumFunctionOnSet(g, S \ {1})
        BY <3>1, SumTake
      <3>. QED
        BY <3>2 DEF S
    <2> HIDE DEF T
    <2>9. SumFunctionOnSet(f, 1 .. n) = SumFunctionOnSet(g, T)
      <3> DEFINE S == 1 .. n
      <3>1. /\ IsFiniteSet(S)
            /\ \A k \in S : f[k] \in Int /\ h[k] \in T /\ g[h[k]] = f[k]
            /\ \A j, k \in S : h[j] = h[k] => j = k
            /\ \A z \in T : \E k \in S : h[k] = z
        BY <1>1, <2>6
      <3> HIDE DEF S
      <3>2. SumFunctionOnSet(f, S) = SumFunctionOnSet(g, T)
        BY <3>1, SumMatched
      <3>. QED
        BY <3>2 DEF S
    <2>10. SumFunctionOnSet(f, 1 .. n) \in Int
      BY <1>1, SumInt
    <2>. QED
      BY <1>1, <2>4, <2>5, <2>7, <2>8, <2>9, <2>10 DEF ls
  <1>. QED
    BY <1>3, <1>4

\* checkout: the shelves give what was sold, and the first that is left does
\* not give more than it has.
LEMMA LocsAfterSale ==
  ASSUME NEW locs, LocsNat(locs), NEW a \in Nat
  PROVE  /\ LocsNat(LocsAfter(locs, a))
         /\ Sold(locs, a) \in Nat /\ Sold(locs, a) <= AllOn(locs) /\ Sold(locs, a) <= a
         /\ AllOn(LocsAfter(locs, a)) = AllOn(locs) - Sold(locs, a)
         /\ AllOn(locs) >= a => Sold(locs, a) = a
  <1> DEFINE f == Amounts(locs)
             n == NoGivenUp(locs, a)
             sold == Sold(locs, a)
             len == Len(locs)
             ls == LocsAfter(locs, a)
             g == Amounts(ls)
             all == AllOn(locs)
             rest == locs[n + 1].amount - (sold - Upto(locs, n))
             loc(k) == IF k = 1 THEN [locs[n + 1] EXCEPT !.amount = rest] ELSE locs[n + k]
  <1>1. /\ len \in Nat /\ DOMAIN locs = 1 .. len /\ IsFiniteSet(1 .. len)
        /\ \A k \in 1 .. len : f[k] = locs[k].amount /\ f[k] \in Nat /\ f[k] \in Int
        /\ \A k : Upto(locs, k) = SumFunctionOnSet(f, 1 .. k)
        /\ all = SumFunctionOnSet(f, 1 .. len)
    BY AmountsNat DEF AllOn
  <1>2. \A k \in 1 .. len : locs[k] \in Loc(Nat)
    BY LocsShape DEF LocsNat
  <1>3. /\ Upto(locs, 0) = 0
        /\ \A k \in 0 .. len : Upto(locs, k) \in Nat /\ Upto(locs, k) <= all
        /\ \A k \in 1 .. len : Upto(locs, k) = Upto(locs, k - 1) + locs[k].amount
    BY UptoSteps
  <1>4. /\ n \in 0 .. len
        /\ \A k \in 1 .. n : GivenUp(locs, a, k)
        /\ n = len \/ ~GivenUp(locs, a, n + 1)
    BY <1>1, NoGivenUpExists
  <1>5. all \in Nat /\ Upto(locs, len) = all
    BY <1>1, <1>3
  <1>6. sold = IF all < a THEN all ELSE a
    BY DEF Sold, AllOn
  <1>7. Upto(locs, n) <= a /\ Upto(locs, n) \in Nat /\ Upto(locs, n) <= all
    <2>1. Upto(locs, n) \in Nat /\ Upto(locs, n) <= all
      BY <1>3, <1>4
    <2>2. CASE n = 0
      BY <1>3, <2>1, <2>2
    <2>3. CASE n # 0
      <3>1. n \in 1 .. n
        BY <1>1, <1>4, <2>3
      <3>. QED
        BY <1>4, <2>1, <3>1 DEF GivenUp
    <2>. QED
      BY <2>1, <2>2, <2>3
  <1>8. ls = [k \in 1 .. (len - n) |-> loc(k)]
    BY DEF LocsAfter
  <1>9. ASSUME n < len
        PROVE  /\ n + 1 \in 1 .. len /\ sold = a /\ rest \in Nat
    <2>1. n + 1 \in 1 .. len /\ (n + 1) - 1 = n
      BY <1>1, <1>4, <1>9
    <2>2. Upto(locs, n + 1) = Upto(locs, n) + locs[n + 1].amount
      BY <1>3, <2>1
    <2>3. Upto(locs, n + 1) \in Nat /\ Upto(locs, n + 1) <= all /\ locs[n + 1].amount \in Nat
      <3>1. n + 1 \in 0 .. len
        BY <1>1, <1>4, <1>9
      <3>. QED
        BY <1>1, <1>3, <2>1, <3>1
    <2>4. ~(Upto(locs, n) < a) \/ ~(Upto(locs, n + 1) <= a)
      BY <1>4, <1>9, <2>1 DEF GivenUp
    <2> HIDE DEF n, sold, len, all
    <2>5. sold = a
      BY <1>5, <1>6, <1>7, <2>3, <2>4
    <2>6. rest \in Nat
      BY <1>7, <2>2, <2>3, <2>4, <2>5
    <2>. QED
      BY <2>1, <2>5, <2>6
  <1>10. \A k \in 1 .. (len - n) : n + k \in 1 .. len
    <2> HIDE DEF n, len
    <2>1. len \in Nat /\ n \in 0 .. len
      BY <1>1, <1>4, Zenon
    <2>. QED
      BY <2>1
  <1>11. \A k \in 1 .. (len - n) :
           /\ loc(k) \in Loc(Nat)
           /\ loc(k).amount = IF k = 1 THEN rest ELSE f[n + k]
    <2> SUFFICES ASSUME NEW k \in 1 .. (len - n)
                 PROVE  /\ loc(k) \in Loc(Nat)
                        /\ loc(k).amount = IF k = 1 THEN rest ELSE f[n + k]
      OBVIOUS
    <2>1. CASE k = 1
      <3>1. n < len
        BY <1>1, <1>4, <2>1
      <3>2. rest \in Nat /\ locs[n + 1] \in Loc(Nat)
        BY <1>2, <1>9, <3>1
      <3> HIDE DEF rest
      <3>. QED
        BY <2>1, <3>2 DEF Loc
    <2>2. CASE k # 1
      BY <1>1, <1>2, <1>10, <2>2
    <2>. QED
      BY <2>1, <2>2
  <1> HIDE DEF loc, rest, ls, n
  <1>12. len - n \in Nat
    <2> HIDE DEF f, len
    <2>1. len \in Nat /\ n \in 0 .. len
      BY <1>1, <1>4
    <2>. QED
      BY <2>1
  <1>13. LocsNat(ls) /\ Len(ls) = len - n
    <2>1. ls \in Seq(Loc(Nat))
      BY <1>8, <1>11, <1>12, IsASeq
    <2>. QED
      BY <1>8, <1>12, <2>1, LenProperties DEF LocsNat
  <1>14. /\ IsFiniteSet(1 .. (len - n))
         /\ \A k \in 1 .. (len - n) : g[k] = ls[k].amount /\ g[k] \in Int
         /\ AllOn(ls) = SumFunctionOnSet(g, 1 .. (len - n))
    BY <1>13, AmountsNat DEF AllOn
  <1>15. \A k \in 1 .. (len - n) : g[k] = IF k = 1 THEN rest ELSE f[n + k]
    BY <1>8, <1>11, <1>14
  <1> HIDE DEF f, g, len, all, sold
  <1>16. sold \in Nat /\ sold <= all /\ sold <= a /\ (all >= a => sold = a)
    BY <1>5, <1>6
  <1>17. CASE n = len
    <2>1. AllOn(ls) = 0
      <3>1. 1 .. (len - n) = {}
        BY <1>1, <1>17
      <3>. QED
        BY <1>14, <3>1, SumEmpty
    <2>2. sold = all
      <3>1. all <= a
        BY <1>5, <1>7, <1>17
      <3>. QED
        BY <1>5, <1>6, <3>1
    <2>. QED
      BY <1>5, <1>13, <1>16, <2>1, <2>2 DEF ls, all, sold
  <1>18. CASE n # len
    <2> DEFINE T == (n + 1) .. len
               q == [j \in 1 .. len |-> IF j = n + 1 THEN rest ELSE f[j]]
               h == [k \in 1 .. (len - n) |-> n + k]
    <2>1. n < len /\ n + 1 \in T /\ n \in Nat /\ T \in SUBSET (1 .. len)
      BY <1>1, <1>4, <1>18
    <2>2. n + 1 \in 1 .. len /\ sold = a /\ rest \in Nat
      BY <1>9, <2>1
    <2>3. IsFiniteSet(T) /\ \A j \in T : f[j] \in Int /\ q[j] \in Int /\ (j # n + 1 => f[j] = q[j])
      <3>1. IsFiniteSet(T)
        BY <1>1, <2>1, FS_Subset
      <3>2. \A j \in T : f[j] \in Int /\ q[j] \in Int /\ (j # n + 1 => f[j] = q[j])
        BY <1>1, <2>1, <2>2
      <3>. QED
        BY <3>1, <3>2
    <2>4. q[n + 1] = rest
      BY <2>2
    <2>5. /\ \A k \in 1 .. (len - n) : h[k] \in T /\ q[h[k]] = g[k]
          /\ \A j, k \in 1 .. (len - n) : h[j] = h[k] => j = k
          /\ \A z \in T : \E k \in 1 .. (len - n) : h[k] = z
      <3>1. ASSUME NEW k \in 1 .. (len - n)
            PROVE  h[k] \in T /\ q[h[k]] = g[k]
        <4>1. h[k] = n + k /\ n + k \in T /\ n + k \in 1 .. len /\ (n + k = n + 1 <=> k = 1)
          BY <1>1, <2>1
        <4>. QED
          BY <1>15, <4>1
      <3>2. \A j, k \in 1 .. (len - n) : h[j] = h[k] => j = k
        BY <1>1, <2>1
      <3>3. \A z \in T : z - n \in 1 .. (len - n) /\ h[z - n] = z
        BY <1>1, <2>1
      <3>. QED
        BY <3>1, <3>2, <3>3
    <2>6. (1 .. n) \cup T = 1 .. len /\ (1 .. n) \cap T = {} /\ 1 .. n \in SUBSET (1 .. len)
      BY <1>1, <2>1
    <2> HIDE DEF T, q, h
    <2>7. SumFunctionOnSet(q, T) = SumFunctionOnSet(f, T) - f[n + 1] + q[n + 1]
      <3> DEFINE y == n + 1
      <3>1. /\ IsFiniteSet(T) /\ y \in T
            /\ DifferAt(f, q, T, y)
        BY <2>1, <2>3 DEF DifferAt
      <3> HIDE DEF y
      <3>2. SumFunctionOnSet(q, T) = SumFunctionOnSet(f, T) - f[y] + q[y]
        BY <3>1, SumChange
      <3>. QED
        BY <3>2 DEF y
    <2>8. SumFunctionOnSet(g, 1 .. (len - n)) = SumFunctionOnSet(q, T)
      <3> DEFINE S == 1 .. (len - n)
      <3>1. /\ IsFiniteSet(S)
            /\ \A k \in S : g[k] \in Int /\ h[k] \in T /\ q[h[k]] = g[k]
            /\ \A j, k \in S : h[j] = h[k] => j = k
            /\ \A z \in T : \E k \in S : h[k] = z
        BY <1>14, <2>5
      <3> HIDE DEF S
      <3>2. SumFunctionOnSet(g, S) = SumFunctionOnSet(q, T)
        BY <3>1, SumMatched
      <3>. QED
        BY <3>2 DEF S
    <2>9. all = Upto(locs, n) + SumFunctionOnSet(f, T)
      <3>1. IsFiniteSet(1 .. n)
        BY <1>1, <2>6, FS_Subset
      <3>2. \A j \in (1 .. n) \cup T : f[j] \in Int
        BY <1>1, <2>6
      <3> DEFINE S == 1 .. n
      <3>3. /\ IsFiniteSet(S) /\ IsFiniteSet(T) /\ S \cap T = {}
            /\ \A j \in S \cup T : f[j] \in Int
        BY <2>3, <2>6, <3>1, <3>2
      <3> HIDE DEF S
      <3>4. SumFunctionOnSet(f, S \cup T) = SumFunctionOnSet(f, S) + SumFunctionOnSet(f, T)
        BY <3>3, SumUnion
      <3>. QED
        BY <1>1, <2>6, <3>4 DEF S
    <2>10. SumFunctionOnSet(f, T) \in Int
      BY <2>3, SumInt
    <2>11. rest = f[n + 1] - (sold - Upto(locs, n)) /\ f[n + 1] \in Int
      BY <1>1, <2>2 DEF rest
    <2>12. AllOn(ls) = all - sold
      BY <1>7, <1>14, <1>16, <2>2, <2>4, <2>7, <2>8, <2>9, <2>10, <2>11
    <2>. QED
      BY <1>13, <1>16, <2>12 DEF ls, all, sold
  <1>. QED
    BY <1>17, <1>18

-----------------------------------------------------------------------------
(* The books.                                                              *)

MerchType == [name : Names, address : Addresses, price : Prices, total_stock : Nat,
              stock_in_cart : Nat, locs : Seq(Loc(Nat))]

\* The record r of a merch of which the carts hold so much.  Of a merch that is
\* no longer listed they hold nothing, though items may lead to it.
BookOk(r, held, listed) ==
  /\ r \in MerchType
  /\ r.stock_in_cart = held /\ held <= r.total_stock
  /\ listed => r.total_stock = AllOn(r.locs)
  /\ ~listed => held = 0 /\ r.locs = << >>

BucketsOk(cs) ==
  \A i \in DOMAIN cs : \A k \in DOMAIN cs[i].products : cs[i].products[k].bucket \in Nat

BooksInv ==
  /\ IsFiniteSet(DOMAIN merch) /\ DOMAIN merch \subseteq Merch
  /\ TablesOk(carts) /\ BucketsOk(carts)
  /\ \A m \in DOMAIN merch : BookOk(merch[m], HeldByAll(carts, m), m \in Range(warehouse))

\* The operators of the module in terms of these.
LEMMA SameSums ==
  ASSUME NEW m, NEW i
  PROVE  /\ Held(i, m) = HeldIn(carts[i].products, m)
         /\ OnShelves(m) = AllOn(merch[m].locs)
  BY DEF Held, HeldIn, Products, OnShelves, AllOn

LEMMA HeldOfAll ==
  ASSUME NEW m
  PROVE  HeldByAll(carts, m) = SumFunction([i \in DOMAIN carts |-> Held(i, m)])
  BY DEF HeldByAll, HeldBy, Held, HeldIn, Products

\* Nothing is held of a merch to which no item leads.
LEMMA HeldByNone ==
  ASSUME NEW cs, TablesOk(cs), NEW m,
         \A i \in DOMAIN cs : \A k \in DOMAIN cs[i].products : cs[i].products[k].merch # m
  PROVE  HeldByAll(cs, m) = 0
  <1> DEFINE f == HeldBy(cs, m)
  <1>1. /\ IsFiniteSet(DOMAIN cs) /\ DOMAIN f = DOMAIN cs
        /\ \A i \in DOMAIN cs : f[i] = HeldIn(cs[i].products, m)
    BY HeldByNat
  <1>2. \A i \in DOMAIN cs : ItemsOf(cs[i].products, m) = {}
    BY DEF ItemsOf
  <1>3. \A i \in DOMAIN cs : f[i] = 0
    BY <1>1, <1>2, SumEmpty DEF HeldIn
  <1>4. HeldByAll(cs, m) = SumFunctionOnSet(f, DOMAIN cs)
    BY <1>1 DEF HeldByAll, SumFunction
  <1> HIDE DEF f
  <1>. QED
    BY <1>1, <1>3, <1>4, SumZero

\* Facts about the books that hold at any time.
LEMMA BookFacts ==
  ASSUME BooksInv, NEW m \in DOMAIN merch
  PROVE  /\ merch[m] \in MerchType
         /\ merch[m].total_stock \in Nat /\ merch[m].stock_in_cart \in Nat
         /\ merch[m].price \in Nat /\ LocsNat(merch[m].locs)
         /\ merch[m].stock_in_cart = HeldByAll(carts, m)
         /\ \A i \in DOMAIN carts :
              /\ TableOk(carts[i].products)
              /\ Held(i, m) \in Nat /\ Held(i, m) <= merch[m].stock_in_cart
  <1>1. BookOk(merch[m], HeldByAll(carts, m), m \in Range(warehouse)) /\ TablesOk(carts)
    BY DEF BooksInv
  <1>2. /\ merch[m] \in MerchType
        /\ merch[m].total_stock \in Nat /\ merch[m].stock_in_cart \in Nat
        /\ merch[m].price \in Nat /\ LocsNat(merch[m].locs)
        /\ merch[m].stock_in_cart = HeldByAll(carts, m)
    BY <1>1, PricesAssumption DEF BookOk, MerchType, LocsNat
  <1>3. ASSUME NEW i \in DOMAIN carts
        PROVE  /\ TableOk(carts[i].products)
               /\ Held(i, m) \in Nat /\ Held(i, m) <= merch[m].stock_in_cart
    <2>1. TableOk(carts[i].products)
      BY <1>1 DEF TablesOk
    <2>. QED
      BY <1>1, <1>2, <2>1, SameSums, HeldNat, HeldByAllNat
  <1>. QED
    BY <1>2, <1>3

\* A new merch has nothing on shelves and in carts.
LEMMA InsertBooks ==
  ASSUME BooksInv, ShelvesInv, NEW m \in Merch, NEW name \in Names,
         NEW address \in Addresses, NEW price \in Prices, MerchInsert(m, name, address, price)
  PROVE  BooksInv'
  <1> DEFINE new == [name |-> name, address |-> address, price |-> price,
                     total_stock |-> 0, stock_in_cart |-> 0, locs |-> << >>]
  <1>1. /\ DOMAIN warehouse' = DOMAIN warehouse \cup {name}
        /\ \A n \in DOMAIN warehouse' : warehouse'[n] = IF n = name THEN m ELSE warehouse[n]
        /\ DOMAIN merch' = DOMAIN merch \cup {m}
        /\ \A x \in DOMAIN merch' : merch'[x] = IF x = m THEN new ELSE merch[x]
        /\ m \notin DOMAIN merch /\ name \notin DOMAIN warehouse
        /\ carts' = carts
    BY DEF MerchInsert, With
  <1>2. Range(warehouse') = Range(warehouse) \cup {m}
    BY <1>1 DEF Range
  <1>3. HeldByAll(carts, m) = 0
    <2>1. \A i \in DOMAIN carts : \A k \in DOMAIN carts[i].products : carts[i].products[k].merch # m
      BY <1>1 DEF ShelvesInv, ItemsOk
    <2>. QED
      BY <2>1, HeldByNone DEF BooksInv
  <1>4. BookOk(new, 0, TRUE)
    <2>1. << >> \in Seq(Loc(Nat)) /\ Len(<< >>) = 0
      BY EmptySeq
    <2>2. AllOn(<< >>) = 0
      BY <2>1, UptoSteps DEF AllOn, LocsNat
    <2>3. new \in MerchType
      BY <2>1 DEF MerchType
    <2>. QED
      BY <2>2, <2>3 DEF BookOk
  <1> HIDE DEF new
  <1>5. \A x \in DOMAIN merch' : BookOk(merch'[x], HeldByAll(carts, x), x \in Range(warehouse'))
    <2>1. ASSUME NEW x \in DOMAIN merch'
          PROVE  BookOk(merch'[x], HeldByAll(carts, x), x \in Range(warehouse'))
      <3>1. CASE x = m
        BY <1>1, <1>2, <1>3, <1>4, <3>1
      <3>2. CASE x # m
        <4>1. x \in DOMAIN merch /\ merch'[x] = merch[x]
              /\ (x \in Range(warehouse') <=> x \in Range(warehouse))
          BY <1>1, <1>2, <3>2
        <4>2. BookOk(merch[x], HeldByAll(carts, x), x \in Range(warehouse))
          BY <4>1 DEF BooksInv
        <4>. QED
          BY <4>1, <4>2 DEF BookOk
      <3>. QED
        BY <3>1, <3>2
    <2>. QED
      BY <2>1
  <1>6. IsFiniteSet(DOMAIN merch') /\ DOMAIN merch' \subseteq Merch
    <2>1. IsFiniteSet(DOMAIN merch')
      BY <1>1, FS_AddElement DEF BooksInv
    <2>. QED
      BY <1>1, <2>1 DEF BooksInv
  <1>. QED
    BY <1>1, <1>5, <1>6 DEF BooksInv

\* The merch and its name do not change the books.
LEMMA EditBooks ==
  ASSUME BooksInv, ShelvesInv, NEW m \in Range(warehouse), NEW name \in Names,
         NEW address \in Addresses, NEW price \in Prices,
         name \notin DOMAIN warehouse \/ name = merch[m].name, MerchEdit(m, name, address, price)
  PROVE  BooksInv'
  <1>1. /\ Range(warehouse') = Range(warehouse)
        /\ DOMAIN merch' = DOMAIN merch
        /\ \A x \in DOMAIN merch : x # m => merch'[x] = merch[x]
        /\ carts' = carts
    BY EditTables
  <1>2. m \in DOMAIN merch
    BY DEF ShelvesInv, ShelvesAgree, Range
  <1>3. BookOk(merch[m], HeldByAll(carts, m), m \in Range(warehouse))
    BY <1>2 DEF BooksInv
  <1>4. merch'[m] = [merch[m] EXCEPT !.name = name, !.address = address, !.price = price]
    BY <1>2 DEF MerchEdit
  <1>5. BookOk(merch'[m], HeldByAll(carts, m), m \in Range(warehouse))
    BY <1>3, <1>4 DEF BookOk, MerchType
  <1>6. \A x \in DOMAIN merch : BookOk(merch'[x], HeldByAll(carts, x), x \in Range(warehouse))
    BY <1>1, <1>5 DEF BooksInv
  <1>. QED
    BY <1>1, <1>6 DEF BooksInv

LEMMA ReplenishBooks ==
  ASSUME BooksInv, ShelvesInv, NEW m \in Range(warehouse), NEW amount \in Nat,
         NEW s \in ShelfNames, MerchReplenish(m, amount, s)
  PROVE  BooksInv'
  <1>1. /\ warehouse' = warehouse /\ carts' = carts
        /\ DOMAIN merch' = DOMAIN merch
        /\ \A x \in DOMAIN merch : x # m => merch'[x] = merch[x]
    BY DEF MerchReplenish
  <1>2. m \in DOMAIN merch /\ NamesOnce(merch[m].locs)
    BY DEF ShelvesInv, ShelvesAgree, Range
  <1>3. BookOk(merch[m], HeldByAll(carts, m), TRUE)
    BY <1>2 DEF BooksInv, BookOk
  <1>4. LocsNat(merch[m].locs) /\ merch[m].total_stock \in Nat
    BY <1>2, BookFacts
  <1> DEFINE locs == LocsWith(merch[m].locs, amount, s)
             total == merch[m].total_stock + amount
  <1>5. LocsNat(locs) /\ AllOn(locs) = total
    BY <1>2, <1>3, <1>4, LocsWithMore DEF BookOk
  <1>6. merch'[m] = [merch[m] EXCEPT !.total_stock = total, !.locs = locs]
    BY <1>2 DEF MerchReplenish, StockWith
  <1>7. total \in Nat /\ merch[m].total_stock <= total
    BY <1>4
  <1> HIDE DEF locs, total
  <1>8. BookOk(merch'[m], HeldByAll(carts, m), TRUE)
    <2>1. HeldByAll(carts, m) \in Nat
      BY HeldByAllNat DEF BooksInv
    <2>2. merch'[m] \in MerchType
      BY <1>3, <1>5, <1>6, <1>7 DEF BookOk, MerchType, LocsNat
    <2>3. merch'[m].total_stock = total /\ merch'[m].locs = locs
          /\ merch'[m].stock_in_cart = merch[m].stock_in_cart
      BY <1>3, <1>6 DEF BookOk, MerchType
    <2>. QED
      BY <1>3, <1>4, <1>5, <1>7, <2>1, <2>2, <2>3 DEF BookOk
  <1>9. \A x \in DOMAIN merch : BookOk(merch'[x], HeldByAll(carts, x), x \in Range(warehouse))
    <2>1. BookOk(merch'[m], HeldByAll(carts, m), m \in Range(warehouse))
      BY <1>8 DEF BookOk
    <2>. QED
      BY <1>1, <2>1 DEF BooksInv
  <1>. QED
    BY <1>1, <1>9 DEF BooksInv

\* A step after which no more merch are there than before.
LEMMA KeepBooks ==
  ASSUME BooksInv, TablesOk(carts'), BucketsOk(carts'), DOMAIN merch' \subseteq DOMAIN merch,
         \A m \in DOMAIN merch' :
           BookOk(merch'[m], HeldByAll(carts', m), m \in Range(warehouse'))
  PROVE  BooksInv'
  <1>1. IsFiniteSet(DOMAIN merch') /\ DOMAIN merch' \subseteq Merch
    BY FS_Subset DEF BooksInv
  <1>. QED
    BY <1>1 DEF BooksInv

\* When all that changes about a merch is how much of it the carts hold.
LEMMA BookHeld ==
  ASSUME NEW r, NEW held, NEW listed, BookOk(r, held, listed), NEW v \in Nat, v <= held
  PROVE  BookOk([r EXCEPT !.stock_in_cart = v], v, listed)
  <1> DEFINE q == [r EXCEPT !.stock_in_cart = v]
  <1>1. r \in MerchType /\ r.total_stock \in Nat /\ held \in Nat
    BY DEF BookOk, MerchType
  <1>2. /\ q \in MerchType /\ q.stock_in_cart = v
        /\ q.total_stock = r.total_stock /\ q.locs = r.locs
    BY <1>1 DEF MerchType
  <1> HIDE DEF q
  <1>3. v <= q.total_stock
    BY <1>1, <1>2 DEF BookOk
  <1>4. ~listed => v = 0
    BY DEF BookOk
  <1>. QED
    BY <1>2, <1>3, <1>4 DEF BookOk, q

\* Removed from the warehouse, a merch has no shelves; no cart held any of it.
LEMMA DestroyBooks ==
  ASSUME BooksInv, ShelvesInv, NEW m \in Range(warehouse),
         merch[m].stock_in_cart = 0, ProductDestroy(m)
  PROVE  BooksInv'
  <1>1. Range(warehouse') = Range(warehouse) \ {m} /\ carts' = carts
    BY DestroyTables DEF ProductDestroy
  <1>2. Range(warehouse) \subseteq DOMAIN merch
    BY DEF ShelvesInv, ShelvesAgree, Range
  <1>3. DOMAIN merch' = Reached(warehouse', carts)
    BY DEF ProductDestroy, Restrict
  <1>4. DOMAIN merch' \subseteq DOMAIN merch
    <2>1. Range(warehouse') \subseteq DOMAIN merch
      BY <1>1, <1>2
    <2>. QED
      BY <1>3, <2>1, ReachedOnly DEF ShelvesInv, ItemsOk
  <1>5. \A x \in DOMAIN merch' : merch'[x] = [merch EXCEPT ![m].locs = << >>][x]
    BY <1>3 DEF ProductDestroy, Restrict
  <1>6. ASSUME NEW x \in DOMAIN merch'
        PROVE  BookOk(merch'[x], HeldByAll(carts, x), x \in Range(warehouse'))
    <2>1. BookOk(merch[x], HeldByAll(carts, x), x \in Range(warehouse)) /\ x \in DOMAIN merch
      BY <1>4 DEF BooksInv
    <2>2. CASE x = m
      <3>1. merch'[x] = [merch[x] EXCEPT !.locs = << >>]
        BY <1>5, <2>1, <2>2
      <3>2. HeldByAll(carts, x) = 0 /\ merch[x].stock_in_cart = 0
        BY <2>1, <2>2 DEF BookOk
      <3>3. << >> \in Seq(Loc(Nat))
        OBVIOUS
      <3>4. /\ merch'[x] \in MerchType /\ merch'[x].locs = << >>
            /\ merch'[x].stock_in_cart = 0 /\ merch'[x].total_stock = merch[x].total_stock
        BY <2>1, <3>1, <3>2, <3>3 DEF BookOk, MerchType
      <3>. QED
        BY <1>1, <2>1, <2>2, <3>2, <3>4 DEF BookOk
    <2>3. CASE x # m
      <3>1. merch'[x] = merch[x] /\ (x \in Range(warehouse') <=> x \in Range(warehouse))
        BY <1>1, <1>5, <2>1, <2>3
      <3>. QED
        BY <2>1, <3>1 DEF BookOk
    <2>. QED
      BY <2>2, <2>3
  <1>. QED
    BY <1>1, <1>4, <1>6, KeepBooks DEF BooksInv

LEMMA CreateBooks ==
  ASSUME BooksInv, CartsInv, CartCreate
  PROVE  BooksInv'
  <1>1. /\ carts' = Append(carts, [cart_id |-> next_cart_id, products |-> << >>])
        /\ warehouse' = warehouse /\ merch' = merch
    BY DEF CartCreate, NewId
  <1>2. next_cart_id \in Nat /\ TablesOk(carts)
    BY DEF CartsInv, BooksInv
  <1>3. /\ TablesOk(carts')
        /\ \A k \in DOMAIN carts' :
             carts'[k].products = << >> \/ \E j \in DOMAIN carts : carts'[k] = carts[j]
        /\ \A m : HeldByAll(carts', m) = HeldByAll(carts, m)
    BY <1>1, <1>2, HeldByAppend
  <1>4. BucketsOk(carts')
    <2>1. DOMAIN << >> = {}
      BY EmptySeq
    <2>. QED
      BY <1>3, <2>1 DEF BooksInv, BucketsOk
  <1>5. \A m \in DOMAIN merch' : BookOk(merch'[m], HeldByAll(carts', m), m \in Range(warehouse'))
    BY <1>1, <1>3 DEF BooksInv
  <1>. QED
    BY <1>1, <1>3, <1>4, <1>5, KeepBooks

\* The merch that carts and warehouse lead to after the cart at i was removed.
LEMMA RemoveTables ==
  ASSUME BooksInv, ShelvesInv, NEW i \in DOMAIN carts, carts' = RemoveAt(carts, i),
         DOMAIN merch' = Reached(warehouse, carts')
  PROVE  /\ TablesOk(carts') /\ DOMAIN merch' \subseteq DOMAIN merch
         /\ \A k \in DOMAIN carts' : \E j \in DOMAIN carts : carts'[k] = carts[j]
         /\ BucketsOk(carts')
         /\ \A m : HeldByAll(carts', m) = HeldByAll(carts, m) - Held(i, m)
  <1>1. TablesOk(carts)
    BY DEF BooksInv
  <1>2. /\ TablesOk(carts')
        /\ \A k \in DOMAIN carts' : \E j \in DOMAIN carts : carts'[k] = carts[j]
        /\ \A m : HeldByAll(carts', m) = HeldByAll(carts, m) - Held(i, m)
    BY <1>1, HeldByRemove, SameSums
  <1>3. Range(warehouse) \subseteq DOMAIN merch
    BY DEF ShelvesInv, ShelvesAgree, Range
  <1>4. \A k \in DOMAIN carts' : \A z \in DOMAIN carts'[k].products :
          carts'[k].products[z].merch \in DOMAIN merch
    BY <1>2 DEF ShelvesInv, ItemsOk
  <1>5. DOMAIN merch' \subseteq DOMAIN merch
    BY <1>3, <1>4, ReachedOnly
  <1>6. BucketsOk(carts')
    BY <1>2 DEF BooksInv, BucketsOk
  <1>. QED
    BY <1>2, <1>5, <1>6

\* The amounts of a cart that is removed go back.
LEMMA RemoveBooks ==
  ASSUME BooksInv, ShelvesInv, NEW i \in DOMAIN carts,
         Find(carts[i].cart_id) = i, CartSpecDestroy(carts[i].cart_id)
  PROVE  BooksInv'
  <1>1. /\ carts' = RemoveAt(carts, i) /\ warehouse' = warehouse
        /\ DOMAIN merch' = Reached(warehouse, carts')
        /\ \A m \in DOMAIN merch' :
             merch'[m] = [merch[m] EXCEPT !.stock_in_cart = @ - Held(i, m)]
    BY DEF CartSpecDestroy
  <1>2. /\ TablesOk(carts') /\ DOMAIN merch' \subseteq DOMAIN merch
        /\ BucketsOk(carts')
        /\ \A m : HeldByAll(carts', m) = HeldByAll(carts, m) - Held(i, m)
    BY <1>1, RemoveTables
  <1>3. ASSUME NEW m \in DOMAIN merch'
        PROVE  BookOk(merch'[m], HeldByAll(carts', m), m \in Range(warehouse'))
    <2> DEFINE v == merch[m].stock_in_cart - Held(i, m)
               listed == m \in Range(warehouse)
    <2>1. m \in DOMAIN merch /\ BookOk(merch[m], HeldByAll(carts, m), listed)
      BY <1>2 DEF BooksInv
    <2>2. /\ merch[m].stock_in_cart = HeldByAll(carts, m) /\ HeldByAll(carts, m) \in Nat
          /\ Held(i, m) \in Nat /\ Held(i, m) <= HeldByAll(carts, m)
      BY <2>1, BookFacts
    <2>3. v \in Nat /\ v <= HeldByAll(carts, m) /\ v = HeldByAll(carts', m)
      BY <1>2, <2>2
    <2>4. merch'[m] = [merch[m] EXCEPT !.stock_in_cart = v]
      BY <1>1
    <2> HIDE DEF v, listed
    <2>5. BookOk(merch'[m], v, listed)
      BY <2>1, <2>3, <2>4, BookHeld
    <2>. QED
      BY <1>1, <2>3, <2>5 DEF BookOk, listed
  <1>. QED
    BY <1>2, <1>3, KeepBooks

\* All carts, when the table of cart i has become p.
LEMMA HeldAfter ==
  ASSUME BooksInv, CartsInv, CartsInv', NEW i \in DOMAIN carts, NEW p, TableOk(p),
         carts' = [carts EXCEPT ![i].products = p]
  PROVE  /\ TablesOk(carts')
         /\ DOMAIN carts' = DOMAIN carts
         /\ \A j \in DOMAIN carts : carts'[j].products = IF j = i THEN p ELSE carts[j].products
         /\ \A m : HeldByAll(carts', m) = HeldByAll(carts, m) - Held(i, m) + HeldIn(p, m)
  <1>1. /\ DOMAIN carts' = DOMAIN carts
        /\ \A j \in DOMAIN carts : carts'[j].products = IF j = i THEN p ELSE carts[j].products
    BY TablesChange
  <1>2. TablesOk(carts')
    <2>1. \E X : carts' \in Seq(Carts(X))
      BY DEF CartsInv, CartsIn
    <2>2. \A j \in DOMAIN carts' : TableOk(carts'[j].products)
      BY <1>1 DEF BooksInv, TablesOk
    <2>. QED
      BY <2>1, <2>2 DEF TablesOk
  <1>3. ASSUME NEW m
        PROVE  HeldByAll(carts', m) = HeldByAll(carts, m) - Held(i, m) + HeldIn(p, m)
    <2>1. carts'[i].products = p /\ \A j \in DOMAIN carts : j # i => carts'[j].products = carts[j].products
      BY <1>1
    <2>2. Held(i, m) = HeldIn(carts[i].products, m) /\ TablesOk(carts)
      BY SameSums DEF BooksInv
    <2> DEFINE cs == carts
               ds == carts'
    <2>3. /\ TablesOk(cs) /\ TablesOk(ds) /\ DOMAIN ds = DOMAIN cs /\ i \in DOMAIN cs
          /\ \A j \in DOMAIN cs : j # i => ds[j].products = cs[j].products
      BY <1>1, <1>2, <2>2
    <2> HIDE DEF cs, ds
    <2>4. HeldByAll(ds, m)
            = HeldByAll(cs, m) - HeldIn(cs[i].products, m) + HeldIn(ds[i].products, m)
      BY <2>3, HeldByChange
    <2>. QED
      BY <2>1, <2>2, <2>4 DEF cs, ds
  <1>. QED
    BY <1>1, <1>2, <1>3

\* The buckets of the items, when the table of cart i has become p.
LEMMA BucketsAfter ==
  ASSUME BooksInv, NEW i \in DOMAIN carts, NEW p, NEW m, Bucket(m) \in Nat,
         DOMAIN carts' = DOMAIN carts,
         \A j \in DOMAIN carts : carts'[j].products = IF j = i THEN p ELSE carts[j].products,
         \A k \in DOMAIN p : \/ p[k].merch = m /\ p[k].bucket = Bucket(m)
                             \/ \E j \in DOMAIN Products(i) : SameItem(p[k], Products(i)[j])
  PROVE  BucketsOk(carts')
  <1>1. \A k \in DOMAIN p : p[k].bucket \in Nat
    BY DEF BooksInv, BucketsOk, SameItem, Products
  <1>. QED
    BY <1>1 DEF BooksInv, BucketsOk

LEMMA BucketNat ==
  ASSUME BooksInv, NEW m \in DOMAIN merch
  PROVE  Bucket(m) \in Nat
  <1>1. merch[m].address \in Addresses
    BY BookFacts DEF MerchType
  <1>. QED
    BY <1>1, AddressesAssumption DEF Bucket

\* cart_add_merch never puts more into carts than there is.
LEMMA PutBooks ==
  ASSUME BooksInv, ShelvesInv, CartsInv, CartsInv', NEW i \in DOMAIN carts,
         Find(carts[i].cart_id) = i, NEW m \in Range(warehouse), NEW amount \in Nat,
         PutMerch(i, m, amount)
  PROVE  BooksInv'
  <1> DEFINE p == TablePut(i, m, amount)
             v == merch[m].stock_in_cart + amount
  <1>1. m \in DOMAIN merch
    BY DEF ShelvesInv, ShelvesAgree, Range
  <1>2. /\ TableOk(Products(i)) /\ HeldIn(Products(i), m) = Held(i, m)
        /\ merch[m].stock_in_cart \in Nat /\ merch[m].total_stock \in Nat
        /\ merch[m].stock_in_cart = HeldByAll(carts, m)
        /\ Held(i, m) \in Nat
    BY <1>1, BookFacts DEF Products, Held, HeldIn
  <1>3. /\ carts' = [carts EXCEPT ![i].products = p]
        /\ merch' = [merch EXCEPT ![m].stock_in_cart = v]
        /\ warehouse' = warehouse
        /\ merch[m].total_stock >= amount + merch[m].stock_in_cart
    <2>1. Fits(m, amount)
      BY DEF PutMerch, CartAddMerch
    <2>. QED
      BY <2>1, PutIs DEF Fits
  <1>4. /\ TableOk(p) /\ IsPut(i, p, m, amount)
        /\ \A x : HeldIn(p, x) = HeldIn(Products(i), x) + (IF m = x THEN amount ELSE 0)
    BY <1>2, PutTable
  <1> HIDE DEF p
  <1>5. /\ TablesOk(carts')
        /\ DOMAIN carts' = DOMAIN carts
        /\ \A j \in DOMAIN carts : carts'[j].products = IF j = i THEN p ELSE carts[j].products
        /\ \A x : HeldByAll(carts', x) = HeldByAll(carts, x) - Held(i, x) + HeldIn(p, x)
    BY <1>3, <1>4, HeldAfter
  <1>6. HeldByAll(carts', m) = v /\ v \in Nat /\ v <= merch[m].total_stock
    <2>1. HeldByAll(carts', m) = HeldByAll(carts, m) - Held(i, m) + HeldIn(p, m)
      BY <1>5
    <2>2. HeldIn(p, m) = Held(i, m) + amount
      BY <1>2, <1>4
    <2>. QED
      BY <1>2, <1>3, <2>1, <2>2
  <1>7. ASSUME NEW x \in DOMAIN merch, x # m
        PROVE  HeldByAll(carts', x) = HeldByAll(carts, x)
    <2>1. HeldByAll(carts', x) = HeldByAll(carts, x) - Held(i, x) + HeldIn(p, x)
      BY <1>5
    <2>2. HeldIn(p, x) = Held(i, x) + 0
      BY <1>4, <1>7 DEF Held, HeldIn
    <2>3. HeldByAll(carts, x) \in Nat /\ Held(i, x) \in Nat
      BY BookFacts
    <2>. QED
      BY <2>1, <2>2, <2>3
  <1>8. ASSUME NEW x \in DOMAIN merch
         PROVE  BookOk(merch'[x], HeldByAll(carts', x), x \in Range(warehouse'))
    <2>1. BookOk(merch[x], HeldByAll(carts, x), x \in Range(warehouse))
      BY DEF BooksInv
    <2>2. CASE x = m
      <3> DEFINE r == merch[m]
      <3>1. merch'[m] = [r EXCEPT !.stock_in_cart = v]
        BY <1>1, <1>3
      <3>2. BookOk(r, HeldByAll(carts, m), TRUE)
        BY <2>1, <2>2 DEF BookOk
      <3>3. v \in Nat /\ v <= r.total_stock
        BY <1>6
      <3> HIDE DEF v, r
      <3>4. /\ merch'[m] \in MerchType /\ merch'[m].stock_in_cart = v
            /\ merch'[m].total_stock = r.total_stock /\ merch'[m].locs = r.locs
        BY <3>1, <3>2, <3>3 DEF BookOk, MerchType
      <3>5. BookOk(merch'[m], v, TRUE)
        BY <3>2, <3>3, <3>4 DEF BookOk
      <3>. QED
        BY <1>3, <1>6, <2>2, <3>5 DEF BookOk
    <2>3. CASE x # m
      <3>1. merch'[x] = merch[x]
        BY <1>3, <2>3
      <3>. QED
        BY <1>3, <1>7, <2>1, <2>3, <3>1
    <2>. QED
      BY <2>2, <2>3
  <1>9. DOMAIN merch' = DOMAIN merch
    BY <1>3
  <1>10. BucketsOk(carts')
    <2>1. Bucket(m) \in Nat
      BY <1>1, BucketNat
    <2>2. \A k \in DOMAIN p : \/ p[k].merch = m /\ p[k].bucket = Bucket(m)
                              \/ \E j \in DOMAIN Products(i) : SameItem(p[k], Products(i)[j])
      BY <1>2, <1>4, PutItems
    <2>. QED
      BY <1>5, <2>1, <2>2, BucketsAfter
  <1>. QED
    BY <1>5, <1>8, <1>9, <1>10, KeepBooks

LEMMA TakeBooks ==
  ASSUME BooksInv, ShelvesInv, CartsInv, CartsInv', NEW i \in DOMAIN carts,
         Find(carts[i].cart_id) = i, NEW k \in DOMAIN Products(i), NEW amount \in Nat,
         TakeMerch(i, k, amount)
  PROVE  BooksInv'
  <1> DEFINE m == Products(i)[k].merch
             p == TableTaken(i, m, amount)
             v == merch[m].stock_in_cart - Taken(i, m, amount)
  <1>1. m \in DOMAIN merch /\ TableOk(Products(i))
    BY DEF ShelvesInv, ItemsOk, Products
  <1>2. /\ carts' = [carts EXCEPT ![i].products = p]
        /\ merch' = Restrict([merch EXCEPT ![m].stock_in_cart = v], Reached(warehouse, carts'))
        /\ warehouse' = warehouse
        /\ Found(i, m) # {}
    BY TakeIs
  <1> HIDE DEF m
  <1>3. /\ TableOk(p) /\ IsTaken(i, p, m, amount)
        /\ Taken(i, m, amount) \in Nat /\ Taken(i, m, amount) <= Held(i, m)
        /\ \A x : HeldIn(p, x) = Held(i, x) - (IF m = x THEN Taken(i, m, amount) ELSE 0)
    BY <1>1, <1>2, TakenTable DEF Held, HeldIn
  <1> HIDE DEF p
  <1>4. /\ TablesOk(carts')
        /\ DOMAIN carts' = DOMAIN carts
        /\ \A j \in DOMAIN carts : carts'[j].products = IF j = i THEN p ELSE carts[j].products
        /\ \A x : HeldByAll(carts', x) = HeldByAll(carts, x) - Held(i, x) + HeldIn(p, x)
    BY <1>2, <1>3, HeldAfter
  <1>5. \A z \in DOMAIN p : \E j \in DOMAIN Products(i) : SameItem(p[z], Products(i)[j])
    BY <1>1, <1>3, TakenItems
  <1>6. DOMAIN merch' = Reached(warehouse, carts')
    BY <1>2 DEF Restrict
  <1>7. DOMAIN merch' \subseteq DOMAIN merch
    <2>1. Range(warehouse) \subseteq DOMAIN merch
      BY DEF ShelvesInv, ShelvesAgree, Range
    <2>2. \A z \in DOMAIN p : p[z].merch \in DOMAIN merch
      BY <1>5 DEF ShelvesInv, ItemsOk, SameItem, Products
    <2>3. \A j \in DOMAIN carts' : \A z \in DOMAIN carts'[j].products :
            carts'[j].products[z].merch \in DOMAIN merch
      BY <1>4, <2>2 DEF ShelvesInv, ItemsOk
    <2>. QED
      BY <1>6, <2>1, <2>3, ReachedOnly
  <1>8. \A x \in DOMAIN merch' : merch'[x] = [merch EXCEPT ![m].stock_in_cart = v][x]
    BY <1>2, <1>6 DEF Restrict
  <1>9. BucketsOk(carts')
    BY <1>1, <1>4, <1>5, BucketNat, BucketsAfter
  <1>10. ASSUME NEW x \in DOMAIN merch'
         PROVE  BookOk(merch'[x], HeldByAll(carts', x), x \in Range(warehouse'))
    <2> DEFINE listed == x \in Range(warehouse)
    <2>1. x \in DOMAIN merch /\ BookOk(merch[x], HeldByAll(carts, x), listed)
      BY <1>7 DEF BooksInv
    <2>2. /\ merch[x].stock_in_cart = HeldByAll(carts, x) /\ merch[x].stock_in_cart \in Nat
          /\ Held(i, x) \in Nat /\ Held(i, x) <= merch[x].stock_in_cart
      BY <2>1, BookFacts
    <2>3. HeldByAll(carts', x) = HeldByAll(carts, x) - Held(i, x) + HeldIn(p, x)
      BY <1>4
    <2>4. CASE x = m
      <3>1. HeldIn(p, m) = Held(i, m) - Taken(i, m, amount)
        BY <1>3
      <3>2. v = HeldByAll(carts', m) /\ v \in Nat /\ v <= HeldByAll(carts, m)
        BY <1>3, <2>2, <2>3, <2>4, <3>1
      <3>3. merch'[m] = [merch[m] EXCEPT !.stock_in_cart = v]
        BY <1>8, <2>1, <2>4
      <3> HIDE DEF v, listed
      <3>4. BookOk(merch'[m], v, listed)
        BY <2>1, <2>4, <3>2, <3>3, BookHeld
      <3>. QED
        BY <1>2, <2>4, <3>2, <3>4 DEF BookOk, listed
    <2>5. CASE x # m
      <3>1. merch'[x] = merch[x]
        BY <1>8, <2>1, <2>5
      <3>2. HeldIn(p, x) = Held(i, x) - 0
        BY <1>3, <2>5
      <3>3. HeldByAll(carts', x) = HeldByAll(carts, x)
        BY <2>2, <2>3, <3>2
      <3>. QED
        BY <1>2, <2>1, <3>1, <3>3
    <2>. QED
      BY <2>4, <2>5
  <1>. QED
    BY <1>4, <1>7, <1>9, <1>10, KeepBooks

\* Of a listed merch the checkout sells what the cart holds of it, of any other
\* nothing is held.
LEMMA SoldIsHeld ==
  ASSUME BooksInv, NEW m \in DOMAIN merch, NEW i \in DOMAIN carts
  PROVE  /\ Sold(merch[m].locs, Held(i, m)) = Held(i, m)
         /\ m \notin Range(warehouse) => Held(i, m) = 0 /\ merch[m].locs = << >>
  <1> DEFINE locs == merch[m].locs
             a == Held(i, m)
             held == HeldByAll(carts, m)
  <1>1. BookOk(merch[m], held, m \in Range(warehouse))
    BY DEF BooksInv
  <1>2. /\ LocsNat(locs) /\ a \in Nat /\ a <= held /\ held \in Nat
        /\ merch[m].total_stock \in Nat
    BY BookFacts
  <1>3. AllOn(locs) >= a => Sold(locs, a) = a
    BY <1>2, LocsAfterSale
  <1>4. CASE m \in Range(warehouse)
    <2>1. AllOn(locs) = merch[m].total_stock /\ held <= merch[m].total_stock
      BY <1>1, <1>4 DEF BookOk
    <2> HIDE DEF locs, a, held
    <2>. QED
      BY <1>2, <1>3, <1>4, <2>1 DEF locs, a
  <1>5. CASE m \notin Range(warehouse)
    <2>1. held = 0 /\ locs = << >>
      BY <1>1, <1>5 DEF BookOk
    <2>2. AllOn(locs) \in Nat
      BY <1>2, AmountsNat, UptoSteps DEF AllOn
    <2> HIDE DEF locs, a, held
    <2>. QED
      BY <1>2, <1>3, <2>1, <2>2 DEF locs, a
  <1>. QED
    BY <1>4, <1>5

\* A checkout takes from the shelves, from the stock and from what the carts
\* hold the same amount.
LEMMA CheckoutBooks ==
  ASSUME BooksInv, ShelvesInv, NEW i \in DOMAIN carts,
         Find(carts[i].cart_id) = i, CartCheckout(carts[i].cart_id)
  PROVE  BooksInv'
  <1>1. /\ carts' = RemoveAt(carts, i) /\ warehouse' = warehouse
        /\ DOMAIN merch' = Reached(warehouse, carts')
        /\ \A m \in DOMAIN merch' :
             merch'[m] = [merch[m] EXCEPT
                            !.locs = LocsAfter(merch[m].locs, Held(i, m)),
                            !.total_stock = merch[m].total_stock - Sold(merch[m].locs, Held(i, m)),
                            !.stock_in_cart = merch[m].stock_in_cart - Held(i, m)]
    BY DEF CartCheckout, StockAfter
  <1>2. /\ TablesOk(carts') /\ DOMAIN merch' \subseteq DOMAIN merch
        /\ BucketsOk(carts')
        /\ \A m : HeldByAll(carts', m) = HeldByAll(carts, m) - Held(i, m)
    BY <1>1, RemoveTables
  <1>3. ASSUME NEW m \in DOMAIN merch'
        PROVE  BookOk(merch'[m], HeldByAll(carts', m), m \in Range(warehouse'))
    <2> DEFINE r == merch[m]
               a == Held(i, m)
               locs == LocsAfter(r.locs, a)
               total == r.total_stock - a
               v == r.stock_in_cart - a
               listed == m \in Range(warehouse)
               held == HeldByAll(carts, m)
    <2>1. m \in DOMAIN merch /\ BookOk(r, held, listed)
      BY <1>2 DEF BooksInv
    <2>2. /\ r \in MerchType /\ LocsNat(r.locs) /\ r.total_stock \in Nat /\ r.stock_in_cart \in Nat
          /\ a \in Nat /\ a <= r.stock_in_cart /\ r.stock_in_cart = held
      BY <2>1, BookFacts
    <2>3. Sold(r.locs, a) = a /\ (~listed => a = 0 /\ r.locs = << >>)
      BY <2>1, SoldIsHeld
    <2>4. LocsNat(locs) /\ AllOn(locs) = AllOn(r.locs) - a
      BY <2>2, <2>3, LocsAfterSale
    <2>5. merch'[m] = [r EXCEPT !.locs = locs, !.total_stock = total, !.stock_in_cart = v]
      BY <1>1, <2>3
    <2>6. HeldByAll(carts', m) = v
      BY <1>2, <2>2
    <2>7. ~listed => locs = << >>
      BY <2>3, NoLocs
    <2> HIDE DEF r, a, locs, listed, held
    <2>8. held <= r.total_stock /\ (listed => r.total_stock = AllOn(r.locs))
          /\ (~listed => held = 0)
      BY <2>1 DEF BookOk
    <2>9. v \in Nat /\ total \in Nat /\ v <= total /\ (~listed => v = 0)
      BY <2>2, <2>3, <2>8
    <2>10. listed => total = AllOn(locs)
      BY <2>4, <2>8
    <2> HIDE DEF v, total
    <2>11. /\ merch'[m] \in MerchType /\ merch'[m].stock_in_cart = v
           /\ merch'[m].total_stock = total /\ merch'[m].locs = locs
      BY <2>2, <2>4, <2>5, <2>9 DEF MerchType, LocsNat
    <2>12. BookOk(merch'[m], v, listed)
      BY <2>7, <2>9, <2>10, <2>11 DEF BookOk
    <2>. QED
      BY <1>1, <2>6, <2>12 DEF listed
  <1>. QED
    BY <1>2, <1>3, KeepBooks

\* The empty warehouse.
LEMMA NoBooks == merch = << >> /\ carts = << >> => BooksInv
  <1>1. DOMAIN << >> = {} /\ << >> \in Seq(Carts({}))
    BY CartsNone
  <1>2. TablesOk(<< >>) /\ IsFiniteSet({})
    BY <1>1, FS_EmptySet DEF TablesOk
  <1>. QED
    BY <1>1, <1>2 DEF BooksInv, BucketsOk

LEMMA BooksStep ==
  ASSUME CartsInv, CartsInv', ShelvesInv, ShelvesInv', BooksInv, [Next]_vars
  PROVE  BooksInv'
  <1>. PICK X : CartsIn(X)
    BY DEF CartsInv
  <1>1. \A i \in DOMAIN carts : Find(carts[i].cart_id) = i
    BY FindsChosen DEF CartsInv
  <1>2. ItemsOk /\ ItemsOk' /\ \A amount \in 0 .. MaxStock : amount \in Nat
    BY BoundsAssumption DEF ShelvesInv
  <1>3. ASSUME NEW m \in Merch, NEW n \in Names, NEW a \in Addresses, NEW p \in Prices,
               CreateMerch(m, n, a, p)
        PROVE  BooksInv'
    BY <1>3, InsertBooks DEF CreateMerch
  <1>4. ASSUME NEW m \in Range(warehouse), NEW n \in Names, NEW a \in Addresses,
               NEW p \in Prices, EditMerch(m, n, a, p)
        PROVE  BooksInv'
    BY <1>4, EditBooks DEF EditMerch
  <1>5. ASSUME NEW m \in Range(warehouse), NEW amount \in 0 .. MaxStock, NEW s \in ShelfNames,
               AddStock(m, amount, s)
        PROVE  BooksInv'
    BY <1>2, <1>5, ReplenishBooks DEF AddStock
  <1>6. ASSUME NEW m \in Range(warehouse), RemoveMerch(m)
        PROVE  BooksInv'
    BY <1>2, <1>6, DestroyBooks DEF RemoveMerch, NotInCart
  <1>7. ASSUME NEW m \in Range(warehouse), NEW i \in DOMAIN carts, NEW amount \in 0 .. MaxStock,
               PutMerch(i, m, amount)
        PROVE  BooksInv'
    BY <1>1, <1>2, <1>7, PutBooks
  <1>8. ASSUME CreateCart
        PROVE  BooksInv'
    BY <1>2, <1>8, CreateBooks DEF CreateCart
  <1>9. ASSUME NEW i \in DOMAIN carts, RemoveCart(i)
        PROVE  BooksInv'
    BY <1>1, <1>2, <1>9, RemoveBooks DEF RemoveCart
  <1>10. ASSUME NEW i \in DOMAIN carts, Checkout(i)
         PROVE  BooksInv'
    BY <1>1, <1>2, <1>10, CheckoutBooks DEF Checkout
  <1>11. ASSUME NEW i \in DOMAIN carts, NEW k \in DOMAIN Products(i),
                NEW amount \in 0 .. MaxStock, TakeMerch(i, k, amount)
         PROVE  BooksInv'
    BY <1>1, <1>2, <1>11, TakeBooks
  <1>12. ASSUME UNCHANGED store
         PROVE  BooksInv'
    BY <1>12 DEF store, BooksInv
  <1>13. ASSUME NEW how, Ends(how)
         PROVE  BooksInv'
    <2>1. (merch = << >> /\ carts = << >> => BooksInv)'
      BY NoBooks, PTL
    <2>. QED
      BY <1>13, <2>1 DEF Ends
  <1>. QED
    BY <1>3, <1>4, <1>5, <1>6, <1>7, <1>8, <1>9, <1>10, <1>11, <1>12, <1>13
       DEF Next, SwitchUser, Crash, HeapStops, Quit, vars

\* The warehouse with all that is known about it.
StoreInv == CartsInv /\ ShelvesInv /\ BooksInv

LEMMA StoreHolds == Spec => []StoreInv
  <1>1. Init => CartsInv /\ ShelvesInv
    BY CartsNone DEF Init, WarehouseInit, CartsInv, CartsIn, CartsFound,
       ShelvesInv, MerchOk, ItemsOk, ShelvesAgree, Range
  <1>2. Init => BooksInv
    BY NoBooks DEF Init, WarehouseInit
  <1>3. Init => StoreInv
    BY <1>1, <1>2 DEF StoreInv
  <1>4. StoreInv /\ [Next]_vars => StoreInv'
    BY CartsStep, ShelvesStep, BooksStep DEF StoreInv
  <1>. QED
    BY <1>3, <1>4, PTL DEF Spec

\* What is listed as the stock of a merch is on its shelves, for any number of
\* merch, shelves and carts and any order of the menu's commands.
THEOREM StockIsOnShelves == Spec => []StockOnShelves
  <1>1. ASSUME StoreInv
        PROVE  StockOnShelves
    <2>1. Range(warehouse) \subseteq DOMAIN merch
      BY <1>1 DEF StoreInv, ShelvesInv, ShelvesAgree, Range
    <2>. QED
      BY <1>1, <2>1, SameSums DEF StoreInv, BooksInv, BookOk, StockOnShelves
  <1>. QED
    BY <1>1, StoreHolds, PTL

\* What a merch counts as being in carts is what all carts hold of it, which is
\* never more than there is: cart_add_merch checks the sum over all carts.
THEOREM CartsHoldStock == Spec => []StockInCarts
  <1>1. ASSUME StoreInv
        PROVE  StockInCarts
    <2>1. Range(warehouse) \subseteq DOMAIN merch
      BY <1>1 DEF StoreInv, ShelvesInv, ShelvesAgree, Range
    <2>2. \A m \in DOMAIN merch :
            /\ merch[m].stock_in_cart = HeldByAll(carts, m)
            /\ merch[m].stock_in_cart <= merch[m].total_stock
      BY <1>1 DEF StoreInv, BooksInv, BookOk
    <2>. QED
      BY <2>1, <2>2, HeldOfAll DEF StockInCarts
  <1>. QED
    BY <1>1, StoreHolds, PTL

\* A table of which the merch and the buckets are known.
LEMMA TableTyped ==
  ASSUME NEW p, TableOk(p), NEW M, \A k \in DOMAIN p : p[k].merch \in M /\ p[k].bucket \in Nat
  PROVE  p \in Seq([merch : M, bucket : Nat, amount : Nat])
  <1> DEFINE R == [merch : M, bucket : Nat, amount : Nat]
  <1>. PICK A, B : p \in Seq(Entry(A, B))
    BY DEF TableOk
  <1>1. /\ Len(p) \in Nat /\ DOMAIN p = 1 .. Len(p)
        /\ \A k \in 1 .. Len(p) : p[k] \in Entry(A, B)
    BY LenProperties, ElementOfSeq
  <1>2. \A k \in 1 .. Len(p) : p[k] \in R
    BY <1>1 DEF Entry
  <1>3. p = [k \in 1 .. Len(p) |-> p[k]]
    BY <1>1
  <1> HIDE DEF R
  <1>4. p \in [1 .. Len(p) -> R]
    BY <1>2, <1>3
  <1>5. p \in Seq(R)
    BY <1>1, <1>4, SequenceIs
  <1>. QED
    BY <1>5 DEF R

\* The type invariant: the amounts are never negative, though they are lowered
\* by what other tables say.
THEOREM TypeCorrect == Spec => []TypeOK
  <1> DEFINE Known == status \in {"running", "stopped", "crashed", "aborted"}
  <1>1. ASSUME StoreInv, Known
        PROVE  TypeOK
    <2>1. \A m \in DOMAIN merch : merch[m] \in MerchType
      BY <1>1, BookFacts DEF StoreInv
    <2>2. Loc(Nat) = [shelf_name : ShelfNames, amount : Nat]
      BY DEF Loc
    <2>3. \A m \in DOMAIN merch :
            merch[m] \in [name : Names, address : Addresses, price : Prices, total_stock : Nat,
                          stock_in_cart : Nat,
                          locs : Seq([shelf_name : ShelfNames, amount : Nat])]
      BY <2>1, <2>2 DEF MerchType
    <2>4. DOMAIN warehouse \subseteq Names /\ Range(warehouse) \subseteq DOMAIN merch
      BY <1>1, <2>1 DEF StoreInv, ShelvesInv, ShelvesAgree, Range, MerchType
    <2>5. \A m \in DOMAIN merch : LocNames(m) \subseteq ShelfNames
      <3>1. \A m \in DOMAIN merch : merch[m].locs \in Seq(Loc(Nat))
        BY <2>1 DEF MerchType
      <3>. QED
        BY <3>1, LocsShape DEF LocNames
    <2>6. DOMAIN shelves \subseteq ShelfNames /\ Range(shelves) \subseteq DOMAIN merch
      BY <1>1, <2>4, <2>5 DEF StoreInv, ShelvesInv, ShelvesAgree, Range
    <2>7. \A i \in DOMAIN carts :
            Products(i) \in Seq([merch : DOMAIN merch, bucket : Nat, amount : Nat])
      BY <1>1, TableTyped DEF StoreInv, ShelvesInv, ItemsOk, BooksInv, BucketsOk, Products
    <2>8. DOMAIN merch \subseteq Merch
      BY <1>1 DEF StoreInv, BooksInv
    <2>. QED
      BY <1>1, <2>3, <2>4, <2>6, <2>7, <2>8 DEF TypeOK
  <1>2. Init => Known
    BY DEF Init
  <1>3. Known /\ [Next]_vars => Known'
    BY DEF Next, vars, session, CreateMerch, EditMerch, AddStock, RemoveMerch, CreateCart,
       RemoveCart, PutMerch, TakeMerch, Checkout, SwitchUser, Crash, HeapStops, Quit, Ends
  <1>. QED
    BY <1>1, <1>2, <1>3, StoreHolds, PTL DEF Spec

-----------------------------------------------------------------------------
(* What a step leaves alone.                                               *)

\* The program is ended by three steps only.
LEMMA EndsOnly ==
  ASSUME [Next]_vars, status' # status
  PROVE  status = "running" /\ \E how : Ends(how) /\ (how = "crashed" => Crash)
  <1>1. Next
    BY DEF vars
  <1>2. ASSUME NEW m, NEW n, NEW a, NEW p, CreateMerch(m, n, a, p) \/ EditMerch(m, n, a, p)
        PROVE  FALSE
    BY <1>2 DEF CreateMerch, EditMerch, session
  <1>3. ASSUME NEW m, NEW amount, NEW s, AddStock(m, amount, s) \/ RemoveMerch(m)
        PROVE  FALSE
    BY <1>3 DEF AddStock, RemoveMerch, session
  <1>4. ASSUME NEW i, CreateCart \/ RemoveCart(i) \/ Checkout(i)
        PROVE  FALSE
    BY <1>4 DEF CreateCart, RemoveCart, Checkout, session
  <1>5. ASSUME NEW i, NEW m, NEW amount, PutMerch(i, m, amount) \/ TakeMerch(i, m, amount)
        PROVE  FALSE
    BY <1>5 DEF PutMerch, TakeMerch, session
  <1>6. ASSUME SwitchUser
        PROVE  FALSE
    BY <1>6 DEF SwitchUser
  <1>7. Crash \/ HeapStops \/ Quit
    BY <1>1, <1>2, <1>3, <1>4, <1>5, <1>6 DEF Next
  <1>. QED
    BY <1>1, <1>7 DEF Next, Crash, HeapStops, Quit

\* A step that does not end the program changes the price and the address of a
\* merch only when nothing of it is in carts, and then it changes no cart.
LEMMA FieldsKept ==
  ASSUME StoreInv, [Next]_vars, status' = status, NEW m \in DOMAIN merch, m \in DOMAIN merch'
  PROVE  \/ merch'[m].price = merch[m].price /\ merch'[m].address = merch[m].address
         \/ merch[m].stock_in_cart = 0 /\ carts' = carts
  <1>. PICK X : CartsIn(X)
    BY DEF StoreInv, CartsInv
  <1> DEFINE Same == merch'[m].price = merch[m].price /\ merch'[m].address = merch[m].address
  <1>1. \A i \in DOMAIN carts : Find(carts[i].cart_id) = i
    BY FindsChosen DEF StoreInv, CartsInv
  <1>2. merch[m] \in MerchType
    BY BookFacts DEF StoreInv
  <1>3. ASSUME NEW x, NEW n, NEW a, NEW p, CreateMerch(x, n, a, p)
        PROVE  Same
    BY <1>3 DEF CreateMerch, MerchInsert, With
  <1>4. ASSUME NEW x, NEW n, NEW a, NEW p, EditMerch(x, n, a, p)
        PROVE  Same \/ (merch[m].stock_in_cart = 0 /\ carts' = carts)
    <2>1. /\ NotInCart(x) /\ carts' = carts
          /\ merch' = [merch EXCEPT ![x].name = n, ![x].address = a, ![x].price = p]
      BY <1>4 DEF EditMerch, MerchEdit
    <2>2. m # x => merch'[m] = merch[m]
      BY <2>1
    <2>. QED
      BY <2>1, <2>2 DEF NotInCart
  <1>5. ASSUME NEW x, NEW amount, NEW s, AddStock(x, amount, s)
        PROVE  Same
    <2> DEFINE total == StockWith(x, amount, s)
               locs == LocsWith(merch[x].locs, amount, s)
    <2>1. merch' = [merch EXCEPT ![x].total_stock = total, ![x].locs = locs]
      BY <1>5 DEF AddStock, MerchReplenish
    <2> HIDE DEF total, locs
    <2>2. merch'[m] = IF m = x THEN [merch[m] EXCEPT !.total_stock = total, !.locs = locs]
                      ELSE merch[m]
      BY <2>1
    <2>. QED
      BY <1>2, <2>2 DEF MerchType
  <1>6. ASSUME NEW x, RemoveMerch(x)
        PROVE  Same
    <2>1. merch'[m] = [merch EXCEPT ![x].locs = << >>][m]
      BY <1>6 DEF RemoveMerch, ProductDestroy, Restrict
    <2>2. merch'[m] = IF m = x THEN [merch[m] EXCEPT !.locs = << >>] ELSE merch[m]
      BY <2>1
    <2>. QED
      BY <1>2, <2>2 DEF MerchType
  <1>7. ASSUME NEW x, NEW i \in DOMAIN carts, NEW amount, PutMerch(i, x, amount)
        PROVE  Same
    <2> DEFINE v == merch[x].stock_in_cart + amount
    <2>1. merch' = [merch EXCEPT ![x].stock_in_cart = v]
      BY <1>1, <1>7, PutIs
    <2> HIDE DEF v
    <2>2. merch'[m] = IF m = x THEN [merch[m] EXCEPT !.stock_in_cart = v] ELSE merch[m]
      BY <2>1
    <2>. QED
      BY <1>2, <2>2 DEF MerchType
  <1>8. ASSUME NEW i \in DOMAIN carts, RemoveCart(i)
        PROVE  Same
    <2> DEFINE v == merch[m].stock_in_cart - Held(i, m)
    <2>1. merch'[m] = [merch[m] EXCEPT !.stock_in_cart = v]
      BY <1>1, <1>8 DEF RemoveCart, CartSpecDestroy
    <2> HIDE DEF v
    <2>. QED
      BY <1>2, <2>1 DEF MerchType
  <1>9. ASSUME NEW i \in DOMAIN carts, Checkout(i)
        PROVE  Same
    <2> DEFINE locs == LocsAfter(merch[m].locs, Held(i, m))
               total == StockAfter(i, m)
               v == merch[m].stock_in_cart - Held(i, m)
    <2>1. merch'[m] = [merch[m] EXCEPT !.locs = locs, !.total_stock = total, !.stock_in_cart = v]
      BY <1>1, <1>9 DEF Checkout, CartCheckout
    <2> HIDE DEF locs, total, v
    <2>. QED
      BY <1>2, <2>1 DEF MerchType
  <1>10. ASSUME NEW i \in DOMAIN carts, NEW k, NEW amount, TakeMerch(i, k, amount)
         PROVE  Same
    <2> DEFINE x == Products(i)[k].merch
               v == merch[x].stock_in_cart - Taken(i, x, amount)
    <2>1. merch' = Restrict([merch EXCEPT ![x].stock_in_cart = v], Reached(warehouse, carts'))
      BY <1>1, <1>10, TakeIs
    <2> HIDE DEF v, x
    <2>2. merch'[m] = [merch EXCEPT ![x].stock_in_cart = v][m]
      BY <2>1 DEF Restrict
    <2>3. merch'[m] = IF m = x THEN [merch[m] EXCEPT !.stock_in_cart = v] ELSE merch[m]
      BY <2>2
    <2>. QED
      BY <1>2, <2>3 DEF MerchType
  <1>11. CASE merch' = merch
    BY <1>11
  <1>12. ASSUME Next
         PROVE  status = "running" /\ ~Crash /\ ~HeapStops /\ ~Quit
    BY <1>12 DEF Next, Crash, HeapStops, Quit, Ends
  <1> HIDE DEF Same
  <1>13. CASE Next
    BY <1>3, <1>4, <1>5, <1>6, <1>7, <1>8, <1>9, <1>10, <1>11, <1>12, <1>13
       DEF Next, CreateCart, CartCreate, SwitchUser, store, Same
  <1>. QED
    BY <1>11, <1>13 DEF vars, store

\* Only the commands S and T make tables that no cart had before.
TablesOld ==
  \A j \in DOMAIN carts' :
    carts'[j].products = << >> \/ \E i \in DOMAIN carts : carts'[j] = carts[i]

LEMMA TablesCome ==
  ASSUME StoreInv, [Next]_vars, status' = status
  PROVE  \/ TablesOld /\ UNCHANGED <<zeroItem, alike>>
         \/ \E m \in Range(warehouse), i \in DOMAIN carts, amount \in Nat : PutMerch(i, m, amount)
         \/ \E i \in DOMAIN carts : \E k \in DOMAIN Products(i), amount \in Nat :
              TakeMerch(i, k, amount)
  <1>. PICK X : CartsIn(X)
    BY DEF StoreInv, CartsInv
  <1>1. \A i \in DOMAIN carts : Find(carts[i].cart_id) = i
    BY FindsChosen DEF StoreInv, CartsInv
  <1>2. TablesOk(carts) /\ \A amount \in 0 .. MaxStock : amount \in Nat
    BY BoundsAssumption DEF StoreInv, BooksInv
  <1>3. carts' = carts => TablesOld
    BY DEF TablesOld
  <1>4. ASSUME CreateCart
        PROVE  TablesOld
    <2>1. /\ carts' = Append(carts, [cart_id |-> next_cart_id, products |-> << >>])
          /\ next_cart_id \in Nat
      BY <1>4 DEF CreateCart, CartCreate, NewId, StoreInv, CartsInv
    <2>. QED
      BY <1>2, <2>1, HeldByAppend DEF TablesOld
  <1>5. ASSUME NEW i \in DOMAIN carts, RemoveCart(i) \/ Checkout(i)
        PROVE  TablesOld
    <2>1. carts' = RemoveAt(carts, i)
      BY <1>1, <1>5 DEF RemoveCart, Checkout, CartSpecDestroy, CartCheckout
    <2>. QED
      BY <1>2, <2>1, HeldByRemove DEF TablesOld
  <1>6. ASSUME Next
        PROVE  ~Crash /\ ~HeapStops /\ ~Quit
    BY <1>6 DEF Next, Crash, HeapStops, Quit, Ends
  <1> HIDE DEF TablesOld
  <1>7. CASE UNCHANGED vars
    BY <1>3, <1>7 DEF vars, store
  <1>8. CASE Next
    <2>1. ASSUME NEW m, NEW n, NEW a, NEW p, CreateMerch(m, n, a, p) \/ EditMerch(m, n, a, p)
          PROVE  carts' = carts /\ UNCHANGED <<zeroItem, alike>>
      BY <2>1 DEF CreateMerch, MerchInsert, EditMerch, MerchEdit, session
    <2>2. ASSUME NEW m, NEW amount, NEW s, AddStock(m, amount, s) \/ RemoveMerch(m)
          PROVE  carts' = carts /\ UNCHANGED <<zeroItem, alike>>
      BY <2>2 DEF AddStock, MerchReplenish, RemoveMerch, ProductDestroy, session
    <2>3. ASSUME SwitchUser
          PROVE  carts' = carts /\ UNCHANGED <<zeroItem, alike>>
      BY <2>3 DEF SwitchUser, store
    <2>4. ASSUME NEW i, CreateCart \/ RemoveCart(i) \/ Checkout(i)
          PROVE  UNCHANGED <<zeroItem, alike>>
      BY <2>4 DEF CreateCart, RemoveCart, Checkout, session
    <2>. QED
      BY <1>2, <1>3, <1>4, <1>5, <1>6, <1>8, <2>1, <2>2, <2>3, <2>4 DEF Next
  <1>. QED
    BY <1>7, <1>8

-----------------------------------------------------------------------------
(* When the program stops.                                                 *)

\* No item of a table is empty, every item is in the bucket of its merch, and no
\* two in a bucket are alike.
Regular(p, mm) ==
  \A k \in DOMAIN p :
    /\ p[k].amount # 0
    /\ p[k].bucket = mm[p[k].merch].address.bucket
    /\ \A j \in DOMAIN p :
         /\ p[j].bucket = p[k].bucket
         /\ mm[p[j].merch].address.text = mm[p[k].merch].address.text
         => j = k
AllRegular(cs, mm) == \A i \in DOMAIN cs : Regular(cs[i].products, mm)
FoundInv ==
  /\ zeroItem \in BOOLEAN /\ alike \in BOOLEAN
  /\ ~zeroItem /\ ~alike => AllRegular(carts, merch)
  /\ StopsOnlyAfterOddItem

LEMMA RegularKept ==
  ASSUME NEW p, NEW mm, Regular(p, mm), NEW nn,
         \A k \in DOMAIN p : nn[p[k].merch].address = mm[p[k].merch].address
  PROVE  Regular(p, nn)
  BY DEF Regular

LEMMA RegularChange ==
  ASSUME NEW p, NEW mm, Regular(p, mm), NEW q, NEW k, NEW a, a # 0, Changes(p, q, k, a)
  PROVE  Regular(q, mm)
  BY DEF Regular, Changes

LEMMA RegularRemove ==
  ASSUME NEW p, TableOk(p), NEW mm, Regular(p, mm), NEW q, TableOk(q),
         NEW k \in DOMAIN p, Removes(p, q, k)
  PROVE  Regular(q, mm)
  <1> DEFINE h(j) == IF j < k THEN j ELSE j + 1
  <1>1. /\ Len(p) \in Nat /\ DOMAIN p = 1 .. Len(p)
        /\ DOMAIN q = 1 .. (Len(p) - 1)
    BY TableShape DEF Removes
  <1>2. \A j \in DOMAIN q : h(j) \in DOMAIN p /\ q[j] = p[h(j)]
    BY <1>1 DEF Removes
  <1>3. \A i, j \in DOMAIN q : h(i) = h(j) => i = j
    BY <1>1
  <1> HIDE DEF h
  <1>. QED
    BY <1>2, <1>3 DEF Regular

LEMMA RegularInsert ==
  ASSUME NEW p, TableOk(p), NEW mm, Regular(p, mm), NEW q, TableOk(q),
         NEW e, NEW k \in 1 .. (Len(p) + 1), Inserts(p, q, k, e),
         e.amount # 0, e.bucket = mm[e.merch].address.bucket,
         \A j \in DOMAIN p : ~ /\ p[j].bucket = e.bucket
                               /\ mm[p[j].merch].address.text = mm[e.merch].address.text
  PROVE  Regular(q, mm)
  <1> DEFINE h(j) == IF j < k THEN j ELSE j - 1
  <1>1. /\ Len(p) \in Nat /\ DOMAIN p = 1 .. Len(p)
        /\ DOMAIN q = 1 .. (Len(p) + 1)
    BY TableShape DEF Inserts
  <1>2. \A j \in DOMAIN q : IF j = k THEN q[j] = e ELSE h(j) \in DOMAIN p /\ q[j] = p[h(j)]
    BY <1>1 DEF Inserts
  <1>3. \A i, j \in DOMAIN q : i # k /\ j # k /\ h(i) = h(j) => i = j
    BY <1>1
  <1> HIDE DEF h
  <1>. QED
    BY <1>2, <1>3 DEF Regular

\* The first shelf of a merch gives the first item that is sold.
LEMMA ShelfForFirst ==
  ASSUME NEW locs, LocsNat(locs), AllOn(locs) # 0
  PROVE  LocsAfter(locs, 0) # << >>
  <1> DEFINE n == NoGivenUp(locs, 0)
             ls == LocsAfter(locs, 0)
  <1>1. /\ Len(locs) \in Nat /\ Upto(locs, 0) = 0
        /\ \A k \in 0 .. Len(locs) : Upto(locs, k) \in Nat
    BY AmountsNat, UptoSteps
  <1>2. n \in 0 .. Len(locs) /\ \A k \in 1 .. n : GivenUp(locs, 0, k)
    BY <1>1, NoGivenUpExists
  <1> HIDE DEF n
  <1>3. n = 0
    <2> SUFFICES ASSUME n # 0 PROVE FALSE
      OBVIOUS
    <2>1. n \in 1 .. n /\ n - 1 \in 0 .. Len(locs)
      BY <1>1, <1>2
    <2>2. Upto(locs, n - 1) < 0 /\ Upto(locs, n - 1) \in Nat
      BY <1>1, <1>2, <2>1 DEF GivenUp
    <2>. QED
      BY <2>2
  <1>4. Len(locs) # 0
    BY <1>1 DEF AllOn
  <1>5. DOMAIN ls = 1 .. Len(locs)
    <2>1. DOMAIN ls = 1 .. (Len(locs) - n)
      BY DEF LocsAfter, n
    <2>. QED
      BY <1>1, <1>3, <2>1
  <1> HIDE DEF ls
  <1>6. 1 \in DOMAIN ls
    BY <1>1, <1>4, <1>5
  <1>. QED
    BY <1>6, EmptySeq DEF ls

\* Then every item is found, and its merch has a shelf.
LEMMA NoCrash ==
  ASSUME StoreInv, AllRegular(carts, merch), NEW i \in DOMAIN carts, NEW k \in DOMAIN Products(i)
  PROVE  /\ Found(i, Products(i)[k].merch) # {}
         /\ LocsAfter(merch[Products(i)[k].merch].locs, Before(i, k)) # << >>
  <1> DEFINE t == carts[i].products
             m == t[k].merch
  <1>1. t = Products(i) /\ k \in DOMAIN t /\ TableOk(t) /\ m \in DOMAIN merch /\ Regular(t, merch)
    BY DEF StoreInv, ShelvesInv, ItemsOk, Products, AllRegular
  <1>2. \A j \in DOMAIN t : t[j].bucket = Bucket(m) /\ Text(t[j].merch) = Text(m) => j = k
    BY <1>1 DEF Regular, Bucket, Text
  <1>3. t[k].bucket = Bucket(m) /\ t[k].amount # 0
    BY <1>1 DEF Regular, Bucket
  <1>4. Alike(i, m) = {k}
    BY <1>1, <1>2, <1>3 DEF Alike
  <1>5. k \in Nat
    BY <1>1, TableShape
  <1>6. k \in Found(i, m)
    BY <1>1, <1>4, <1>5 DEF Found
  <1>7. Before(i, k) = 0
    <2>1. \A j \in ItemsOf(t, m) : j = k
      BY <1>1, <1>2 DEF ItemsOf, Regular, Bucket
    <2>2. {j \in ItemsOf(t, m) : j < k} = {}
      BY <1>5, <2>1
    <2>. QED
      BY <1>1, <2>2, SumEmpty DEF Before
  <1>8. t[k].amount \in Nat /\ t[k].amount <= Held(i, m)
    BY <1>1, HeldNat, SameSums
  <1>9. /\ Held(i, m) \in Nat /\ Held(i, m) <= merch[m].stock_in_cart
        /\ merch[m].stock_in_cart \in Nat /\ merch[m].total_stock \in Nat
        /\ LocsNat(merch[m].locs)
    BY <1>1, BookFacts DEF StoreInv
  <1>10. Held(i, m) # 0
    BY <1>3, <1>8, <1>9
  <1>11. m \in Range(warehouse)
    BY <1>1, <1>10, SoldIsHeld DEF StoreInv
  <1>12. /\ merch[m].stock_in_cart <= merch[m].total_stock
         /\ merch[m].total_stock = AllOn(merch[m].locs)
    BY <1>1, <1>11 DEF StoreInv, BooksInv, BookOk
  <1>13. AllOn(merch[m].locs) # 0
    <2> HIDE DEF m
    <2>. QED
      BY <1>9, <1>10, <1>12
  <1>14. LocsAfter(merch[m].locs, 0) # << >>
    BY <1>9, <1>13, ShelfForFirst
  <1>. QED
    BY <1>1, <1>6, <1>7, <1>14

\* The names of what is in carts stay where they are.
LEMMA StillRegular ==
  ASSUME StoreInv, StoreInv', [Next]_vars, status' = status, AllRegular(carts', merch),
         \A j \in DOMAIN carts' : \A k \in DOMAIN carts'[j].products :
           carts'[j].products[k].merch \in DOMAIN merch
  PROVE  AllRegular(carts', merch')
  <1> SUFFICES ASSUME NEW j \in DOMAIN carts' PROVE Regular(carts'[j].products, merch')
    BY DEF AllRegular
  <1> DEFINE p == carts'[j].products
  <1>1. Regular(p, merch)
    BY DEF AllRegular
  <1>2. ASSUME NEW k \in DOMAIN p
        PROVE  merch'[p[k].merch].address = merch[p[k].merch].address
    <2> DEFINE m == p[k].merch
    <2>1. m \in DOMAIN merch /\ m \in DOMAIN merch'
      BY DEF StoreInv, ShelvesInv, ItemsOk
    <2>2. ASSUME merch[m].stock_in_cart = 0, carts' = carts
          PROVE  FALSE
      <3>1. j \in DOMAIN carts /\ carts[j].products = p
        BY <2>2
      <3>2. TableOk(p) /\ HeldIn(p, m) \in Nat /\ HeldIn(p, m) <= 0
        BY <2>1, <2>2, <3>1, BookFacts, SameSums DEF StoreInv
      <3>3. p[k].amount \in Nat /\ p[k].amount <= HeldIn(p, m)
        BY <3>2, HeldNat
      <3>4. p[k].amount # 0
        BY <1>1 DEF Regular
      <3>. QED
        BY <3>2, <3>3, <3>4
    <2>. QED
      BY <2>1, <2>2, FieldsKept
  <1>. QED
    BY <1>1, <1>2, RegularKept

\* S puts in an item that is like no other, or adds to one that is not empty.
LEMMA PutFound ==
  ASSUME StoreInv, AllRegular(carts, merch), NEW i \in DOMAIN carts, NEW m \in Range(warehouse),
         NEW amount \in Nat, PutMerch(i, m, amount), ~zeroItem', ~alike'
  PROVE  /\ AllRegular(carts', merch)
         /\ \A j \in DOMAIN carts' : \A k \in DOMAIN carts'[j].products :
              carts'[j].products[k].merch \in DOMAIN merch
  <1>. PICK X : CartsIn(X)
    BY DEF StoreInv, CartsInv
  <1> DEFINE p == Products(i)
             q == TablePut(i, m, amount)
  <1>1. /\ carts' = [carts EXCEPT ![i].products = q]
        /\ Found(i, m) = {} => amount # 0 /\ Alike(i, m) = {}
    <2>1. Find(carts[i].cart_id) = i
      BY FindsChosen DEF StoreInv, CartsInv
    <2>2. Found(i, m) = {} => amount # 0 /\ Alike(i, m) = {}
      BY DEF PutMerch
    <2>. QED
      BY <2>1, <2>2, PutIs
  <1>2. /\ p = carts[i].products /\ TableOk(p) /\ Regular(p, merch) /\ m \in DOMAIN merch
    BY DEF StoreInv, ShelvesInv, ShelvesAgree, ItemsOk, Products, AllRegular, Range
  <1>3. TableOk(q) /\ IsPut(i, q, m, amount)
    BY <1>2, PutTable
  <1>4. \A k \in DOMAIN q : \/ q[k].merch = m
                            \/ \E j \in DOMAIN p : q[k].merch = p[j].merch
    BY <1>2, <1>3, PutItems DEF SameItem
  <1> HIDE DEF q
  <1>5. ASSUME Found(i, m) # {}
        PROVE  Regular(q, merch)
    <2>1. PICK k \in DOMAIN p : Changes(p, q, k, p[k].amount + amount)
      BY <1>3, <1>5 DEF IsPut
    <2>2. p[k].amount \in Nat /\ p[k].amount # 0
      BY <1>2, TableShape DEF Regular
    <2>3. p[k].amount + amount # 0
      BY <2>2
    <2>. QED
      BY <1>2, <2>1, <2>3, RegularChange
  <1>6. ASSUME Found(i, m) = {}
        PROVE  Regular(q, merch)
    <2> DEFINE e == NewItem(m, amount)
    <2>1. PICK k \in 1 .. (Len(p) + 1) : Inserts(p, q, k, e)
      BY <1>3, <1>6 DEF IsPut
    <2>2. /\ e.amount # 0 /\ e.merch = m /\ e.bucket = merch[m].address.bucket
      BY <1>1, <1>6 DEF NewItem, Bucket
    <2>3. \A j \in DOMAIN p : ~ /\ p[j].bucket = e.bucket
                                /\ merch[p[j].merch].address.text = merch[m].address.text
      BY <1>1, <1>6, <2>2 DEF Alike, Bucket, Text
    <2> HIDE DEF e, p
    <2>. QED
      BY <1>2, <1>3, <2>1, <2>2, <2>3, RegularInsert
  <1>7. Regular(q, merch)
    BY <1>5, <1>6
  <1>8. /\ DOMAIN carts' = DOMAIN carts
        /\ \A j \in DOMAIN carts : carts'[j].products = IF j = i THEN q ELSE carts[j].products
    BY <1>1, TablesChange DEF StoreInv
  <1>. QED
    BY <1>2, <1>4, <1>7, <1>8 DEF AllRegular, StoreInv, ShelvesInv, ItemsOk

\* What T leaves of an item is not empty.
LEMMA TakeFound ==
  ASSUME StoreInv, AllRegular(carts, merch), NEW i \in DOMAIN carts, NEW k \in DOMAIN Products(i),
         NEW amount \in Nat, TakeMerch(i, k, amount)
  PROVE  /\ AllRegular(carts', merch)
         /\ \A j \in DOMAIN carts' : \A z \in DOMAIN carts'[j].products :
              carts'[j].products[z].merch \in DOMAIN merch
  <1>. PICK X : CartsIn(X)
    BY DEF StoreInv, CartsInv
  <1> DEFINE p == Products(i)
             m == p[k].merch
             q == TableTaken(i, m, amount)
  <1>1. Found(i, m) # {} /\ carts' = [carts EXCEPT ![i].products = q]
    <2>1. Find(carts[i].cart_id) = i
      BY FindsChosen DEF StoreInv, CartsInv
    <2>. QED
      BY <2>1, TakeIs
  <1>2. p = carts[i].products /\ TableOk(p) /\ Regular(p, merch)
    BY DEF StoreInv, ShelvesInv, ItemsOk, Products, AllRegular
  <1> HIDE DEF m
  <1>3. TableOk(q) /\ IsTaken(i, q, m, amount)
    BY <1>1, <1>2, TakenTable
  <1>4. \A z \in DOMAIN q : \E j \in DOMAIN p : q[z].merch = p[j].merch
    BY <1>2, <1>3, TakenItems DEF SameItem
  <1> HIDE DEF q
  <1>5. PICK z \in DOMAIN p :
          Removes(p, q, z) \/ (p[z].amount > amount /\ Changes(p, q, z, p[z].amount - amount))
    BY <1>3 DEF IsTaken
  <1>6. Regular(q, merch)
    <2>1. CASE Removes(p, q, z)
      BY <1>2, <1>3, <2>1, RegularRemove
    <2>2. CASE p[z].amount > amount /\ Changes(p, q, z, p[z].amount - amount)
      <3>1. p[z].amount \in Nat
        BY <1>2, TableShape
      <3>2. p[z].amount - amount # 0
        BY <2>2, <3>1
      <3>. QED
        BY <1>2, <2>2, <3>2, RegularChange
    <2>. QED
      BY <1>5, <2>1, <2>2
  <1>7. /\ DOMAIN carts' = DOMAIN carts
        /\ \A j \in DOMAIN carts : carts'[j].products = IF j = i THEN q ELSE carts[j].products
    BY <1>1, TablesChange DEF StoreInv
  <1>. QED
    BY <1>2, <1>4, <1>6, <1>7 DEF AllRegular, StoreInv, ShelvesInv, ItemsOk

LEMMA FoundStep ==
  ASSUME StoreInv, StoreInv', FoundInv, [Next]_vars
  PROVE  FoundInv'
  <1>1. CASE status' = status
    <2>1. /\ zeroItem' \in BOOLEAN /\ alike' \in BOOLEAN
          /\ ~zeroItem' /\ ~alike' => ~zeroItem /\ ~alike
      <3>1. ASSUME NEW i, NEW m, NEW amount, PutMerch(i, m, amount)
            PROVE  /\ zeroItem' \in BOOLEAN /\ alike' \in BOOLEAN
                   /\ ~zeroItem' /\ ~alike' => ~zeroItem /\ ~alike
        BY <3>1 DEF PutMerch, FoundInv
      <3>2. ASSUME NEW i, NEW k, NEW amount, TakeMerch(i, k, amount)
            PROVE  UNCHANGED <<zeroItem, alike>>
        BY <3>2 DEF TakeMerch, session
      <3>. QED
        BY <1>1, <3>1, <3>2, TablesCome DEF FoundInv
    <2>2. ASSUME ~zeroItem', ~alike'
          PROVE  AllRegular(carts', merch')
      <3> DEFINE Led == \A j \in DOMAIN carts' : \A k \in DOMAIN carts'[j].products :
                          carts'[j].products[k].merch \in DOMAIN merch
      <3>1. AllRegular(carts, merch)
        BY <2>1, <2>2 DEF FoundInv
      <3>2. ASSUME TablesOld
            PROVE  AllRegular(carts', merch) /\ Led
        <4>1. DOMAIN << >> = {}
          BY EmptySeq
        <4>2. \A j \in DOMAIN carts' : Regular(carts'[j].products, merch)
          BY <3>1, <3>2, <4>1 DEF TablesOld, AllRegular, Regular
        <4>3. Led
          BY <3>2, <4>1 DEF TablesOld, StoreInv, ShelvesInv, ItemsOk
        <4>. QED
          BY <4>2, <4>3 DEF AllRegular
      <3>3. ASSUME NEW i \in DOMAIN carts, NEW m \in Range(warehouse), NEW amount \in Nat,
                   PutMerch(i, m, amount)
            PROVE  AllRegular(carts', merch) /\ Led
        BY <2>2, <3>1, <3>3, PutFound
      <3>4. ASSUME NEW i \in DOMAIN carts, NEW k \in DOMAIN Products(i), NEW amount \in Nat,
                   TakeMerch(i, k, amount)
            PROVE  AllRegular(carts', merch) /\ Led
        BY <3>1, <3>4, TakeFound
      <3> HIDE DEF Led
      <3>5. AllRegular(carts', merch) /\ Led
        BY <1>1, <3>2, <3>3, <3>4, TablesCome
      <3>. QED
        BY <1>1, <3>5, StillRegular DEF Led
    <2>3. StopsOnlyAfterOddItem'
      BY <1>1, <2>1 DEF FoundInv, StopsOnlyAfterOddItem
    <2>. QED
      BY <2>1, <2>2, <2>3 DEF FoundInv
  <1>2. CASE status' # status
    <2>1. PICK how : Ends(how) /\ (how = "crashed" => Crash)
      BY <1>2, EndsOnly
    <2>2. carts' = << >> /\ status' = how /\ UNCHANGED <<zeroItem, alike>>
      BY <2>1 DEF Ends
    <2>3. AllRegular(carts', merch')
      <3>1. DOMAIN << >> = {}
        BY EmptySeq
      <3>. QED
        BY <2>2, <3>1 DEF AllRegular
    <2>4. ASSUME Crash
          PROVE  zeroItem \/ alike
      <3> SUFFICES ASSUME AllRegular(carts, merch) PROVE FALSE
        BY DEF FoundInv
      <3>1. \A i \in DOMAIN carts : \A k \in DOMAIN Products(i) :
              /\ Found(i, Products(i)[k].merch) # {}
              /\ LocsAfter(merch[Products(i)[k].merch].locs, Before(i, k)) # << >>
        BY NoCrash
      <3>. QED
        BY <2>4, <3>1 DEF Crash, NoShelfLeft
    <2>5. StopsOnlyAfterOddItem'
      BY <2>1, <2>2, <2>4 DEF StopsOnlyAfterOddItem
    <2>. QED
      BY <2>2, <2>3, <2>5 DEF FoundInv
  <1>. QED
    BY <1>1, <1>2

\* Until a collection stops it, the program is brought down only after an item of
\* amount 0 was accepted or an item was put before one like it: no order of the
\* other commands, the edits of names and prices among them, takes from a merch
\* the shelf an item needs or makes an item that cannot be found.
THEOREM StopsOnlyThen == Spec => []StopsOnlyAfterOddItem
  <1>1. Init => FoundInv
    <2>1. DOMAIN << >> = {}
      BY EmptySeq
    <2>. QED
      BY <2>1 DEF Init, WarehouseInit, FoundInv, AllRegular, StopsOnlyAfterOddItem
  <1>2. FoundInv => StopsOnlyAfterOddItem
    BY DEF FoundInv
  <1>. QED
    BY <1>1, <1>2, StoreHolds, FoundStep, PTL DEF Spec

-----------------------------------------------------------------------------
(* What carts cost.                                                        *)

\* The cost of a cart, item by item, is its cost merch by merch.
LEMMA CostByMerch ==
  ASSUME StoreInv, NEW i \in DOMAIN carts
  PROVE  CartTotalCost(i)
           = SumFunctionOnSet([m \in DOMAIN merch |-> Held(i, m) * merch[m].price], DOMAIN merch)
  <1> DEFINE t == carts[i].products
             S == DOMAIN t
             M == DOMAIN merch
             f == [k \in S |-> t[k].amount * merch[t[k].merch].price]
             c == [k \in S |-> t[k].merch]
             g == [m \in M |-> Held(i, m) * merch[m].price]
  <1>1. TableOk(t) /\ IsFiniteSet(S) /\ IsFiniteSet(M) /\ t = Products(i)
    <2>1. TableOk(t) /\ IsFiniteSet(M) /\ t = Products(i)
      BY DEF StoreInv, BooksInv, TablesOk, Products
    <2>. QED
      BY <2>1, TableShape
  <1>2. \A k \in S : t[k].merch \in M /\ t[k].amount \in Nat
    <2>1. \A k \in S : t[k].merch \in M
      BY DEF StoreInv, ShelvesInv, ItemsOk
    <2>. QED
      BY <1>1, <2>1, TableShape
  <1>3. \A m \in M : merch[m].price \in Nat
    BY BookFacts DEF StoreInv
  <1>4. \A k \in S : f[k] \in Int /\ c[k] \in M
    BY <1>2, <1>3
  <1>5. ASSUME NEW m \in M
        PROVE  g[m] = SumFunctionOnSet(f, Grouped(S, c, m))
    <2> DEFINE a == merch[m].price
               T == ItemsOf(t, m)
               h == Amounts(t)
    <2>1. Grouped(S, c, m) = T
      BY DEF ItemsOf, Grouped
    <2>2. IsFiniteSet(T) /\ T \subseteq S /\ \A k \in T : h[k] \in Int /\ h[k] = t[k].amount
      BY <1>1, ItemsFinite
    <2>3. \A k \in T : f[k] = h[k] * a
      BY <2>2 DEF ItemsOf
    <2>4. a \in Int
      BY <1>3
    <2>5. g[m] = HeldIn(t, m) * a
      BY SameSums
    <2> HIDE DEF a, T, f, t, h
    <2>6. SumFunctionOnSet(f, T) = SumFunctionOnSet(h, T) * a
      BY <2>2, <2>3, <2>4, SumTimes
    <2>. QED
      BY <2>1, <2>5, <2>6 DEF HeldIn, T, h
  <1>6. CartTotalCost(i) = SumFunctionOnSet(f, S)
    BY <1>1 DEF CartTotalCost, SumFunction
  <1> HIDE DEF f, c, g, S, M
  <1>7. SumFunctionOnSet(f, S) = SumFunctionOnSet(g, M)
    <2>1. /\ \A k \in S : f[k] \in Int /\ c[k] \in M
          /\ \A m \in M : g[m] = SumFunctionOnSet(f, Grouped(S, c, m))
      BY <1>4, <1>5
    <2>. QED
      BY <1>1, <2>1, SumGrouped
  <1>. QED
    BY <1>6, <1>7 DEF g, M

\* What a checkout shows as the cost is what it takes from the stock, by value.
LEMMA CheckoutValue ==
  ASSUME StoreInv, StoreInv', NEW i \in DOMAIN carts, Checkout(i)
  PROVE  Value = Value' + CartTotalCost(i)
  <1>. PICK X : CartsIn(X)
    BY DEF StoreInv, CartsInv
  <1> DEFINE W == Range(warehouse)
             M == DOMAIN merch
             g == [m \in M |-> Held(i, m) * merch[m].price]
             v == [m \in M |-> merch[m].price * merch[m].total_stock]
             w == [m \in DOMAIN merch' |-> merch'[m].price * merch'[m].total_stock]
  <1>1. Find(carts[i].cart_id) = i
    BY FindsChosen DEF StoreInv, CartsInv
  <1>2. /\ warehouse' = warehouse /\ DOMAIN merch' = Reached(warehouse, carts')
        /\ \A m \in DOMAIN merch' :
             merch'[m] = [merch[m] EXCEPT
                            !.locs = LocsAfter(merch[m].locs, Held(i, m)),
                            !.total_stock = merch[m].total_stock - Sold(merch[m].locs, Held(i, m)),
                            !.stock_in_cart = merch[m].stock_in_cart - Held(i, m)]
    BY <1>1 DEF Checkout, CartCheckout, StockAfter
  <1>3. W \subseteq M /\ W \subseteq DOMAIN merch' /\ IsFiniteSet(M)
    <2>1. W \subseteq M
      BY DEF StoreInv, ShelvesInv, ShelvesAgree, Range
    <2>2. W \subseteq DOMAIN merch'
      BY <1>2 DEF Reached
    <2>. QED
      BY <2>1, <2>2 DEF StoreInv, BooksInv
  <1>4. IsFiniteSet(W) /\ IsFiniteSet(M \ W) /\ W \cup (M \ W) = M /\ W \cap (M \ W) = {}
    BY <1>3, FS_Subset
  <1>5. \A m \in M : /\ merch[m] \in MerchType /\ merch[m].price \in Nat
                     /\ merch[m].total_stock \in Nat /\ Held(i, m) \in Nat
    BY BookFacts DEF StoreInv
  <1>6. \A m \in M : g[m] \in Int
    BY <1>5
  <1>7. SumFunctionOnSet(g, M) = SumFunctionOnSet(g, W)
    <2>1. \A m \in M \ W : g[m] = 0
      <3>1. \A m \in M \ W : Held(i, m) = 0
        BY SoldIsHeld DEF StoreInv
      <3>. QED
        BY <1>5, <3>1
    <2>2. \A m \in W \cup (M \ W) : g[m] \in Int
      BY <1>4, <1>6
    <2> HIDE DEF g, W, M
    <2>3. SumFunctionOnSet(g, M \ W) = 0
      BY <1>4, <2>1, SumZero
    <2>4. SumFunctionOnSet(g, W \cup (M \ W)) = SumFunctionOnSet(g, W) + SumFunctionOnSet(g, M \ W)
      BY <1>4, <2>2, SumUnion
    <2>5. SumFunctionOnSet(g, W) \in Int
      BY <1>3, <1>4, <1>6, SumInt
    <2>6. SumFunctionOnSet(g, M) = SumFunctionOnSet(g, W) + SumFunctionOnSet(g, M \ W)
      BY <1>4, <2>4
    <2>. QED
      BY <2>3, <2>5, <2>6
  <1>8. \A m \in W : w[m] \in Int /\ g[m] \in Int /\ v[m] = w[m] + g[m]
    <2> SUFFICES ASSUME NEW m \in W PROVE w[m] \in Int /\ g[m] \in Int /\ v[m] = w[m] + g[m]
      OBVIOUS
    <2> DEFINE a == Held(i, m)
               price == merch[m].price
               total == merch[m].total_stock
               ls == LocsAfter(merch[m].locs, a)
               x == merch[m].stock_in_cart - a
    <2>1. m \in M /\ m \in DOMAIN merch' /\ Sold(merch[m].locs, a) = a
      BY <1>3, SoldIsHeld DEF StoreInv
    <2>2. merch'[m] = [merch[m] EXCEPT !.locs = ls, !.total_stock = total - a, !.stock_in_cart = x]
      BY <1>2, <2>1
    <2>3. price \in Nat /\ total \in Nat /\ a \in Nat /\ merch[m] \in MerchType
      BY <1>5, <2>1
    <2>4. v[m] = price * total /\ g[m] = a * price
      BY <2>1
    <2> HIDE DEF a, ls, x
    <2>5. merch'[m].price = price /\ merch'[m].total_stock = total - a
      BY <2>2, <2>3 DEF MerchType
    <2>6. w[m] = price * (total - a)
      BY <2>1, <2>5
    <2> HIDE DEF price, total, v, w, g
    <2>7. \A p, y, z \in Int : p * y = p * (y - z) + z * p /\ p * (y - z) \in Int /\ z * p \in Int
      OBVIOUS
    <2>. QED
      BY <2>3, <2>4, <2>6, <2>7
  <1>9. Value = SumFunctionOnSet(v, W) /\ Value' = SumFunctionOnSet(w, W)
    BY <1>2 DEF Value
  <1>10. CartTotalCost(i) = SumFunctionOnSet(g, M)
    BY CostByMerch
  <1> HIDE DEF g, v, w, W, M
  <1>11. SumFunctionOnSet(v, W) = SumFunctionOnSet(w, W) + SumFunctionOnSet(g, W)
    BY <1>4, <1>8, SumPlus
  <1>. QED
    BY <1>7, <1>9, <1>10, <1>11

\* The customer pays what has gone, for any contents of the cart and any prices.
THEOREM CheckoutsSettle == Spec => CheckoutSettles
  <1>1. StoreInv /\ StoreInv' /\ [Next]_vars
          => [\A i \in DOMAIN carts : Checkout(i) => Value = Value' + CartTotalCost(i)]_vars
    BY CheckoutValue
  <1>. QED
    BY <1>1, StoreHolds, PTL DEF Spec, CheckoutSettles

LEMMA FindsAll == CartsInv => \A i \in DOMAIN carts : Find(carts[i].cart_id) = i
  BY FindsChosen DEF CartsInv

LEMMA PricesNat == BooksInv => \A m \in DOMAIN merch : merch[m].price \in Nat
  BY BookFacts

\* The same items cost the same if the merch of each has its price, or there is
\* nothing of it.
LEMMA CostSame ==
  ASSUME NEW i, NEW j, carts'[j].products = carts[i].products,
         \A k \in DOMAIN carts[i].products :
           LET e == carts[i].products[k]
           IN  e.amount * merch'[e.merch].price = e.amount * merch[e.merch].price
  PROVE  CartTotalCost(j)' = CartTotalCost(i)
  BY DEF CartTotalCost, Products

\* A cart keeps its items in a step that is not a command on it.
LEMMA ItemsKept ==
  ASSUME StoreInv, [Next]_vars, status' = status, NEW i \in DOMAIN carts,
         NEW j \in DOMAIN carts', carts'[j].cart_id = carts[i].cart_id
  PROVE  \/ carts'[j].products = carts[i].products
         \/ /\ UNCHANGED <<warehouse, shelves, next_cart_id, no_carts_removed>>
            /\ \A y \in DOMAIN carts : y # i => carts'[y] = carts[y]
  <1>. PICK X : CartsIn(X)
    BY DEF StoreInv, CartsInv
  <1>1. \A y \in DOMAIN carts : Find(carts[y].cart_id) = y
    BY FindsAll DEF StoreInv
  <1>2. TablesOk(carts) /\ \A y \in DOMAIN carts : carts[y] \in Carts(X)
    BY CartsShape DEF StoreInv, BooksInv, CartsIn
  <1>3. ASSUME NEW y \in DOMAIN carts, carts'[j] = carts[y]
        PROVE  carts'[j].products = carts[i].products
    <2>1. y = i
      BY <1>1, <1>3
    <2>. QED
      BY <1>3, <2>1
  <1>4. CASE carts' = carts
    BY <1>3, <1>4
  <1>5. CASE CreateCart
    <2>1. /\ next_cart_id \in Nat /\ \A y \in DOMAIN carts : carts[y].cart_id < next_cart_id
          /\ carts' = Append(carts, [cart_id |-> next_cart_id, products |-> << >>])
      BY <1>5 DEF StoreInv, CartsInv, CartsFound, CreateCart, CartCreate, NewId
    <2>2. \/ carts'[j].cart_id = next_cart_id
          \/ \E y \in DOMAIN carts : carts'[j] = carts[y]
      BY <1>2, <2>1, HeldByAppend
    <2>3. carts'[j].cart_id # next_cart_id
      BY <2>1
    <2>. QED
      BY <1>3, <2>2, <2>3
  <1>6. ASSUME NEW x \in DOMAIN carts, RemoveCart(x) \/ Checkout(x)
        PROVE  carts'[j].products = carts[i].products
    <2>1. carts' = RemoveAt(carts, x)
      BY <1>1, <1>6 DEF RemoveCart, Checkout, CartSpecDestroy, CartCheckout
    <2>2. \E y \in DOMAIN carts : carts'[j] = carts[y]
      BY <1>2, <2>1, HeldByRemove
    <2>. QED
      BY <1>3, <2>2
  <1>7. ASSUME NEW x \in DOMAIN carts, NEW p, carts' = [carts EXCEPT ![x].products = p],
               UNCHANGED <<warehouse, shelves, next_cart_id, no_carts_removed>>
        PROVE  \/ carts'[j].products = carts[i].products
               \/ /\ UNCHANGED <<warehouse, shelves, next_cart_id, no_carts_removed>>
                  /\ \A y \in DOMAIN carts : y # i => carts'[y] = carts[y]
    <2>1. /\ DOMAIN carts' = DOMAIN carts
          /\ \A y \in DOMAIN carts : y # x => carts'[y] = carts[y]
          /\ carts'[x] = [carts[x] EXCEPT !.products = p]
      BY <1>7
    <2>2. carts'[x].cart_id = carts[x].cart_id
      BY <1>2, <2>1 DEF Carts
    <2>3. CASE x = i
      BY <1>7, <2>1, <2>3
    <2>4. CASE x # i
      <3>1. j # x
        BY <1>1, <2>2, <2>4
      <3>. QED
        BY <1>3, <2>1, <3>1
    <2>. QED
      BY <2>3, <2>4
  <1>8. ASSUME NEW x \in DOMAIN carts, NEW m, NEW amount, PutMerch(x, m, amount)
        PROVE  /\ \E p : carts' = [carts EXCEPT ![x].products = p]
               /\ UNCHANGED <<warehouse, shelves, next_cart_id, no_carts_removed>>
    BY <1>1, <1>8, PutIs
  <1>9. ASSUME NEW x \in DOMAIN carts, NEW k, NEW amount, TakeMerch(x, k, amount)
        PROVE  /\ \E p : carts' = [carts EXCEPT ![x].products = p]
               /\ UNCHANGED <<warehouse, shelves, next_cart_id, no_carts_removed>>
    BY <1>1, <1>9, TakeIs
  <1>10. CASE UNCHANGED vars
    BY <1>4, <1>10 DEF vars, store
  <1>11. ASSUME NEW m, NEW n, NEW a, NEW p, CreateMerch(m, n, a, p) \/ EditMerch(m, n, a, p)
         PROVE  carts' = carts
    BY <1>11 DEF CreateMerch, MerchInsert, EditMerch, MerchEdit
  <1>12. ASSUME NEW m, NEW amount, NEW s, AddStock(m, amount, s) \/ RemoveMerch(m) \/ SwitchUser
         PROVE  carts' = carts
    BY <1>12 DEF AddStock, MerchReplenish, RemoveMerch, ProductDestroy, SwitchUser, store
  <1>13. Next => ~Crash /\ ~HeapStops /\ ~Quit
    BY DEF Next, Crash, HeapStops, Quit, Ends
  <1>. QED
    BY <1>4, <1>5, <1>6, <1>7, <1>8, <1>9, <1>10, <1>11, <1>12, <1>13 DEF Next

\* The price of a cart does not change behind the customer's back, whatever is
\* edited, replenished, removed or sold in between: when it does, the cart has
\* other items, and every merch the price it had.
THEOREM CostsFrozen == Spec => CostFrozen
  <1> DEFINE Own(id) ==
               /\ Products(Find(id))' # Products(Find(id))
               /\ \A i \in DOMAIN carts : carts[i].cart_id # id => carts'[i] = carts[i]
               /\ \A m \in DOMAIN merch \cap DOMAIN merch' : merch'[m].price = merch[m].price
               /\ UNCHANGED <<warehouse, shelves, next_cart_id, no_carts_removed>>
  <1>1. /\ (CartsInv => \A i \in DOMAIN carts : Find(carts[i].cart_id) = i)'
        /\ (BooksInv => \A m \in DOMAIN merch : merch[m].price \in Nat)'
    BY FindsAll, PricesNat, PTL
  <1>2. ASSUME StoreInv, StoreInv', [Next]_vars, NEW id \in Ids \cap Ids', Cost(id)' # Cost(id)
        PROVE  Own(id)
    <2>1. PICK i \in DOMAIN carts : carts[i].cart_id = id
      BY <1>2 DEF Ids
    <2>2. PICK j \in DOMAIN carts' : carts'[j].cart_id = id
      BY <1>2 DEF Ids
    <2>3. Find(id) = i
      BY <1>2, <2>1, FindsAll DEF StoreInv
    <2>4. Find(id)' = j
      BY <1>2, <1>1, <2>2 DEF StoreInv
    <2>5. Cost(id) = CartTotalCost(i)
      BY <2>3 DEF Cost
    <2>6. Cost(id)' = CartTotalCost(j)'
      BY <2>4 DEF Cost, CartTotalCost, Products
    <2>7. Products(Find(id)) = carts[i].products /\ Products(Find(id))' = carts'[j].products
      BY <2>3, <2>4 DEF Products
    <2>8. status' = status
      <3>1. DOMAIN << >> = {}
        BY EmptySeq
      <3>. QED
        BY <1>2, <2>2, <3>1, EndsOnly DEF Ends
    <2>9. ASSUME carts'[j].products = carts[i].products
          PROVE  FALSE
      <3>1. ASSUME NEW k \in DOMAIN carts[i].products
            PROVE  LET e == carts[i].products[k]
                   IN  e.amount * merch'[e.merch].price = e.amount * merch[e.merch].price
        <4> DEFINE t == carts[i].products
                   m == t[k].merch
                   a == t[k].amount
        <4>1. m \in DOMAIN merch /\ m \in DOMAIN merch'
          BY <1>2, <2>9 DEF StoreInv, ShelvesInv, ItemsOk
        <4>2. CASE merch'[m].price = merch[m].price
          BY <4>2
        <4>3. CASE merch[m].stock_in_cart = 0
          <5>1. TableOk(t) /\ Held(i, m) \in Nat /\ Held(i, m) <= 0
            BY <1>2, <4>1, <4>3, BookFacts DEF StoreInv
          <5>2. a \in Nat /\ a <= Held(i, m)
            BY <5>1, HeldNat, SameSums
          <5>3. a = 0
            BY <5>1, <5>2
          <5>4. merch[m].price \in Nat /\ merch'[m].price \in Nat
            BY <1>1, <1>2, <4>1, PricesNat DEF StoreInv
          <5> HIDE DEF t, m, a
          <5>. QED
            BY <5>3, <5>4 DEF t, m, a
        <4>. QED
          BY <1>2, <2>8, <4>1, <4>2, <4>3, FieldsKept
      <3>. QED
        BY <1>2, <2>5, <2>6, <2>9, <3>1, CostSame
    <2>10. /\ UNCHANGED <<warehouse, shelves, next_cart_id, no_carts_removed>>
           /\ \A y \in DOMAIN carts : y # i => carts'[y] = carts[y]
      BY <1>2, <2>1, <2>2, <2>8, <2>9, ItemsKept
    <2>11. carts' # carts
      <3>1. ASSUME carts' = carts
            PROVE  FALSE
        <4>1. j = i
          BY <1>2, <2>2, <2>3, <3>1, FindsAll DEF StoreInv
        <4>. QED
          BY <2>9, <3>1, <4>1
      <3>. QED
        BY <3>1
    <2>12. \A m \in DOMAIN merch \cap DOMAIN merch' : merch'[m].price = merch[m].price
      BY <1>2, <2>8, <2>11, FieldsKept
    <2>. QED
      BY <2>1, <2>7, <2>9, <2>10, <2>12
  <1>3. StoreInv /\ StoreInv' /\ [Next]_vars
          => [\A id \in Ids \cap Ids' : Cost(id)' # Cost(id) => Own(id)]_vars
    BY <1>2
  <1>. QED
    BY <1>3, StoreHolds, PTL DEF Spec, CostFrozen

=============================================================================
