------------------------------ MODULE Warehouse ------------------------------
(***************************************************************************)
(* The warehouse of the demonstration, warehouse.c and shelves.c.  The     *)
(* tables whose keys are strings are maps, which HashTable shows, and the  *)
(* lists are sequences.  A cart's table is keyed by a merch, but what is   *)
(* hashed and compared is the address of the merch's name, read as text:   *)
(* such a table is the sequence of its items in the order of its buckets.  *)
(***************************************************************************)
EXTENDS Naturals, SequencesExt

CONSTANTS
  Merch,        \* the structs that merch_create may return
  Names,        \* texts
  ShelfNames,
  Addresses     \* what is read of the address of a name: its bucket, which is
                \* that of its bytes, and its text, up to the first zero byte

ASSUME AddressesAssumption == \A a \in Addresses : a.bucket \in Nat

VARIABLES
  warehouse,         \* table: name -> merch
  merch,             \* the structs that a table or an item leads to
  shelves,           \* table: shelf name -> merch
  carts,             \* list of [cart_id, products], a table of [merch, bucket, amount]
  next_cart_id,
  no_carts_removed

store == <<warehouse, merch, shelves, carts, next_cart_id, no_carts_removed>>

-----------------------------------------------------------------------------
\* hash_table_insert and hash_table_remove.
With(f, x, y) == [z \in DOMAIN f \cup {x} |-> IF z = x THEN y ELSE f[z]]
Without(f, S) == Restrict(f, DOMAIN f \ S)

\* merch->locs: the shelves of a merch in the order in which they are emptied.
NamesIn(locs) == {loc.shelf_name : loc \in ToSet(locs)}
LocNames(m) == NamesIn(merch[m].locs)
Amounts(seq) == [k \in DOMAIN seq |-> seq[k].amount]
Upto(locs, n) == SumFunctionOnSet(Amounts(locs), 1 .. n)
OnShelves(m) == Upto(merch[m].locs, Len(merch[m].locs))

\* A cart is sought by its id, an item by its merch.
Find(id) == CHOOSE i \in DOMAIN carts : carts[i].cart_id = id
Products(i) == carts[i].products
Text(m) == merch[m].address.text
Bucket(m) == merch[m].address.bucket

\* find_previous_entry_for_key stops at the first item of the bucket whose text
\* is m's, and only if that item is m's own is it found.
Alike(i, m) ==
  {k \in DOMAIN Products(i) :
     Products(i)[k].bucket = Bucket(m) /\ Text(Products(i)[k].merch) = Text(m)}
Found(i, m) ==
  LET all == Alike(i, m) IN
  {k \in all : Products(i)[k].merch = m /\ \A j \in all : k <= j}
Item(i, m) == CHOOSE k \in Found(i, m) : TRUE
Lookup(i, m) == IF Found(i, m) = {} THEN 0 ELSE Products(i)[Item(i, m)].amount

\* Where hash_table_insert puts a new item: before that first one, or behind its
\* bucket.
Position(i, m) ==
  1 + Cardinality({k \in DOMAIN Products(i) :
        \/ Products(i)[k].bucket < Bucket(m)
        \/ Products(i)[k].bucket = Bucket(m) /\ \A j \in Alike(i, m) : k < j})

\* What a cart holds of a merch, in the items that precede item k or in all.
ItemsOf(p, m) == {k \in DOMAIN p : p[k].merch = m}
Before(i, k) ==
  SumFunctionOnSet(Amounts(Products(i)),
                   {j \in ItemsOf(Products(i), Products(i)[k].merch) : j < k})
Held(i, m) == SumFunctionOnSet(Amounts(Products(i)), ItemsOf(Products(i), m))

\* Structs that nothing leads to are collected.
Reached(wh, cs) ==
  Range(wh) \cup {e.merch : e \in UNION {ToSet(cs[i].products) : i \in DOMAIN cs}}

-----------------------------------------------------------------------------
WarehouseInit ==
  /\ warehouse = << >> /\ merch = << >> /\ shelves = << >> /\ carts = << >>
  /\ next_cart_id = 0 /\ no_carts_removed = 0

MerchInsert(m, name, address, price) ==
  /\ m \notin DOMAIN merch
  /\ name \notin DOMAIN warehouse
  /\ warehouse' = With(warehouse, name, m)
  /\ merch' = With(merch, m,
       [name |-> name, address |-> address, price |-> price,
        total_stock |-> 0, stock_in_cart |-> 0, locs |-> << >>])
  /\ UNCHANGED <<shelves, carts, next_cart_id, no_carts_removed>>

\* Removed under its old name and inserted under the new one.
MerchEdit(m, name, address, price) ==
  /\ warehouse' = With(Without(warehouse, {merch[m].name}), name, m)
  /\ merch' = [merch EXCEPT ![m].name = name, ![m].address = address, ![m].price = price]
  /\ UNCHANGED <<shelves, carts, next_cart_id, no_carts_removed>>

IsShelfFree(s, m) == s \notin DOMAIN shelves \/ s \in LocNames(m)

StockKept(m, amount, s) ==             \* mutant: not when the shelf was known
  merch[m].total_stock + (IF s \in LocNames(m) THEN 0 ELSE amount)
StockWith(m, amount, s) == merch[m].total_stock + amount

\* More on a shelf that the merch has, or a new shelf before the others.
LocsWith(locs, amount, s) ==
  IF s \in NamesIn(locs)
  THEN [k \in DOMAIN locs |->
         [locs[k] EXCEPT !.amount = @ + (IF locs[k].shelf_name = s THEN amount ELSE 0)]]
  ELSE <<[shelf_name |-> s, amount |-> amount]>> \o locs

MerchReplenish(m, amount, s) ==
  /\ IsShelfFree(s, m)
  /\ merch' = [merch EXCEPT ![m].total_stock = StockWith(m, amount, s),
                           ![m].locs = LocsWith(@, amount, s)]
  /\ shelves' = IF s \in LocNames(m) THEN shelves ELSE With(shelves, s, m)
  /\ UNCHANGED <<warehouse, carts, next_cart_id, no_carts_removed>>

\* total_stock and price stay as they were, for the items that still lead here.
ProductDestroy(m) ==
  /\ shelves' = Without(shelves, LocNames(m))
  /\ warehouse' = Without(warehouse, {merch[m].name})
  /\ merch' = Restrict([merch EXCEPT ![m].locs = << >>], Reached(warehouse', carts))
  /\ UNCHANGED <<carts, next_cart_id, no_carts_removed>>

IdAfterIncrement == next_cart_id + 1   \* mutant: the counter is raised first
NewId == next_cart_id

CartCreate ==
  /\ carts' = Append(carts, [cart_id |-> NewId, products |-> << >>])
  /\ next_cart_id' = next_cart_id + 1
  /\ UNCHANGED <<warehouse, merch, shelves, no_carts_removed>>

\* The amounts go back, and the cart is removed from the list.
CartSpecDestroy(id) ==
  LET i == Find(id) IN
  /\ carts' = RemoveAt(carts, i)
  /\ no_carts_removed' = no_carts_removed + 1
  /\ merch' = [m \in Reached(warehouse, carts') |->
       [merch[m] EXCEPT !.stock_in_cart = @ - Held(i, m)]]
  /\ UNCHANGED <<warehouse, shelves, next_cart_id>>

FitsAlways(m, amount) == TRUE          \* mutant: cart_add_merch checks nothing
Fits(m, amount) == merch[m].total_stock >= amount + merch[m].stock_in_cart

\* stock_in_cart when m is put into cart i.
InCartOfNewItem(i, m, amount) ==       \* mutant: only a new item is counted
  merch[m].stock_in_cart + (IF Found(i, m) # {} THEN 0 ELSE amount)
InCartWith(i, m, amount) == merch[m].stock_in_cart + amount

CartAddMerch(m, id, amount) ==
  LET i == Find(id)
      new == [merch |-> m, bucket |-> Bucket(m), amount |-> amount]
      more == IF Found(i, m) = {} THEN InsertAt(Products(i), Position(i, m), new)
              ELSE [Products(i) EXCEPT ![Item(i, m)].amount = @ + amount]
  IN
  /\ Fits(m, amount)
  /\ carts' = [carts EXCEPT ![i].products = more]
  /\ merch' = [merch EXCEPT ![m].stock_in_cart = InCartWith(i, m, amount)]
  /\ UNCHANGED <<warehouse, shelves, next_cart_id, no_carts_removed>>

\* The item must be found: without it the null result is dereferenced.
CartRemoveMerch(m, id, amount) ==
  LET i == Find(id)
      all == Lookup(i, m) <= amount
      left == IF all THEN RemoveAt(Products(i), Item(i, m))
              ELSE [Products(i) EXCEPT ![Item(i, m)].amount = @ - amount]
  IN
  /\ Found(i, m) # {}
  /\ carts' = [carts EXCEPT ![i].products = left]
  /\ merch' = Restrict(
       [merch EXCEPT ![m].stock_in_cart = @ - (IF all THEN Lookup(i, m) ELSE amount)],
       Reached(warehouse, carts'))
  /\ UNCHANGED <<warehouse, shelves, next_cart_id, no_carts_removed>>

CartTotalCost(i) ==
  SumFunction([k \in DOMAIN Products(i) |->
                Products(i)[k].amount * merch[Products(i)[k].merch].price])

-----------------------------------------------------------------------------
(* cart_checkout takes the amount of every item from the first shelves.    *)

\* A shelf is given up if the amount is not covered before it and not less
\* than covered with it.
GivenUp(locs, a, k) == Upto(locs, k - 1) < a /\ Upto(locs, k) <= a
NoGivenUp(locs, a) ==
  CHOOSE n \in 0 .. Len(locs) :
    /\ \A k \in 1 .. n : GivenUp(locs, a, k)
    /\ n = Len(locs) \/ ~GivenUp(locs, a, n + 1)

\* The shelves that are left, of which the first gives the rest, and what all
\* of them gave.
Sold(locs, a) == IF Upto(locs, Len(locs)) < a THEN Upto(locs, Len(locs)) ELSE a
LocsAfter(locs, a) ==
  LET n == NoGivenUp(locs, a) IN
  [k \in 1 .. (Len(locs) - n) |->
    IF k = 1 THEN [locs[n + 1] EXCEPT !.amount = @ - (Sold(locs, a) - Upto(locs, n))]
    ELSE locs[n + k]]
NamesGivenUp(locs, a) == {locs[k].shelf_name : k \in 1 .. NoGivenUp(locs, a)}

\* The iterator over the shelves of an item asserts that there is one.
NoShelfLeft(i) ==
  \E k \in DOMAIN Products(i) :
    LocsAfter(merch[Products(i)[k].merch].locs, Before(i, k)) = << >>

ShelvesKept(i) == shelves              \* mutant: the table keeps the shelves
ShelvesAfter(i) ==
  Without(shelves, UNION {NamesGivenUp(merch[m].locs, Held(i, m)) : m \in DOMAIN merch})

StockAfterShelf(i, m) ==               \* mutant: only whole shelves are counted
  merch[m].total_stock - Upto(merch[m].locs, NoGivenUp(merch[m].locs, Held(i, m)))
StockAfter(i, m) == merch[m].total_stock - Sold(merch[m].locs, Held(i, m))

CartCheckout(id) ==
  LET i == Find(id) IN
  /\ no_carts_removed' = no_carts_removed + 1
  /\ carts' = RemoveAt(carts, i)
  /\ ~NoShelfLeft(i)
  /\ shelves' = ShelvesAfter(i)
  /\ merch' = [m \in Reached(warehouse, carts') |->
       [merch[m] EXCEPT !.locs = LocsAfter(@, Held(i, m)),
                        !.total_stock = StockAfter(i, m),
                        !.stock_in_cart = @ - Held(i, m)]]
  /\ UNCHANGED <<warehouse, next_cart_id>>

-----------------------------------------------------------------------------
(* Properties.                                                             *)

\* total_stock is what the shelves of a merch hold: replenish and checkout keep
\* the two in step over known, new, emptied and half emptied shelves.
StockOnShelves == \A m \in Range(warehouse) : merch[m].total_stock = OnShelves(m)

\* stock_in_cart is what all carts hold of a merch, and never more than there
\* is, so that every checkout can be served.
StockInCarts ==
  \A m \in Range(warehouse) :
    /\ merch[m].stock_in_cart = SumFunction([i \in DOMAIN carts |-> Held(i, m)])
    /\ merch[m].stock_in_cart <= merch[m].total_stock

\* The table of shelves and the lists of the merch say the same: a shelf has
\* one merch, which has the shelf once.
NamesOnce(locs) == \A j, k \in DOMAIN locs : locs[j].shelf_name = locs[k].shelf_name => j = k
ShelvesAgree ==
  /\ \A n \in DOMAIN warehouse : warehouse[n] \in DOMAIN merch /\ merch[warehouse[n]].name = n
  /\ \A s \in DOMAIN shelves : shelves[s] \in Range(warehouse) /\ s \in LocNames(shelves[s])
  /\ \A m \in Range(warehouse) :
       NamesOnce(merch[m].locs) /\ \A s \in LocNames(m) : s \in DOMAIN shelves /\ shelves[s] = m

\* The cart that is found by its id is the one that was chosen from the list.
CartsFound ==
  /\ \A i, j \in DOMAIN carts : i < j => carts[i].cart_id < carts[j].cart_id
  /\ \A i \in DOMAIN carts : carts[i].cart_id < next_cart_id
  /\ Len(carts) + no_carts_removed = next_cart_id
=============================================================================
