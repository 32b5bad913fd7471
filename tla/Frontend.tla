------------------------------ MODULE Frontend ------------------------------
(***************************************************************************)
(* The menu of the demonstration, frontend.c: one action for every letter  *)
(* of event_loop, with what it asks for as its parameters.  Choices that   *)
(* only print (H, P, V), or print an error, are left out.  A collection    *)
(* (X, or at half of the pages) stops the program: see HeapStops.          *)
(***************************************************************************)
EXTENDS Warehouse

CONSTANTS
  Prices,
  MaxStock, MaxCarts,    \* bounds on the stock of all merch, on next_cart_id
  MaxItems               \* and on the items of a cart

ASSUME PricesAssumption == Prices \subseteq Nat
ASSUME BoundsAssumption == MaxStock \in Nat

VARIABLES
  admin,
  status,      \* "running", "stopped", "crashed" by an assertion or a null pointer
               \* of the warehouse, "aborted" by an assertion of the heap
  zeroItem,    \* history: an item of amount 0 was put into a cart
  alike        \* history: an item was put before an item of another merch like it

vars == <<store, admin, status, zeroItem, alike>>
session == <<admin, status, zeroItem, alike>>

AnyInCart == \E i \in DOMAIN carts : Products(i) # << >>

Init ==
  /\ WarehouseInit
  /\ admin = TRUE /\ status = "running" /\ zeroItem = FALSE /\ alike = FALSE

-----------------------------------------------------------------------------
(* The administrator's choices.                                            *)

CreateMerch(m, name, address, price) ==
  /\ admin
  /\ MerchInsert(m, name, address, price)
  /\ UNCHANGED session

\* EDIT_NAME asks until the name is new; without it name and address stay.
NotInCartUnchecked(m) == TRUE          \* mutant: the check of K and R is lost
NotInCart(m) == merch[m].stock_in_cart = 0
EditMerch(m, name, address, price) ==
  /\ admin
  /\ NotInCart(m)
  /\ \/ name \notin DOMAIN warehouse
     \/ name = merch[m].name /\ address = merch[m].address
  /\ MerchEdit(m, name, address, price)
  /\ UNCHANGED session

AddStock(m, amount, s) ==
  /\ admin
  /\ SumFunctionOnSet([x \in DOMAIN merch |-> merch[x].total_stock], Range(warehouse)) + amount
       <= MaxStock
  /\ MerchReplenish(m, amount, s)
  /\ UNCHANGED session

RemoveMerch(m) ==
  /\ admin
  /\ NotInCart(m)
  /\ ProductDestroy(m)
  /\ UNCHANGED session

-----------------------------------------------------------------------------
(* The customer's choices, which the administrator may make as well.       *)

CreateCart ==
  /\ next_cart_id < MaxCarts
  /\ CartCreate
  /\ UNCHANGED session

RemoveCart(i) == CartSpecDestroy(carts[i].cart_id) /\ UNCHANGED session

\* What no cart holds, as far as its items are found.
AvailableStock(m) ==
  merch[m].total_stock - SumFunction([i \in DOMAIN carts |-> Lookup(i, m)])

PutMerch(i, m, amount) ==
  /\ Found(i, m) # {} \/ Len(Products(i)) < MaxItems
  /\ LET available == AvailableStock(m) IN available # 0 /\ amount \in 0 .. available
  /\ CartAddMerch(m, carts[i].cart_id, amount)
  /\ zeroItem' = (zeroItem \/ (amount = 0 /\ Found(i, m) = {}))
  /\ alike' = (alike \/ (Found(i, m) = {} /\ Alike(i, m) # {}))
  /\ UNCHANGED <<admin, status>>

\* T shows all items and removes by merch: the item that is found is another one
\* if the merch has two.
TakeMerch(i, k, amount) ==
  /\ amount \in 0 .. Products(i)[k].amount
  /\ CartRemoveMerch(Products(i)[k].merch, carts[i].cart_id, amount)
  /\ UNCHANGED session

Checkout(i) ==
  /\ AnyInCart
  /\ CartCheckout(carts[i].cart_id)
  /\ UNCHANGED session

-----------------------------------------------------------------------------
SwitchUser == admin' = ~admin /\ UNCHANGED <<store, status, zeroItem, alike>>

\* The store ends with the process.
Ends(how) ==
  /\ status' = how
  /\ warehouse' = << >> /\ merch' = << >> /\ shelves' = << >> /\ carts' = << >>
  /\ next_cart_id' = 0 /\ no_carts_removed' = 0
  /\ UNCHANGED <<admin, zeroItem, alike>>

\* cart_remove_merch dereferences what lookup gave; checkout asserts a shelf.
Crash ==
  /\ \E i \in DOMAIN carts :
       \/ \E k \in DOMAIN Products(i) : Found(i, Products(i)[k].merch) = {}
       \/ NoShelfLeft(i)
  /\ Ends("crashed")

\* h_delete releases everything at once.
Quit == Ends("stopped")

\* The first collection reads the page map, which lies inside the table of the
\* warehouse, as a pointer, and the heap asserts.  Any command that allocates may
\* be what collects; what it has done by then is seen by nobody.
HeapStops == Ends("aborted")

Next ==
  /\ status = "running"
  /\ \/ \E m \in Merch, n \in Names, a \in Addresses, p \in Prices : CreateMerch(m, n, a, p)
     \/ \E m \in Range(warehouse) :
          \/ \E n \in Names, a \in Addresses, p \in Prices : EditMerch(m, n, a, p)
          \/ \E amount \in 0 .. MaxStock, s \in ShelfNames : AddStock(m, amount, s)
          \/ RemoveMerch(m)
          \/ \E i \in DOMAIN carts, amount \in 0 .. MaxStock : PutMerch(i, m, amount)
     \/ CreateCart
     \/ \E i \in DOMAIN carts : RemoveCart(i)
     \/ \E i \in DOMAIN carts : Checkout(i)
     \/ \E i \in DOMAIN carts : \E k \in DOMAIN Products(i), amount \in 0 .. MaxStock :
          TakeMerch(i, k, amount)
     \/ SwitchUser
     \/ Crash
     \/ HeapStops
     \/ Quit

Spec == Init /\ [][Next]_vars

-----------------------------------------------------------------------------
(* Properties.                                                             *)

TypeOK ==
  /\ DOMAIN warehouse \subseteq Names /\ Range(warehouse) \subseteq DOMAIN merch
  /\ DOMAIN merch \subseteq Merch
  /\ \A m \in DOMAIN merch :
       merch[m] \in [name : Names, address : Addresses, price : Prices, total_stock : Nat,
                     stock_in_cart : Nat, locs : Seq([shelf_name : ShelfNames, amount : Nat])]
  /\ DOMAIN shelves \subseteq ShelfNames /\ Range(shelves) \subseteq DOMAIN merch
  /\ \A i \in DOMAIN carts :
       Products(i) \in Seq([merch : DOMAIN merch, bucket : Nat, amount : Nat])
  /\ status \in {"running", "stopped", "crashed", "aborted"}

\* Until a collection stops it, the program is brought down only by an item of
\* amount 0, which S accepts, or by two items of a cart whose names have
\* addresses that are alike: otherwise every item is found, and the shelves of
\* its merch last until its checkout.
StopsOnlyAfterOddItem == status = "crashed" => zeroItem \/ alike

\* The customer pays what has gone: a checkout lowers the value of the stock by
\* the cost that it showed before.
Value ==
  SumFunctionOnSet([m \in DOMAIN merch |-> merch[m].price * merch[m].total_stock],
                   Range(warehouse))
CheckoutSettles ==
  [][\A i \in DOMAIN carts : Checkout(i) => Value = Value' + CartTotalCost(i)]_vars

\* Between two looks at it, the cost of a cart changes only by a command on that
\* cart: no edit of a price, no removal and no other cart's checkout reaches it.
Cost(id) == CartTotalCost(Find(id))
Ids == {carts[i].cart_id : i \in DOMAIN carts}
CostFrozen ==
  [][\A id \in Ids \cap Ids' :
       Cost(id)' # Cost(id) =>
         /\ Products(Find(id))' # Products(Find(id))
         /\ \A i \in DOMAIN carts : carts[i].cart_id # id => carts'[i] = carts[i]
         /\ \A m \in DOMAIN merch \cap DOMAIN merch' : merch'[m].price = merch[m].price
         /\ UNCHANGED <<warehouse, shelves, next_cart_id, no_carts_removed>>]_vars

\* "Deleting a merch that is currently placed in a cart is not allowed!"
NoRemovedMerchInCart ==
  \A i \in DOMAIN carts : \A k \in DOMAIN Products(i) : Products(i)[k].merch \in Range(warehouse)
=============================================================================
