CONSTANTS
  Merch = {m1, m2}
  Names = {n1, n2}
  ShelfNames = {s1, s2}
  Addresses <- OneBucket
  Prices = {1, 2}
  MaxStock = 2
  MaxCarts = 2
  MaxItems = 2
SPECIFICATION Spec
SYMMETRY Symmetry
INVARIANTS TypeOK StockOnShelves StockInCarts ShelvesAgree CartsFound StopsOnlyAfterOddItem
PROPERTIES CheckoutSettles CostFrozen
CHECK_DEADLOCK FALSE
