\* One request at a time: the matching rules and the accounts.
CONSTANTS
  Country = {c1, c2}
  Quantity = {1, 2}
  Price = {1, 2}
  MaxOrders = 3
  Book <- NoBook
  Txn = {t1}
  NoTxn = NoTxn
  Opening <- MCOpening
SPECIFICATION Spec
INVARIANTS OrderCoherence UncrossedBook AccountsBalance TradesExplainFills
PROPERTY PriceTimePriority
\* No order is left to place or cancel when MaxOrders are placed and over.
CHECK_DEADLOCK FALSE
