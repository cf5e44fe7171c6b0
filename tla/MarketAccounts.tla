--------------------------- MODULE MarketAccounts ---------------------------
(***************************************************************************)
(* What the money, the goods, the orders and the trades of Market say of   *)
(* each other.                                                             *)
(***************************************************************************)
EXTENDS Market

\* f[1] + ... + f[n].  A recursive function, so that it can be reasoned about.
SumTo(f, n) ==
  LET s[k \in Nat] == IF k = 0 THEN 0 ELSE s[k - 1] + f[k]
  IN  s[n]

IsPlaced(book, i) == i \in DOMAIN book /\ book[i] # Absent
Owns(c, book, i) == IsPlaced(book, i) /\ book[i].country = c

\* What an order still locks, as place_order deducted it.
Locked(order) ==
  IF order.status \in Live
  THEN LockAmount(order.side, order.quantity - order.filled, order.price)
  ELSE 0

\* What the orders of c that offer a kind of stock lock in a book.
Offers(kind) == IF kind = "money" THEN "BUY" ELSE "SELL"
Locks(kind, c, book) ==
  [i \in OrderId |->
     IF Owns(c, book, i) /\ book[i].side = Offers(kind) THEN Locked(book[i]) ELSE 0]
LockedBy(kind, c, book) == SumTo(Locks(kind, c, book), MaxOrders)

\* What a trade moves to c: the units to the buyer, their price to the seller.
Moved(kind, trade) ==
  IF kind = "money" THEN trade.quantity * trade.price ELSE trade.quantity
Gain(kind, c, book, trade) ==
  LET to   == IF kind = "money" THEN trade.sell ELSE trade.buy
      from == IF kind = "money" THEN trade.buy ELSE trade.sell
  IN  (IF Owns(c, book, to) THEN Moved(kind, trade) ELSE 0)
        - (IF Owns(c, book, from) THEN Moved(kind, trade) ELSE 0)
Gains(kind, c, book, log) ==
  SumTo([n \in DOMAIN log |-> Gain(kind, c, book, log[n])], Len(log))

\* What c has with what its orders lock is what it started with and its trades.
Even(stocks, book, log) ==
  \A kind \in {"money", "goods"}, c \in Country :
    stocks[<<kind, c>>] + LockedBy(kind, c, book)
      = Opening[kind][c] + LockedBy(kind, c, Book) + Gains(kind, c, book, log)

CurrentBook == [i \in OrderId |-> store[OrderOf(i)]]

(* One request at a time: what a country has, with what its live orders lock,  *)
(* is what it started with, changed by exactly its trades: a cancellation      *)
(* gives back what was not traded, a buyer gets back what it locked too much,  *)
(* and nothing is created or lost.                                             *)
(* (place_order, _match, cancel_order; docs/GDD.md section 10)                 *)
AccountsBalance == Even(store, CurrentBook, trades)

\* What an order was filled before the first trade, and what the trades add.
FilledBefore(i) == IF i \in DOMAIN Book THEN Book[i].filled ELSE 0
Traded(i, log) ==
  SumTo([n \in DOMAIN log |-> IF i \in {log[n].buy, log[n].sell} THEN log[n].quantity ELSE 0],
        Len(log))

Explained(book, log) ==
  \A i \in OrderId : IsPlaced(book, i) => book[i].filled = FilledBefore(i) + Traded(i, log)

(* One request at a time: filled_quantity is the total of the order's logged   *)
(* trades.  (repo.update, record_trade)                                        *)
TradesExplainFills == Explained(CurrentBook, trades)
=============================================================================
