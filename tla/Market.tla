------------------------------- MODULE Market -------------------------------
(***************************************************************************)
(* MarketService: the order book of one resource in one world.  Placing an *)
(* order locks what it offers by deducting it, inserts the order and       *)
(* matches it against the resting orders of the other side; cancelling     *)
(* gives back what is not filled.  A request is a transaction (Session);   *)
(* every SELECT and every UPDATE of it is a step.                          *)
(*                                                                         *)
(* Quantities, prices and amounts are integers: floating-point rounding is *)
(* not modelled.  Order identifiers stand for created_at as well: both     *)
(* grow with every insertion.                                              *)
(***************************************************************************)
EXTENDS Integers, Sequences, FiniteSets

CONSTANTS
  Country,    \* the countries that trade
  Quantity,   \* order quantities: SUBSET (Nat \ {0})
  Price,      \* unit prices: SUBSET (Nat \ {0})
  Opening,    \* Opening["money"], Opening["goods"]: what each country starts with
  Book,       \* the orders resting at the start, oldest first: Seq(Order)
  MaxOrders,  \* bound on the orders ever placed
  Txn,        \* the requests in flight
  NoTxn       \* the holder of a free row

ASSUME OrderAssumption ==
  /\ Quantity \subseteq Nat \ {0}
  /\ Price \subseteq Nat \ {0}
  /\ MaxOrders \in Nat
ASSUME OpeningAssumption == Opening \in [{"money", "goods"} -> [Country -> Nat]]
ASSUME TxnAssumption == NoTxn \notin Txn

VARIABLES
  store,      \* committed rows: resource_stocks and market_orders
  holder,     \* the transaction holding a row's lock, or NoTxn
  pending,    \* the uncommitted version of a held row
  nextId,     \* the identifier of the next order (a sequence: never rolled back)
  trades,     \* committed market_trades, oldest first
  req         \* the local state of each request

vars == <<store, holder, pending, nextId, trades, req>>

OrderId == 1 .. MaxOrders
Stock == {"money", "goods"} \X Country
OrderRow == {"order"} \X OrderId
Row == Stock \cup OrderRow

INSTANCE Session

Money(c) == <<"money", c>>
Goods(c) == <<"goods", c>>
OrderOf(i) == <<"order", i>>

Live == {"OPEN", "PARTIAL"}
Order ==
  [side : {"BUY", "SELL"}, country : Country, quantity : Quantity, price : Price,
   filled : Nat, status : Live \cup {"FILLED", "CANCELLED"}]
Absent == [status |-> "ABSENT"]    \* an identifier without a (committed) row

Coherent(order) ==
  /\ order.filled <= order.quantity
  /\ order.status = "OPEN" <=> (order.filled = 0 /\ order.status # "CANCELLED")
  /\ order.status = "FILLED" <=> order.filled = order.quantity

\* A BUY and a SELL order that could trade.
Crossed(buy, sell) ==
  /\ buy.status \in Live /\ sell.status \in Live
  /\ buy.side = "BUY" /\ sell.side = "SELL"
  /\ buy.price >= sell.price

\* A book as requests one at a time leave it.
ASSUME BookAssumption ==
  /\ Book \in Seq(Order) /\ Len(Book) <= MaxOrders
  /\ \A i \in DOMAIN Book : Coherent(Book[i])
  /\ \A i, j \in DOMAIN Book : ~Crossed(Book[i], Book[j])

NoCopies == [i \in OrderId |-> Absent]

Idle == [pc |-> "idle"]
Active(t) == req[t].pc # "idle"
Goto(t, pc) == req' = [req EXCEPT ![t].pc = pc]
Min2(a, b) == IF a <= b THEN a ELSE b
NotBelowZero(a) == IF a < 0 THEN 0 ELSE a

-----------------------------------------------------------------------------
(***************************************************************************)
(* ResourceRepository.adjust, for each <<row, delta>> of req[t].todo: the  *)
(* SELECT, then the UPDATE with the amount computed from it.  When none is *)
(* left the request goes on at req[t].then.                                *)
(***************************************************************************)
AdjustSelect(t) ==
  /\ req[t].pc = "adjust"
  /\ req' = [req EXCEPT ![t].pc = "write",
                        ![t].seen = Seen(t, Head(req[t].todo)[1])]
  /\ UNCHANGED <<store, holder, pending, nextId, trades>>

AdjustUpdate(t) ==
  LET left == Tail(req[t].todo) IN
  /\ req[t].pc = "write"
  /\ Write(t, Head(req[t].todo)[1], NotBelowZero(req[t].seen + Head(req[t].todo)[2]))
  /\ req' = [req EXCEPT ![t].pc = IF left = <<>> THEN req[t].then ELSE "adjust",
                        ![t].todo = left, ![t].seen = 0]
  /\ UNCHANGED <<nextId, trades>>

-----------------------------------------------------------------------------
(***************************************************************************)
(* place_order.                                                            *)
(***************************************************************************)
LockRow(side, c) == IF side = "SELL" THEN Goods(c) ELSE Money(c)
LockAmount(side, quantity, price) == IF side = "SELL" THEN quantity ELSE quantity * price

\* Those that have begun placing an order and not inserted it yet.
Placing == {u \in Txn : Active(u) /\ req[u].then = "insert" /\ req[u].id = 0}

\* get_amount, the check, and adjust with what the order offers.
Place(t, c, side, quantity, price) ==
  /\ ~Active(t)
  /\ nextId + Cardinality(Placing) <= MaxOrders
  /\ Seen(t, LockRow(side, c)) >= LockAmount(side, quantity, price)
  /\ req' = [req EXCEPT ![t] =
       [pc |-> "adjust", then |-> "insert", seen |-> 0,
        todo |-> << <<LockRow(side, c), -LockAmount(side, quantity, price)>> >>,
        order |-> [side |-> side, country |-> c, quantity |-> quantity,
                   price |-> price, filled |-> 0, status |-> "OPEN"],
        id |-> 0, makers |-> {}, known |-> NoCopies, maker |-> 0, fill |-> 0, traded |-> <<>>]]
  /\ UNCHANGED <<store, holder, pending, nextId, trades>>

\* repo.create: the order's row, with the next identifier.
Insert(t) ==
  /\ req[t].pc = "insert"
  /\ nextId <= MaxOrders
  /\ Write(t, OrderOf(nextId), req[t].order)
  /\ nextId' = nextId + 1
  /\ req' = [req EXCEPT ![t].pc = "snapshot", ![t].id = nextId]
  /\ UNCHANGED trades

(***************************************************************************)
(* repo.matching_orders: copies of the live orders of the other side, best *)
(* price first, then oldest first.                                         *)
(***************************************************************************)
Matching(t) ==
  {i \in OrderId : LET o == Seen(t, OrderOf(i)) IN
                   o.status \in Live /\ o.side # req[t].order.side}

Snapshot(t) ==
  /\ req[t].pc = "snapshot"
  /\ req' = [req EXCEPT ![t].pc = "match", ![t].makers = Matching(t),
                        ![t].known = [i \in OrderId |->
                          IF i \in Matching(t) THEN Seen(t, OrderOf(i)) ELSE Absent]]
  /\ UNCHANGED <<store, holder, pending, nextId, trades>>

\* mutant: the cheapest first, for a seller too
CheapestFirst(side, known, a, b) ==
  \/ known[a].price < known[b].price
  \/ known[a].price = known[b].price /\ a < b

\* Order a precedes order b for a taker of the given side.
Precedes(side, known, a, b) ==
  \/ side = "BUY" /\ known[a].price < known[b].price
  \/ side = "SELL" /\ known[a].price > known[b].price
  \/ known[a].price = known[b].price /\ a < b

\* mutant: equal prices do not meet
StrictPrice(taker, maker) ==
  IF taker.side = "BUY" THEN maker.price < taker.price ELSE maker.price > taker.price

Compatible(taker, maker) ==
  IF taker.side = "BUY" THEN maker.price <= taker.price ELSE maker.price >= taker.price

\* The maker the loop is at, unless the loop is over.
IsNext(t, i) ==
  /\ req[t].order.filled < req[t].order.quantity
  /\ i \in req[t].makers
  /\ \A j \in req[t].makers \ {i} : Precedes(req[t].order.side, req[t].known, i, j)
  /\ Compatible(req[t].order, req[t].known[i])

(***************************************************************************)
(* One turn of _match: the payments of the two sides at the maker's price, *)
(* with the buyer's refund when it had locked more, ...                    *)
(***************************************************************************)
\* mutant: the buyer does not get back what it locked above the price
NoRefund(taker, maker, fill) ==
  IF taker.side = "BUY"
  THEN << <<Goods(taker.country), fill>>, <<Money(maker.country), fill * maker.price>> >>
  ELSE << <<Money(taker.country), fill * maker.price>>, <<Goods(maker.country), fill>> >>

Payments(taker, maker, fill) ==
  IF taker.side = "BUY"
  THEN << <<Goods(taker.country), fill>> >>
       \o (IF maker.price < taker.price
           THEN << <<Money(taker.country), (taker.price - maker.price) * fill>> >>
           ELSE <<>>)
       \o << <<Money(maker.country), fill * maker.price>> >>
  ELSE << <<Money(taker.country), fill * maker.price>>,
          <<Goods(maker.country), fill>> >>

Settle(t, i) ==
  LET taker == req[t].order
      maker == req[t].known[i]
      fill  == Min2(taker.quantity - taker.filled, maker.quantity - maker.filled)
  IN
  /\ req[t].pc = "match"
  /\ IsNext(t, i)
  /\ req' = [req EXCEPT ![t].pc = "adjust", ![t].then = "maker", ![t].maker = i,
                        ![t].fill = fill, ![t].todo = Payments(taker, maker, fill)]
  /\ UNCHANGED <<store, holder, pending, nextId, trades>>

\* mutant: an order filled exactly is still live
StillPartial(filled, quantity) ==
  IF filled > quantity THEN "FILLED" ELSE IF filled > 0 THEN "PARTIAL" ELSE "OPEN"
StatusOf(filled, quantity) ==
  IF filled >= quantity THEN "FILLED" ELSE IF filled > 0 THEN "PARTIAL" ELSE "OPEN"

\* mutant: only the status is saved
OnlyStatus(order, filled) == [order EXCEPT !.status = StatusOf(filled, order.quantity)]

\* repo.update writes filled_quantity and status, whatever the row holds now.
Updated(order, filled) ==
  [order EXCEPT !.filled = filled, !.status = StatusOf(filled, order.quantity)]

\* ... then the maker's row from its copy, and the trade.
UpdateMaker(t) ==
  LET R == req[t]
      filled == R.known[R.maker].filled + R.fill
      trade == [buy  |-> IF R.order.side = "BUY" THEN R.id ELSE R.maker,
                sell |-> IF R.order.side = "BUY" THEN R.maker ELSE R.id,
                quantity |-> R.fill, price |-> R.known[R.maker].price]
  IN
  /\ R.pc = "maker"
  /\ Write(t, OrderOf(R.maker), Updated(Seen(t, OrderOf(R.maker)), filled))
  /\ req' = [req EXCEPT ![t].pc = "match", ![t].order.filled = R.order.filled + R.fill,
                        ![t].makers = R.makers \ {R.maker},
                        ![t].traded = Append(R.traded, trade)]
  /\ UNCHANGED <<nextId, trades>>

\* The loop is over: no maker left, the taker filled, or the price too far.
UpdateTaker(t) ==
  /\ req[t].pc = "match"
  /\ \A i \in req[t].makers : ~IsNext(t, i)
  /\ Write(t, OrderOf(req[t].id), Updated(Seen(t, OrderOf(req[t].id)), req[t].order.filled))
  /\ Goto(t, "commit")
  /\ UNCHANGED <<nextId, trades>>

-----------------------------------------------------------------------------
(***************************************************************************)
(* cancel_order: the row is read once; the refund and the new status are   *)
(* decided from that copy.                                                 *)
(***************************************************************************)
Cancel(t, i) ==
  LET order == Seen(t, OrderOf(i))
      rest  == order.quantity - order.filled
  IN
  /\ ~Active(t)
  /\ order.status \in Live
  /\ req' = [req EXCEPT ![t] =
       [pc |-> "adjust", then |-> "cancel", seen |-> 0,
        todo |-> << <<LockRow(order.side, order.country),
                      LockAmount(order.side, rest, order.price)>> >>,
        order |-> order, id |-> i,
        makers |-> {}, known |-> NoCopies, maker |-> 0, fill |-> 0, traded |-> <<>>]]
  /\ UNCHANGED <<store, holder, pending, nextId, trades>>

MarkCancelled(t) ==
  /\ req[t].pc = "cancel"
  /\ Write(t, OrderOf(req[t].id), [Seen(t, OrderOf(req[t].id)) EXCEPT !.status = "CANCELLED"])
  /\ Goto(t, "commit")
  /\ UNCHANGED <<nextId, trades>>

-----------------------------------------------------------------------------
(***************************************************************************)
(* The end of a request.                                                   *)
(***************************************************************************)
Finish(t) == req' = [req EXCEPT ![t] = Idle]

Commit(t) ==
  /\ req[t].pc = "commit"
  /\ CommitWrites(t)
  /\ trades' = trades \o req[t].traded
  /\ Finish(t)
  /\ UNCHANGED nextId

Rollback(t) ==
  /\ ForgetWrites(t)
  /\ Finish(t)
  /\ UNCHANGED <<nextId, trades>>

\* A statement raises, the client or the database goes away, or PostgreSQL
\* aborts the transaction to break a cycle of waits.
Fail(t) == Active(t) /\ Rollback(t)

Init ==
  /\ store = [r \in Row |-> IF r \in Stock THEN Opening[r[1]][r[2]]
                           ELSE IF r[2] \in DOMAIN Book THEN Book[r[2]] ELSE Absent]
  /\ holder = [r \in Row |-> NoTxn]
  /\ pending = store
  /\ nextId = Len(Book) + 1
  /\ trades = <<>>
  /\ req = [t \in Txn |-> Idle]

Step(t) ==
  \/ AdjustSelect(t) \/ AdjustUpdate(t)
  \/ Insert(t) \/ Snapshot(t)
  \/ \E i \in OrderId : Settle(t, i)
  \/ UpdateMaker(t) \/ UpdateTaker(t)
  \/ MarkCancelled(t)
  \/ Commit(t)

Next ==
  \E t \in Txn :
    \/ \E c \in Country, side \in {"BUY", "SELL"}, q \in Quantity, p \in Price :
         Place(t, c, side, q, p)
    \/ \E i \in OrderId : Cancel(t, i)
    \/ Step(t)
    \/ Fail(t)

Spec == Init /\ [][Next]_vars

-----------------------------------------------------------------------------
(* Properties. *)

Trade == [buy : OrderId, sell : OrderId, quantity : Nat, price : Price]
Todo == Seq(Stock \X Int)

Request ==
  [pc : {"adjust", "write", "insert", "snapshot", "match", "maker", "cancel", "commit"},
   then : {"insert", "maker", "cancel"},
   seen : Nat, todo : Todo, order : Order, id : OrderId \cup {0},
   makers : SUBSET OrderId,
   known : [OrderId -> Order \cup {Absent}],
   maker : OrderId \cup {0}, fill : Nat, traded : Seq(Trade)]

TypeOK ==
  /\ store = [r \in Row |-> store[r]] /\ pending = [r \in Row |-> pending[r]]
  /\ \A r \in Stock : store[r] \in Nat /\ pending[r] \in Nat
  /\ \A r \in OrderRow : store[r] \in Order \cup {Absent} /\ pending[r] \in Order \cup {Absent}
  /\ holder \in [Row -> Txn \cup {NoTxn}]
  /\ nextId \in 1 .. MaxOrders + 1
  /\ trades \in Seq(Trade)
  /\ req \in [Txn -> Request \cup {Idle}]

Placed(i) == store[OrderOf(i)] # Absent
Resting(i) == store[OrderOf(i)].status \in Live

(* One request at a time: the status of a committed order always says how much *)
(* of it is filled, never more than was ordered, also after partial fills by   *)
(* several takers and a cancellation.  (_match, repo.update, cancel_order)     *)
OrderCoherence ==
  \A i \in OrderId : Placed(i) => Coherent(store[OrderOf(i)])

(* One request at a time: after every commit no BUY order meets a SELL order   *)
(* at its price or below; the matching leaves nothing it could have traded.    *)
(* (_match: its breaks, matching_orders: its order)                            *)
UncrossedBook ==
  \A i, j \in OrderId : ~Crossed(store[OrderOf(i)], store[OrderOf(j)])

(* An order is filled further only by a commit that leaves no better resting   *)
(* order of its side, and no older one at its price, with something unfilled.  *)
(* (matching_orders: ORDER BY price, created_at; docs/GDD.md section 10)       *)
Better(i, j) ==
  LET a == store[OrderOf(i)]
      b == store[OrderOf(j)]
  IN  /\ a.side = b.side
      /\ \/ a.side = "SELL" /\ a.price < b.price
         \/ a.side = "BUY" /\ a.price > b.price
         \/ a.price = b.price /\ i < j

PriceTimePriority ==
  [][\A i, j \in OrderId :
       /\ Resting(i) /\ Resting(j) /\ Better(i, j)
       /\ store[OrderOf(j)].filled < store'[OrderOf(j)].filled
       => store'[OrderOf(i)].status = "FILLED"]_vars
=============================================================================
