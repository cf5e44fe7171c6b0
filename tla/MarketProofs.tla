---------------------------- MODULE MarketProofs ----------------------------
(***************************************************************************)
(* With one request at a time the order book stays coherent and uncrossed, *)
(* orders are filled in price-time priority, the fills are the logged      *)
(* trades and nothing is created or lost, whatever the number of countries *)
(* and orders, the quantities, the prices and the opening stocks.          *)
(***************************************************************************)
EXTENDS MarketAccounts, SequenceTheorems, WellFoundedInduction, TLAPS

-----------------------------------------------------------------------------
(* The inductive invariant.                                                *)

\* The orders with identifiers in S, in one version of the rows.
Consistent(rows, S) ==
  /\ \A i \in S : rows[OrderOf(i)] # Absent => Coherent(rows[OrderOf(i)])
  /\ \A i, j \in S : ~Crossed(rows[OrderOf(i)], rows[OrderOf(j)])

\* Whoever holds a row is in flight; nobody else has touched it.
Holders ==
  \A r \in Row :
    /\ holder[r] = NoTxn => pending[r] = store[r]
    /\ holder[r] # NoTxn => Active(holder[r])

\* The phases of a request.
Adjusting(R) == R.pc \in {"adjust", "write"}
Before(R) == R.pc = "insert" \/ (Adjusting(R) /\ R.then = "insert")
Paying(R) == R.pc = "maker" \/ (Adjusting(R) /\ R.then = "maker")
InMatch(R) == R.pc = "match" \/ Paying(R)
Cancelling(R) == R.pc = "cancel" \/ (Adjusting(R) /\ R.then = "cancel")

\* A resting order the taker R.order could trade with, the price apart.
Opposes(R, order) == order.status \in Live /\ order.side # R.order.side

\* The taker's row is in the book; the other orders are consistent.
Inserted(R) ==
  /\ R.id \in OrderId
  /\ pending[OrderOf(R.id)] \in Order
  /\ pending[OrderOf(R.id)] = [R.order EXCEPT !.filled = 0, !.status = "OPEN"]
  /\ Consistent(pending, OrderId \ {R.id})

\* makers are the resting orders not yet visited, known as they are; a visited
\* one is used up, or the taker is.
Matchmaking(R) ==
  /\ R.makers \subseteq OrderId \ {R.id}
  /\ \A i \in R.makers :
       R.known[i] = pending[OrderOf(i)] /\ Opposes(R, R.known[i]) /\ Coherent(R.known[i])
  /\ \A i \in OrderId \ (R.makers \cup {R.id}) :
       Opposes(R, pending[OrderOf(i)]) => R.order.filled = R.order.quantity

\* The turn of the loop that is being paid for uses up one of the two.
Turn(R) ==
  LET taker == R.order
      maker == R.known[R.maker]
  IN  /\ R.maker \in R.makers
      /\ taker.filled < taker.quantity
      /\ R.fill = Min2(taker.quantity - taker.filled, maker.quantity - maker.filled)

InFlight(R) ==
  /\ Adjusting(R) => R.todo # <<>>
  /\ R.order.filled <= R.order.quantity
  /\ Before(R) => R.order.status = "OPEN" /\ R.order.filled = 0 /\ Consistent(pending, OrderId)
  /\ R.pc = "snapshot" => R.order.status = "OPEN" /\ R.order.filled = 0 /\ Inserted(R)
  /\ InMatch(R) => Inserted(R) /\ Matchmaking(R)
  /\ Paying(R) => Turn(R)
  /\ Cancelling(R) =>
       /\ R.id \in OrderId
       /\ pending[OrderOf(R.id)] \in Order /\ pending[OrderOf(R.id)].status \in Live
       /\ Consistent(pending, OrderId)
  /\ R.pc = "commit" => Consistent(pending, OrderId)

IInv ==
  /\ TypeOK
  /\ Holders
  /\ Consistent(store, OrderId)
  /\ \A t \in Txn : Active(t) => InFlight(req[t])

-----------------------------------------------------------------------------
(* Rows and versions.                                                      *)

OneRequest == \A t, u \in Txn : t = u

USE OrderAssumption, OpeningAssumption, TxnAssumption

LEMMA RowTypes ==
  /\ \A i \in OrderId : OrderOf(i) \in Row /\ OrderOf(i) \in OrderRow /\ OrderOf(i) \notin Stock
  /\ \A c \in Country : Money(c) \in Stock /\ Goods(c) \in Stock
  /\ Stock \subseteq Row
  /\ \A i, j : OrderOf(i) = OrderOf(j) => i = j
  /\ \A r \in OrderRow : \E i \in OrderId : r = OrderOf(i)
  BY DEF OrderOf, Row, OrderRow, Stock, Money, Goods

LEMMA OrderTypes ==
  ASSUME TypeOK, NEW i \in OrderId
  PROVE  /\ store[OrderOf(i)] \in Order \cup {Absent}
         /\ pending[OrderOf(i)] \in Order \cup {Absent}
  BY RowTypes DEF TypeOK

LEMMA LiveIsOrder ==
  ASSUME NEW o \in Order \cup {Absent}, o.status \in Live
  PROVE  o \in Order /\ o # Absent
  BY DEF Absent, Live

LEMMA ActiveType == ASSUME TypeOK, NEW t \in Txn, Active(t) PROVE req[t] \in Request
  BY DEF TypeOK, Active, Idle

\* With one request in flight, what it sees is the pending version of every row.
LEMMA SeesPending ==
  ASSUME OneRequest, TypeOK, Holders, NEW t \in Txn, NEW r \in Row
  PROVE  Seen(t, r) = pending[r]
  BY DEF OneRequest, TypeOK, Holders, Seen

LEMMA SameRows ==
  ASSUME NEW one, NEW two, NEW S, Consistent(one, S),
         \A i \in S : one[OrderOf(i)] = two[OrderOf(i)]
  PROVE  Consistent(two, S)
  BY DEF Consistent

LEMMA FewerRows ==
  ASSUME NEW rows, NEW S, NEW T, T \subseteq S, Consistent(rows, S)
  PROVE  Consistent(rows, T)
  BY DEF Consistent

\* What a write does to the rows.
LEMMA WriteEffect ==
  ASSUME OneRequest, TypeOK, Holders, NEW t \in Txn, NEW r \in Row, NEW v,
         Write(t, r, v), Active(t)'
  PROVE  /\ store' = store
         /\ pending' = [pending EXCEPT ![r] = v]
         /\ pending'[r] = v
         /\ \A x \in Row : x # r => pending'[x] = pending[x]
         /\ holder' \in [Row -> Txn \cup {NoTxn}]
         /\ Holders'
  <1>1. store' = store /\ pending' = [pending EXCEPT ![r] = v] /\ DOMAIN pending = Row
    BY DEF Write, TypeOK
  <1>2. pending'[r] = v /\ \A x \in Row : x # r => pending'[x] = pending[x]
    BY <1>1
  <1>3. holder' = [holder EXCEPT ![r] = t] /\ holder \in [Row -> Txn \cup {NoTxn}]
    BY DEF Write, TypeOK
  <1>4. Holders'
    <2> SUFFICES ASSUME NEW x \in Row
                 PROVE  /\ holder'[x] = NoTxn => pending'[x] = store'[x]
                        /\ holder'[x] # NoTxn => Active(holder[x])'
      BY DEF Holders, Active
    <2>1. CASE x = r
      BY <1>3, <2>1 DEF Active
    <2>2. CASE x # r
      <3>1. holder'[x] = holder[x] /\ pending'[x] = pending[x]
        BY <1>2, <1>3, <2>2
      <3>2. holder[x] # NoTxn => holder[x] = t
        BY <1>3 DEF OneRequest
      <3> QED BY <1>1, <3>1, <3>2 DEF Holders, Active
    <2> QED BY <2>1, <2>2
  <1> QED BY <1>1, <1>2, <1>3, <1>4

-----------------------------------------------------------------------------
(* The three shapes of a step: of one request, new is its local state after it. *)

\* A step that only reads.
LEMMA ReadStep ==
  ASSUME OneRequest, IInv, NEW t \in Txn, NEW new \in Request,
         req' = [req EXCEPT ![t] = new], InFlight(new),
         UNCHANGED <<store, holder, pending, nextId, trades>>
  PROVE  IInv'
  <1>1. req \in [Txn -> Request \cup {Idle}] BY DEF IInv, TypeOK
  <1>2. new.pc # "idle" BY DEF Request
  <1>3. req'[t] = new /\ \A u \in Txn : req'[u] = new BY <1>1 DEF OneRequest
  <1>4. TypeOK' BY <1>1 DEF IInv, TypeOK
  <1>5. Holders'
    BY <1>1, <1>2, <1>3 DEF IInv, Holders, TypeOK, Active
  <1>6. Consistent(store, OrderId)' BY DEF IInv, Consistent
  <1>7. InFlight(new)'
    BY DEF InFlight, Inserted, Matchmaking, Turn, Consistent
  <1>8. \A u \in Txn : Active(u)' => InFlight(req[u])'
    BY <1>3, <1>7
  <1> QED BY <1>4, <1>5, <1>6, <1>8 DEF IInv

\* A step that writes a row.
LEMMA WriteStep ==
  ASSUME OneRequest, IInv, NEW t \in Txn, NEW r \in Row, NEW v, NEW new \in Request,
         Write(t, r, v), r \in Stock => v \in Nat, r \in OrderRow => v \in Order,
         req' = [req EXCEPT ![t] = new], InFlight(new)',
         nextId' \in 1 .. MaxOrders + 1, UNCHANGED trades
  PROVE  IInv'
  <1>1. req \in [Txn -> Request \cup {Idle}] BY DEF IInv, TypeOK
  <1>2. new.pc # "idle" BY DEF Request
  <1>3. req'[t] = new /\ \A u \in Txn : req'[u] = new BY <1>1 DEF OneRequest
  <1>4. /\ store' = store
        /\ pending' = [pending EXCEPT ![r] = v]
        /\ holder' \in [Row -> Txn \cup {NoTxn}]
        /\ Holders'
        /\ pending'[r] = v
        /\ \A x \in Row : x # r => pending'[x] = pending[x]
    BY <1>2, <1>3, WriteEffect DEF IInv, Active
  <1>5. TypeOK'
    <2>1. req' \in [Txn -> Request \cup {Idle}] BY <1>1
    <2>2. \A x \in Stock : pending'[x] \in Nat BY <1>4, RowTypes DEF IInv, TypeOK
    <2>3. \A x \in OrderRow : pending'[x] \in Order \cup {Absent}
      BY <1>4 DEF IInv, TypeOK, Row
    <2> QED BY <1>4, <2>1, <2>2, <2>3 DEF IInv, TypeOK
  <1>6. Consistent(store, OrderId)' BY <1>4 DEF IInv, Consistent
  <1>7. \A u \in Txn : Active(u)' => InFlight(req[u])' BY <1>3
  <1> QED BY <1>4, <1>5, <1>6, <1>7 DEF IInv

\* A step that ends the request: the rows are those of one version.
LEMMA EndStep ==
  ASSUME OneRequest, IInv, NEW t \in Txn, Finish(t), Release(t),
         pending' = store', store' = [r \in Row |-> store'[r]],
         store' = store \/ (store' = pending /\ Consistent(pending, OrderId)),
         nextId' = nextId, trades' \in Seq(Trade)
  PROVE  IInv'
  <1>1. req \in [Txn -> Request \cup {Idle}] BY DEF IInv, TypeOK
  <1>2. \A u \in Txn : req'[u] = Idle BY <1>1 DEF OneRequest, Finish
  <1>3. \A r \in Row : holder'[r] = NoTxn
    BY DEF Release, OneRequest, IInv, TypeOK
  <1>4. TypeOK'
    <2>1. req' \in [Txn -> Request \cup {Idle}] BY <1>1 DEF Finish
    <2>2. holder' \in [Row -> Txn \cup {NoTxn}] BY DEF Release, IInv, TypeOK
    <2> QED BY <2>1, <2>2 DEF IInv, TypeOK
  <1>5. Holders' BY <1>3 DEF Holders
  <1>6. Consistent(store, OrderId)'
    <2>1. CASE store' = store BY <2>1 DEF IInv, Consistent
    <2>2. CASE store' = pending /\ Consistent(pending, OrderId) BY <2>2 DEF Consistent
    <2> QED BY <2>1, <2>2
  <1>7. \A u \in Txn : ~Active(u)' BY <1>2 DEF Active, Idle
  <1> QED BY <1>4, <1>5, <1>6, <1>7 DEF IInv

LEMMA CommitStep ==
  ASSUME OneRequest, IInv, NEW t \in Txn, Commit(t)
  PROVE  IInv'
  <1>1. Active(t) /\ req[t].pc = "commit" BY DEF Commit, Active
  <1>2. req[t] \in Request BY <1>1, ActiveType DEF IInv
  <1>3. Consistent(pending, OrderId) BY <1>1 DEF IInv, InFlight
  <1>4. store' = pending /\ pending' = pending
    <2>1. pending = [r \in Row |-> pending[r]] BY DEF IInv, TypeOK
    <2>2. \A r \in Row : Seen(t, r) = pending[r] BY SeesPending DEF IInv
    <2> QED BY <2>1, <2>2 DEF Commit, CommitWrites
  <1>5. trades' \in Seq(Trade)
    BY <1>2 DEF Commit, IInv, TypeOK, Request
  <1> QED BY <1>3, <1>4, <1>5, EndStep DEF Commit, CommitWrites, IInv, TypeOK

LEMMA RollbackStep ==
  ASSUME OneRequest, IInv, NEW t \in Txn, Rollback(t)
  PROVE  IInv'
  <1>1. store' = store /\ pending' = store'
    <2>1. \A r \in Row : (IF holder[r] = t THEN store[r] ELSE pending[r]) = store[r]
      BY DEF OneRequest, IInv, TypeOK, Holders
    <2>2. store = [r \in Row |-> store[r]] BY DEF IInv, TypeOK
    <2> QED BY <2>1, <2>2 DEF Rollback, ForgetWrites
  <1> QED BY <1>1, EndStep DEF Rollback, ForgetWrites, IInv, TypeOK

-----------------------------------------------------------------------------
(* adjust.                                                                 *)

LEMMA TodoTypes ==
  ASSUME NEW R \in Request, R.todo # <<>>
  PROVE  /\ Head(R.todo)[1] \in Stock /\ Head(R.todo)[2] \in Int
         /\ Tail(R.todo) \in Todo
  <1>1. R.todo \in Seq(Stock \X Int) BY DEF Request, Todo
  <1>2. Head(R.todo) \in Stock \X Int /\ Tail(R.todo) \in Seq(Stock \X Int) BY <1>1
  <1> QED BY <1>2 DEF Todo

LEMMA InFlightOf ==
  ASSUME IInv, NEW t \in Txn, Active(t)
  PROVE  req[t] \in Request /\ InFlight(req[t])
  BY ActiveType DEF IInv

LEMMA AdjustSelectStep ==
  ASSUME OneRequest, IInv, NEW t \in Txn, AdjustSelect(t)
  PROVE  IInv'
  <1>1. PICK R : R = req[t] OBVIOUS
  <1>2. R \in Request /\ InFlight(R) /\ R.pc = "adjust"
    BY <1>1, InFlightOf DEF AdjustSelect, Active
  <1>3. R.todo # <<>> BY <1>2 DEF InFlight, Adjusting
  <1>4. PICK amount : amount = Seen(t, Head(R.todo)[1]) OBVIOUS
  <1>5. amount \in Nat
    <2>1. PICK r : r = Head(R.todo)[1] OBVIOUS
    <2>2. r \in Stock /\ r \in Row BY <1>2, <1>3, <2>1, TodoTypes, RowTypes
    <2>3. amount = pending[r] BY <1>4, <2>1, <2>2, SeesPending DEF IInv
    <2> QED BY <2>2, <2>3 DEF IInv, TypeOK
  <1>6. PICK new : new = [R EXCEPT !.pc = "write", !.seen = amount] OBVIOUS
  <1>7. new \in Request BY <1>2, <1>5, <1>6 DEF Request
  <1>8. req' = [req EXCEPT ![t] = new]
    BY <1>1, <1>4, <1>6 DEF AdjustSelect, IInv, TypeOK
  <1>9. InFlight(new)
    <2>1. /\ new.then = R.then /\ new.order = R.order /\ new.id = R.id
          /\ new.makers = R.makers /\ new.known = R.known /\ new.maker = R.maker
          /\ new.fill = R.fill /\ new.todo = R.todo /\ new.pc = "write"
      BY <1>2, <1>6 DEF Request
    <2>2. /\ Inserted(new) <=> Inserted(R)
          /\ Matchmaking(new) <=> Matchmaking(R)
          /\ Turn(new) <=> Turn(R)
      BY <2>1 DEF Inserted, Matchmaking, Opposes, Turn
    <2> QED BY <1>2, <2>1, <2>2 DEF InFlight, Adjusting, Before, Paying, InMatch, Cancelling
  <1> QED BY <1>7, <1>8, <1>9, ReadStep DEF AdjustSelect

\* A write of a stock leaves the orders as they are.
LEMMA OrdersUntouched ==
  ASSUME OneRequest, IInv, NEW t \in Txn, NEW r \in Stock, NEW v, Write(t, r, v)
  PROVE  \A i \in OrderId : pending'[OrderOf(i)] = pending[OrderOf(i)]
  BY RowTypes DEF Write, IInv, TypeOK

LEMMA AdjustUpdateStep ==
  ASSUME OneRequest, IInv, NEW t \in Txn, AdjustUpdate(t)
  PROVE  IInv'
  <1>1. PICK R : R = req[t] OBVIOUS
  <1>2. R \in Request /\ InFlight(R) /\ R.pc = "write"
    BY <1>1, InFlightOf DEF AdjustUpdate, Active
  <1>3. R.todo # <<>> BY <1>2 DEF InFlight, Adjusting
  <1>4. PICK r, v : r = Head(R.todo)[1] /\ v = NotBelowZero(R.seen + Head(R.todo)[2])
    OBVIOUS
  <1>5. r \in Stock /\ r \in Row /\ r \notin OrderRow /\ v \in Nat
    <2>1. R.seen \in Nat BY <1>2 DEF Request
    <2>2. r \in Stock /\ v \in Nat
      BY <1>2, <1>3, <1>4, <2>1, TodoTypes DEF NotBelowZero
    <2> QED BY <2>2 DEF Row, Stock, OrderRow
  <1>6. Write(t, r, v) BY <1>1, <1>4 DEF AdjustUpdate
  <1>7. PICK left : left = Tail(R.todo) OBVIOUS
  <1>8. PICK new : new = [R EXCEPT !.pc = IF left = <<>> THEN R.then ELSE "adjust",
                                   !.todo = left, !.seen = 0]
    OBVIOUS
  <1>9. new \in Request
    <2>1. left \in Todo BY <1>2, <1>3, <1>7, TodoTypes
    <2>2. R.then \in {"insert", "maker", "cancel"} BY <1>2 DEF Request
    <2> QED BY <1>2, <1>8, <2>1, <2>2 DEF Request
  <1>10. req' = [req EXCEPT ![t] = new]
    BY <1>1, <1>7, <1>8 DEF AdjustUpdate, IInv, TypeOK
  <1>11. InFlight(new)'
    <2>1. \A i \in OrderId : pending'[OrderOf(i)] = pending[OrderOf(i)]
      BY <1>5, <1>6, OrdersUntouched
    <2>2. \A S : S \subseteq OrderId /\ Consistent(pending, S) => Consistent(pending, S)'
      BY <2>1 DEF Consistent
    <2>3. R.then \in {"insert", "maker", "cancel"} /\ R.makers \subseteq OrderId
      BY <1>2 DEF Request
    <2>4. /\ new.then = R.then /\ new.order = R.order /\ new.id = R.id
          /\ new.makers = R.makers /\ new.known = R.known /\ new.maker = R.maker
          /\ new.fill = R.fill /\ new.todo = left
          /\ new.pc = IF left = <<>> THEN R.then ELSE "adjust"
      BY <1>2, <1>8 DEF Request
    <2>5. Adjusting(R) BY <1>2 DEF Adjusting
    <2>6. R.order.filled <= R.order.quantity BY <1>2 DEF InFlight
    <2>7. CASE R.then = "insert"
      <3>1. R.order.status = "OPEN" /\ R.order.filled = 0 /\ Consistent(pending, OrderId)
        BY <1>2, <2>5, <2>7 DEF InFlight, Before
      <3>2. Consistent(pending, OrderId)' BY <2>2, <3>1
      <3> QED BY <2>4, <2>6, <2>7, <3>1, <3>2
          DEF InFlight, Adjusting, Before, InMatch, Paying, Cancelling
    <2>8. CASE R.then = "maker"
      <3>1. Inserted(R) /\ Matchmaking(R) /\ Turn(R)
        BY <1>2, <2>5, <2>8 DEF InFlight, InMatch, Paying
      <3>2. Inserted(new)' BY <2>1, <2>2, <2>4, <3>1 DEF Inserted
      <3>3. Matchmaking(new)' BY <2>1, <2>3, <2>4, <3>1 DEF Matchmaking, Opposes
      <3>4. Turn(new)' BY <2>4, <3>1 DEF Turn
      <3> QED BY <2>4, <2>6, <2>8, <3>2, <3>3, <3>4
          DEF InFlight, Adjusting, Before, InMatch, Paying, Cancelling
    <2>9. CASE R.then = "cancel"
      <3>1. /\ R.id \in OrderId
            /\ pending[OrderOf(R.id)] \in Order /\ pending[OrderOf(R.id)].status \in Live
            /\ Consistent(pending, OrderId)
        BY <1>2, <2>5, <2>9 DEF InFlight, Cancelling
      <3>2. Consistent(pending, OrderId)' BY <2>2, <3>1
      <3> QED BY <2>1, <2>4, <2>6, <2>9, <3>1, <3>2
          DEF InFlight, Adjusting, Before, InMatch, Paying, Cancelling
    <2> QED BY <2>3, <2>7, <2>8, <2>9
  <1>12. nextId' \in 1 .. MaxOrders + 1 BY DEF AdjustUpdate, IInv, TypeOK
  <1> QED BY <1>5, <1>6, <1>9, <1>10, <1>11, <1>12, WriteStep DEF AdjustUpdate

-----------------------------------------------------------------------------
(* place_order, up to the matching.                                        *)

LEMMA IdleRows ==
  ASSUME OneRequest, IInv, NEW t \in Txn, ~Active(t)
  PROVE  /\ \A r \in Row : pending[r] = store[r]
         /\ Consistent(pending, OrderId)
  <1>1. \A r \in Row : pending[r] = store[r]
    BY DEF OneRequest, IInv, TypeOK, Holders
  <1>2. Consistent(store, OrderId) BY DEF IInv
  <1> QED BY <1>1, <1>2, SameRows, RowTypes

LEMMA LockTypes ==
  ASSUME NEW side \in {"BUY", "SELL"}, NEW c \in Country,
         NEW quantity \in Nat, NEW price \in Nat
  PROVE  LockRow(side, c) \in Stock /\ LockAmount(side, quantity, price) \in Nat
  <1>1. quantity * price \in Nat OBVIOUS
  <1> QED BY <1>1 DEF LockRow, LockAmount, Stock, Money, Goods

LEMMA NoCopiesType == NoCopies \in [OrderId -> Order \cup {Absent}]
  BY DEF NoCopies

LEMMA PlaceStep ==
  ASSUME OneRequest, IInv, NEW t \in Txn, NEW c \in Country, NEW side \in {"BUY", "SELL"},
         NEW q \in Quantity, NEW p \in Price, Place(t, c, side, q, p)
  PROVE  IInv'
  <1>1. PICK todo : todo = << <<LockRow(side, c), -LockAmount(side, q, p)>> >> OBVIOUS
  <1>2. todo \in Todo /\ todo # <<>>
    <2>1. PICK row : row = LockRow(side, c) OBVIOUS
    <2>2. PICK locked : locked = LockAmount(side, q, p) OBVIOUS
    <2>3. q \in Nat /\ p \in Nat OBVIOUS
    <2>4. row \in Stock /\ locked \in Nat BY <2>1, <2>2, <2>3, LockTypes
    <2>5. todo = << <<row, -locked>> >> BY <1>1, <2>1, <2>2
    <2> QED BY <2>4, <2>5 DEF Todo
  <1>3. PICK order : order = [side |-> side, country |-> c, quantity |-> q, price |-> p,
                              filled |-> 0, status |-> "OPEN"]
    OBVIOUS
  <1>4. order \in Order BY <1>3 DEF Order, Live
  <1>5. PICK new : new =
          [pc |-> "adjust", then |-> "insert", seen |-> 0, todo |-> todo, order |-> order,
           id |-> 0, makers |-> {}, known |-> NoCopies, maker |-> 0, fill |-> 0,
           traded |-> <<>>]
    OBVIOUS
  <1>6. new \in Request BY <1>2, <1>4, <1>5, NoCopiesType DEF Request
  <1>7. req' = [req EXCEPT ![t] = new] BY <1>1, <1>3, <1>5 DEF Place
  <1>8. Consistent(pending, OrderId) BY IdleRows DEF Place
  <1>9. q \in Nat OBVIOUS
  <1>10. InFlight(new)
    BY <1>2, <1>3, <1>5, <1>8, <1>9
    DEF InFlight, Adjusting, Before, Paying, InMatch, Cancelling
  <1> QED BY <1>6, <1>7, <1>10, ReadStep DEF Place

LEMMA InsertStep ==
  ASSUME OneRequest, IInv, NEW t \in Txn, Insert(t)
  PROVE  IInv'
  <1>1. PICK R, i : R = req[t] /\ i = nextId OBVIOUS
  <1>2. R \in Request /\ InFlight(R) /\ R.pc = "insert"
    BY <1>1, InFlightOf DEF Insert, Active
  <1>3. i \in OrderId /\ nextId' \in 1 .. MaxOrders + 1
    BY <1>1 DEF Insert, IInv, TypeOK, OrderId
  <1>4. PICK r, v : r = OrderOf(i) /\ v = R.order OBVIOUS
  <1>5. r \in Row /\ r \notin Stock /\ v \in Order /\ Write(t, r, v)
    BY <1>1, <1>2, <1>3, <1>4, RowTypes DEF Insert, Request
  <1>6. PICK new : new = [R EXCEPT !.pc = "snapshot", !.id = i] OBVIOUS
  <1>7. new \in Request BY <1>2, <1>3, <1>6 DEF Request
  <1>8. req' = [req EXCEPT ![t] = new] BY <1>1, <1>6 DEF Insert, IInv, TypeOK
  <1>9. InFlight(new)'
    <2>1. v.status = "OPEN" /\ v.filled = 0 /\ Consistent(pending, OrderId)
      BY <1>2, <1>4 DEF InFlight, Before
    <2>2. new.pc = "snapshot" /\ new.id = i /\ new.order = v
      BY <1>2, <1>4, <1>6 DEF Request
    <2>3. pending'[r] = v /\ \A x \in Row : x # r => pending'[x] = pending[x]
      BY <1>5 DEF Write, IInv, TypeOK
    <2>4. \A j \in OrderId \ {i} : pending'[OrderOf(j)] = pending[OrderOf(j)]
      BY <1>4, <2>3, RowTypes
    <2>5. Consistent(pending, OrderId \ {i})' BY <2>1, <2>4 DEF Consistent
    <2>6. pending'[OrderOf(i)] = v BY <1>4, <2>3
    <2>7. v = [v EXCEPT !.filled = 0, !.status = "OPEN"] BY <1>5, <2>1 DEF Order
    <2>8. Inserted(new)' BY <1>3, <1>5, <2>2, <2>5, <2>6, <2>7 DEF Inserted
    <2>9. v.filled <= v.quantity BY <1>2, <1>4 DEF InFlight
    <2> QED BY <2>1, <2>2, <2>8, <2>9
        DEF InFlight, Adjusting, Before, Paying, InMatch, Cancelling
  <1> QED BY <1>3, <1>4, <1>5, <1>7, <1>8, <1>9, WriteStep DEF Insert

LEMMA SnapshotStep ==
  ASSUME OneRequest, IInv, NEW t \in Txn, Snapshot(t)
  PROVE  IInv'
  <1>1. PICK R : R = req[t] OBVIOUS
  <1>2. R \in Request /\ InFlight(R) /\ R.pc = "snapshot"
    BY <1>1, InFlightOf DEF Snapshot, Active
  <1>3. PICK makers : makers = {i \in OrderId : Opposes(R, pending[OrderOf(i)])} OBVIOUS
  <1>4. \A i \in OrderId : Seen(t, OrderOf(i)) = pending[OrderOf(i)]
    BY SeesPending, RowTypes DEF IInv
  <1>5. Matching(t) = makers BY <1>1, <1>3, <1>4 DEF Matching, Opposes
  <1>6. PICK known : known = [i \in OrderId |->
                                IF i \in makers THEN pending[OrderOf(i)] ELSE Absent]
    OBVIOUS
  <1>7. known \in [OrderId -> Order \cup {Absent}] BY <1>6, OrderTypes DEF IInv
  <1>8. PICK new : new = [R EXCEPT !.pc = "match", !.makers = makers, !.known = known]
    OBVIOUS
  <1>9. new \in Request BY <1>2, <1>3, <1>7, <1>8 DEF Request
  <1>10. req' = [req EXCEPT ![t] = new]
    <2>1. known = [i \in OrderId |->
                     IF i \in Matching(t) THEN Seen(t, OrderOf(i)) ELSE Absent]
      BY <1>4, <1>5, <1>6
    <2> QED BY <1>1, <1>5, <1>8, <2>1 DEF Snapshot, IInv, TypeOK
  <1>11. InFlight(new)
    <2>1. R.order.filled = 0 /\ Inserted(R) BY <1>2 DEF InFlight
    <2>2. new.pc = "match" /\ new.id = R.id /\ new.order = R.order /\ new.makers = makers
          /\ new.known = known
      BY <1>2, <1>8 DEF Request
    <2>3. pending[OrderOf(R.id)].side = R.order.side
      BY <1>2, <2>1 DEF Inserted, Request, Order
    <2>4. makers \subseteq OrderId \ {R.id} BY <1>3, <2>3 DEF Opposes
    <2>5. ASSUME NEW i \in makers
          PROVE  known[i] = pending[OrderOf(i)] /\ Opposes(R, known[i]) /\ Coherent(known[i])
      <3>1. i \in OrderId \ {R.id} /\ known[i] = pending[OrderOf(i)] BY <1>6, <2>4
      <3>2. Opposes(R, known[i]) BY <1>3, <3>1
      <3>3. known[i] # Absent BY <3>2 DEF Opposes, Live, Absent
      <3> QED BY <2>1, <3>1, <3>2, <3>3 DEF Inserted, Consistent
    <2>6. Matchmaking(new) BY <1>3, <2>2, <2>4, <2>5 DEF Matchmaking, Opposes
    <2>7. Inserted(new) BY <2>1, <2>2 DEF Inserted
    <2>8. R.order.filled <= R.order.quantity BY <1>2 DEF InFlight
    <2> QED BY <2>2, <2>6, <2>7, <2>8
        DEF InFlight, Adjusting, Before, Paying, InMatch, Cancelling
  <1> QED BY <1>9, <1>10, <1>11, ReadStep DEF Snapshot

-----------------------------------------------------------------------------
(* The matching.                                                           *)

LEMMA LeastNat ==
  ASSUME NEW T, T \subseteq Nat, T # {}
  PROVE  \E m \in T : \A n \in T : m <= n
  <1>1. \E m \in T : \A n \in T : ~(<<n, m>> \in OpToRel(<, Nat))
    BY NatLessThanWellFounded, WFMin
  <1>2. \A m, n \in Nat : <<n, m>> \in OpToRel(<, Nat) <=> n < m
    BY DEF OpToRel
  <1>3. PICK m \in T : \A n \in T : ~(n < m) BY <1>1, <1>2
  <1> QED BY <1>3

LEMMA PrecedesTotal ==
  ASSUME NEW side \in {"BUY", "SELL"}, NEW known, NEW i \in Nat, NEW j \in Nat, i # j,
         known[i].price \in Nat, known[j].price \in Nat, ~Precedes(side, known, i, j)
  PROVE  Precedes(side, known, j, i)
  <1>1. i < j \/ j < i OBVIOUS
  <1>2. PICK p \in Nat, q \in Nat : p = known[i].price /\ q = known[j].price OBVIOUS
  <1> QED BY <1>1, <1>2 DEF Precedes

LEMMA PrecedesTransitive ==
  ASSUME NEW side \in {"BUY", "SELL"}, NEW known,
         NEW i \in Nat, NEW j \in Nat, NEW k \in Nat,
         known[i].price \in Nat, known[j].price \in Nat, known[k].price \in Nat,
         Precedes(side, known, i, j), Precedes(side, known, j, k)
  PROVE  Precedes(side, known, i, k)
  <1>1. PICK p \in Nat, q \in Nat, r \in Nat :
          p = known[i].price /\ q = known[j].price /\ r = known[k].price
    OBVIOUS
  <1> QED BY <1>1 DEF Precedes

\* Of some orders one is first in price-time priority: extending a set with its
\* first order by one identifier leaves it with a first order.
LEMMA BestExists ==
  ASSUME NEW S, S \subseteq OrderId, S # {}, NEW known, NEW side \in {"BUY", "SELL"},
         \A i \in S : known[i].price \in Nat
  PROVE  \E i \in S : \A j \in S \ {i} : Precedes(side, known, i, j)
  <1> DEFINE Some(n) == \E i \in S : i <= n
             Best(n, i) == i <= n /\ \A j \in S \ {i} : j <= n => Precedes(side, known, i, j)
             Bad == {n \in Nat : Some(n) /\ ~\E i \in S : Best(n, i)}
  <1>1. S \subseteq Nat /\ \A i \in S : i <= MaxOrders BY DEF OrderId
  <1>2. Bad = {}
    <2> SUFFICES ASSUME Bad # {} PROVE FALSE OBVIOUS
    <2>1. PICK m \in Bad : \A n \in Bad : m <= n BY LeastNat
    <2>2. m \in Nat /\ Some(m) /\ ~\E i \in S : Best(m, i) BY <2>1
    <2>3. m # 0 BY <1>1, <2>2 DEF OrderId
    <2> m \in Nat BY <2>2
    <2>7. \A i \in Nat : i <= m /\ i # m => i <= m - 1 OBVIOUS
    <2>4. m - 1 \in Nat /\ m - 1 \notin Bad BY <2>1, <2>2, <2>3
    <2>5. CASE m \notin S
      <3>1. \A i \in S : i <= m => i <= m - 1 BY <1>1, <2>5, <2>7
      <3>2. Some(m - 1) BY <2>2, <3>1
      <3>3. PICK i \in S : Best(m - 1, i) BY <2>4, <3>2
      <3>4. Best(m, i) BY <1>1, <2>2, <3>1, <3>3
      <3> QED BY <2>2, <3>4
    <2>6. CASE m \in S
      <3>1. \A i \in S : i <= m /\ i # m => i <= m - 1 BY <1>1, <2>7
      <3>2. CASE ~Some(m - 1)
        <4>1. Best(m, m) BY <1>1, <2>2, <3>1, <3>2
        <4> QED BY <2>2, <2>6, <4>1
      <3>3. CASE Some(m - 1)
        <4>1. PICK i \in S : Best(m - 1, i) BY <2>4, <3>3
        <4>2. i <= m /\ i # m BY <1>1, <2>2, <4>1
        <4>3. CASE Precedes(side, known, i, m)
          <5>1. Best(m, i) BY <3>1, <4>1, <4>2, <4>3
          <5> QED BY <2>2, <5>1
        <4>4. CASE ~Precedes(side, known, i, m)
          <5>1. Precedes(side, known, m, i)
            BY <1>1, <2>6, <4>2, <4>4, PrecedesTotal
          <5>2. ASSUME NEW j \in S \ {m}, j <= m PROVE Precedes(side, known, m, j)
            <6>1. CASE j = i BY <5>1, <6>1
            <6>2. CASE j # i
              <7>1. Precedes(side, known, i, j) BY <3>1, <4>1, <5>2, <6>2
              <7> QED BY <1>1, <2>6, <5>1, <7>1, PrecedesTransitive
            <6> QED BY <6>1, <6>2
          <5>3. Best(m, m) BY <2>2, <5>2
          <5> QED BY <2>2, <2>6, <5>3
        <4> QED BY <4>3, <4>4
      <3> QED BY <3>2, <3>3
    <2> QED BY <2>5, <2>6
  <1>3. Some(MaxOrders) BY <1>1
  <1>4. PICK i \in S : Best(MaxOrders, i) BY <1>2, <1>3
  <1> QED BY <1>1, <1>4

LEMMA BestOf ==
  \A S, known, side :
    S \subseteq OrderId /\ S # {} /\ side \in {"BUY", "SELL"} /\ (\A i \in S : known[i].price \in Nat)
      => \E i \in S : \A j \in S \ {i} : Precedes(side, known, i, j)
  BY BestExists

\* What the loop knows of the orders it trades between.
LEMMA MatchFacts ==
  ASSUME IInv, NEW t \in Txn, NEW R, R = req[t], Active(t), InMatch(R)
  PROVE  /\ R \in Request /\ InFlight(R) /\ Inserted(R) /\ Matchmaking(R)
         /\ R.order \in Order /\ R.order.quantity \in Nat /\ R.order.price \in Nat
         /\ R.order.filled \in Nat
         /\ \A i \in R.makers : /\ i \in OrderId
                                /\ R.known[i] \in Order /\ R.known[i] = pending[OrderOf(i)]
                                /\ R.known[i].quantity \in Nat
                                /\ R.known[i].price \in Nat /\ R.known[i].filled \in Nat
                                /\ R.known[i].filled <= R.known[i].quantity
  <1>1. R \in Request /\ InFlight(R) BY InFlightOf
  <1>2. Inserted(R) /\ Matchmaking(R) BY <1>1 DEF InFlight
  <1>3. R.order \in Order BY <1>1 DEF Request
  <1>4. \A o \in Order : o.quantity \in Nat /\ o.price \in Nat /\ o.filled \in Nat
    BY DEF Order
  <1>5. ASSUME NEW i \in R.makers
        PROVE  /\ i \in OrderId
               /\ R.known[i] \in Order /\ R.known[i] = pending[OrderOf(i)]
               /\ R.known[i].filled <= R.known[i].quantity
    <2>1. i \in OrderId /\ R.known[i] = pending[OrderOf(i)] /\ R.known[i].status \in Live
          /\ Coherent(R.known[i])
      BY <1>2 DEF Matchmaking, Opposes
    <2>2. R.known[i] \in Order \cup {Absent} BY <2>1, OrderTypes DEF IInv
    <2> QED BY <2>1, <2>2, LiveIsOrder DEF Coherent
  <1> QED BY <1>1, <1>2, <1>3, <1>4, <1>5

LEMMA PaymentsType ==
  ASSUME NEW taker \in Order, NEW maker \in Order, NEW fill \in Nat
  PROVE  Payments(taker, maker, fill) \in Todo /\ Payments(taker, maker, fill) # <<>>
  <1>1. PICK a, b, c, d : /\ a = Goods(taker.country) /\ b = Money(taker.country)
                          /\ c = Money(maker.country) /\ d = Goods(maker.country)
    OBVIOUS
  <1>2. a \in Stock /\ b \in Stock /\ c \in Stock /\ d \in Stock
    BY <1>1, RowTypes DEF Order
  <1>3. taker.price \in Nat /\ maker.price \in Nat BY DEF Order
  <1>4. PICK back \in Int, price \in Int :
          back = (taker.price - maker.price) * fill /\ price = fill * maker.price
    <2>1. taker.price - maker.price \in Int BY <1>3
    <2>2. \A x \in Int : x * fill \in Int /\ fill * x \in Int OBVIOUS
    <2>3. (taker.price - maker.price) * fill \in Int /\ fill * maker.price \in Int
      BY <1>3, <2>1, <2>2
    <2> QED BY <2>3
  <1>5. ASSUME NEW p \in Todo, NEW q \in Todo, p # <<>>
        PROVE  p \o q \in Todo /\ p \o q # <<>>
    BY <1>5, ConcatProperties, ConcatEqualIffEmpty DEF Todo
  <1>6. \A e \in Stock \X Int : <<e>> \in Todo /\ <<e>> # <<>> BY DEF Todo
  <1>7. /\ <<a, fill>> \in Stock \X Int /\ <<b, back>> \in Stock \X Int
        /\ <<c, price>> \in Stock \X Int
    BY <1>2, <1>4
  <1>8. \A q \in Todo : /\ << <<a, fill>> >> \o q \o << <<c, price>> >> \in Todo
                        /\ << <<a, fill>> >> \o q \o << <<c, price>> >> # <<>>
    BY <1>5, <1>6, <1>7
  <1>9. << <<b, back>> >> \in Todo /\ <<>> \in Todo BY <1>6, <1>7 DEF Todo
  <1>10. << <<b, price>>, <<d, fill>> >> \in Todo /\ << <<b, price>>, <<d, fill>> >> # <<>>
    BY <1>2, <1>4 DEF Todo
  <1>11. CASE taker.side = "BUY" /\ maker.price < taker.price
    <2>1. Payments(taker, maker, fill) = << <<a, fill>> >> \o << <<b, back>> >> \o << <<c, price>> >>
      BY <1>1, <1>4, <1>11 DEF Payments
    <2> QED BY <1>8, <1>9, <2>1
  <1>12. CASE taker.side = "BUY" /\ ~(maker.price < taker.price)
    <2>1. Payments(taker, maker, fill) = << <<a, fill>> >> \o <<>> \o << <<c, price>> >>
      BY <1>1, <1>4, <1>12 DEF Payments
    <2> QED BY <1>8, <1>9, <2>1
  <1>13. CASE taker.side # "BUY"
    <2>1. Payments(taker, maker, fill) = << <<b, price>>, <<d, fill>> >>
      BY <1>1, <1>4, <1>13 DEF Payments
    <2> QED BY <1>10, <2>1
  <1> QED BY <1>11, <1>12, <1>13

LEMMA SettleStep ==
  ASSUME OneRequest, IInv, NEW t \in Txn, NEW i \in OrderId, Settle(t, i)
  PROVE  IInv'
  <1>1. PICK R : R = req[t] OBVIOUS
  <1>2. R.pc = "match" /\ Active(t) /\ InMatch(R) BY <1>1 DEF Settle, Active, InMatch
  <1>3. /\ R \in Request /\ InFlight(R) /\ Inserted(R) /\ Matchmaking(R)
        /\ R.order \in Order /\ R.order.quantity \in Nat /\ R.order.filled \in Nat
    BY <1>1, <1>2, MatchFacts
  <1>4. i \in R.makers /\ R.order.filled < R.order.quantity BY <1>1 DEF Settle, IsNext
  <1>5. /\ R.known[i] \in Order /\ R.known[i].quantity \in Nat /\ R.known[i].filled \in Nat
        /\ R.known[i].filled <= R.known[i].quantity
    BY <1>1, <1>2, <1>4, MatchFacts
  <1>6. PICK fill : fill = Min2(R.order.quantity - R.order.filled,
                                R.known[i].quantity - R.known[i].filled)
    OBVIOUS
  <1>7. fill \in Nat BY <1>3, <1>4, <1>5, <1>6 DEF Min2
  <1>8. PICK todo : todo = Payments(R.order, R.known[i], fill) OBVIOUS
  <1>9. todo \in Todo /\ todo # <<>> BY <1>3, <1>5, <1>7, <1>8, PaymentsType
  <1>10. PICK new : new = [R EXCEPT !.pc = "adjust", !.then = "maker", !.maker = i,
                                    !.fill = fill, !.todo = todo]
    OBVIOUS
  <1>11. new \in Request BY <1>3, <1>7, <1>9, <1>10 DEF Request
  <1>12. req' = [req EXCEPT ![t] = new]
    BY <1>1, <1>6, <1>8, <1>10 DEF Settle, IInv, TypeOK
  <1>13. InFlight(new)
    <2>1. /\ new.pc = "adjust" /\ new.then = "maker" /\ new.maker = i /\ new.fill = fill
          /\ new.todo = todo /\ new.order = R.order /\ new.id = R.id
          /\ new.makers = R.makers /\ new.known = R.known
      BY <1>3, <1>10 DEF Request
    <2>2. Inserted(new) BY <1>3, <2>1 DEF Inserted
    <2>3. Matchmaking(new) BY <1>3, <2>1 DEF Matchmaking, Opposes
    <2>4. Turn(new) BY <1>4, <1>6, <2>1 DEF Turn
    <2>5. R.order.filled <= R.order.quantity BY <1>3 DEF InFlight
    <2> QED BY <1>9, <2>1, <2>2, <2>3, <2>4, <2>5
        DEF InFlight, Adjusting, Before, Paying, InMatch, Cancelling
  <1> QED BY <1>11, <1>12, <1>13, ReadStep DEF Settle

\* repo.update keeps an order in line with itself, and makes nothing live.
LEMMA UpdatedOrder ==
  ASSUME NEW o \in Order, NEW filled \in Nat, filled <= o.quantity
  PROVE  LET u == Updated(o, filled) IN
         /\ u \in Order /\ Coherent(u)
         /\ u.side = o.side /\ u.price = o.price
         /\ u.status \in Live <=> filled < o.quantity
  <1>1. o.quantity \in Nat /\ o.quantity # 0 BY DEF Order
  <1>2. PICK s : s = StatusOf(filled, o.quantity) OBVIOUS
  <1>3. /\ s = "FILLED" <=> filled = o.quantity
        /\ s = "OPEN" <=> filled = 0
        /\ s \in {"OPEN", "PARTIAL", "FILLED"}
    BY <1>1, <1>2 DEF StatusOf
  <1>4. PICK u : u = [o EXCEPT !.filled = filled, !.status = s] OBVIOUS
  <1>5. u = Updated(o, filled) BY <1>2, <1>4 DEF Updated
  <1>6. u \in Order BY <1>3, <1>4 DEF Order, Live
  <1>7. u.side = o.side /\ u.price = o.price /\ u.quantity = o.quantity
        /\ u.filled = filled /\ u.status = s
    BY <1>4 DEF Order
  <1>8. Coherent(u) BY <1>1, <1>3, <1>7 DEF Coherent
  <1>9. u.status \in Live <=> filled < o.quantity BY <1>1, <1>3, <1>7 DEF Live
  <1> QED BY <1>5, <1>6, <1>7, <1>8, <1>9

\* The turn's fill uses up the taker or the maker, and no more than there is.
LEMMA TurnFacts ==
  ASSUME NEW R, R.order.quantity \in Nat, R.order.filled \in Nat, Turn(R),
         R.known[R.maker].quantity \in Nat, R.known[R.maker].filled \in Nat,
         R.known[R.maker].filled <= R.known[R.maker].quantity
  PROVE  /\ R.fill \in Nat
         /\ R.order.filled + R.fill \in Nat
         /\ R.order.filled + R.fill <= R.order.quantity
         /\ R.known[R.maker].filled + R.fill \in Nat
         /\ R.known[R.maker].filled + R.fill <= R.known[R.maker].quantity
         /\ \/ R.order.filled + R.fill = R.order.quantity
            \/ R.known[R.maker].filled + R.fill = R.known[R.maker].quantity
  <1>1. PICK q \in Nat, f \in Nat, m \in Nat, g \in Nat :
          /\ q = R.order.quantity /\ f = R.order.filled
          /\ m = R.known[R.maker].quantity /\ g = R.known[R.maker].filled
    OBVIOUS
  <1>2. f < q /\ g <= m /\ R.fill = Min2(q - f, m - g) BY <1>1 DEF Turn
  <1> QED BY <1>1, <1>2 DEF Min2

LEMMA UpdateMakerStep ==
  ASSUME OneRequest, IInv, NEW t \in Txn, UpdateMaker(t)
  PROVE  IInv'
  <1>1. PICK R : R = req[t] OBVIOUS
  <1>2. R.pc = "maker" /\ Active(t) /\ InMatch(R) /\ Paying(R)
    BY <1>1 DEF UpdateMaker, Active, InMatch, Paying
  <1>3. /\ R \in Request /\ InFlight(R) /\ Inserted(R) /\ Matchmaking(R)
        /\ R.order \in Order /\ R.order.quantity \in Nat /\ R.order.filled \in Nat
    BY <1>1, <1>2, MatchFacts
  <1>4. Turn(R) /\ R.maker \in R.makers BY <1>2, <1>3 DEF InFlight, Turn
  <1>5. PICK i, K : i = R.maker /\ K = R.known[i] OBVIOUS
  <1>6. /\ i \in OrderId /\ i # R.id /\ K \in Order /\ K = pending[OrderOf(i)]
        /\ K.quantity \in Nat /\ K.filled \in Nat /\ K.price \in Price
        /\ K.filled <= K.quantity
    BY <1>1, <1>2, <1>3, <1>4, <1>5, MatchFacts DEF Matchmaking, Order
  <1>7. /\ R.fill \in Nat
        /\ R.order.filled + R.fill \in Nat /\ R.order.filled + R.fill <= R.order.quantity
        /\ K.filled + R.fill \in Nat /\ K.filled + R.fill <= K.quantity
        /\ R.order.filled + R.fill = R.order.quantity \/ K.filled + R.fill = K.quantity
    BY <1>3, <1>4, <1>5, <1>6, TurnFacts
  <1>8. PICK r, v : r = OrderOf(i) /\ v = Updated(K, K.filled + R.fill) OBVIOUS
  <1>9. /\ v \in Order /\ Coherent(v) /\ v.side = K.side /\ v.price = K.price
        /\ v.status \in Live <=> K.filled + R.fill < K.quantity
    BY <1>6, <1>7, <1>8, UpdatedOrder
  <1>10. r \in Row /\ r \notin Stock BY <1>6, <1>8, RowTypes
  <1>11. Write(t, r, v)
    <2>1. Seen(t, OrderOf(i)) = K BY <1>6, <1>8, <1>10, SeesPending DEF IInv
    <2> QED BY <1>1, <1>5, <1>8, <2>1 DEF UpdateMaker
  <1>12. PICK trade : trade = [buy  |-> IF R.order.side = "BUY" THEN R.id ELSE i,
                               sell |-> IF R.order.side = "BUY" THEN i ELSE R.id,
                               quantity |-> R.fill, price |-> K.price]
    OBVIOUS
  <1>13. trade \in Trade BY <1>3, <1>6, <1>7, <1>12 DEF Trade, Inserted
  <1>14. PICK order : order = [R.order EXCEPT !.filled = R.order.filled + R.fill] OBVIOUS
  <1>15. /\ order \in Order /\ order.filled = R.order.filled + R.fill
         /\ order.side = R.order.side /\ order.quantity = R.order.quantity
         /\ [order EXCEPT !.filled = 0, !.status = "OPEN"]
              = [R.order EXCEPT !.filled = 0, !.status = "OPEN"]
    BY <1>3, <1>7, <1>14 DEF Order
  <1>16. PICK new : new = [R EXCEPT !.pc = "match", !.order = order,
                                    !.makers = R.makers \ {i}, !.traded = Append(R.traded, trade)]
    OBVIOUS
  <1>17. new \in Request
    <2>1. Append(R.traded, trade) \in Seq(Trade) BY <1>3, <1>13 DEF Request
    <2>2. R.makers \ {i} \subseteq OrderId BY <1>3 DEF Request
    <2> QED BY <1>3, <1>15, <1>16, <2>1, <2>2 DEF Request
  <1>18. req' = [req EXCEPT ![t] = new]
    BY <1>1, <1>3, <1>5, <1>12, <1>14, <1>16 DEF UpdateMaker, IInv, TypeOK, Request
  <1>19. InFlight(new)'
    <2>1. /\ new.pc = "match" /\ new.order = order /\ new.id = R.id /\ new.known = R.known
          /\ new.makers = R.makers \ {i}
      BY <1>3, <1>16 DEF Request
    <2>2. pending'[OrderOf(i)] = v
      BY <1>8, <1>10, <1>11 DEF Write, IInv, TypeOK
    <2>3. \A j \in OrderId \ {i} : pending'[OrderOf(j)] = pending[OrderOf(j)]
      BY <1>8, <1>10, <1>11, RowTypes DEF Write, IInv, TypeOK
    <2>4. Consistent(pending, OrderId \ {R.id})'
      <3>1. Consistent(pending, OrderId \ {R.id}) BY <1>3 DEF Inserted
      <3>2. K.status \in Live BY <1>3, <1>4, <1>5 DEF Matchmaking, Opposes
      <3>3. ASSUME NEW j \in OrderId \ {R.id}
            PROVE  /\ pending'[OrderOf(j)] # Absent => Coherent(pending'[OrderOf(j)])
                   /\ ~Crossed(pending'[OrderOf(j)], v) /\ ~Crossed(v, pending'[OrderOf(j)])
        <4>1. CASE j = i BY <1>9, <2>2, <4>1 DEF Crossed
        <4>2. CASE j # i
          <5>1. ~Crossed(pending[OrderOf(j)], K) /\ ~Crossed(K, pending[OrderOf(j)])
            BY <1>6, <3>1 DEF Consistent
          <5> QED BY <1>9, <2>3, <3>1, <3>2, <4>2, <5>1 DEF Consistent, Crossed
        <4> QED BY <4>1, <4>2
      <3>4. ASSUME NEW j \in OrderId \ {R.id}, NEW k \in OrderId \ {R.id}
            PROVE  ~Crossed(pending'[OrderOf(j)], pending'[OrderOf(k)])
        <4>1. CASE j = i \/ k = i BY <2>2, <3>3, <4>1
        <4>2. CASE j # i /\ k # i BY <2>3, <3>1, <4>2 DEF Consistent
        <4> QED BY <4>1, <4>2
      <3> QED BY <3>3, <3>4 DEF Consistent
    <2>5. Inserted(new)'
      BY <1>3, <1>6, <1>15, <2>1, <2>3, <2>4 DEF Inserted
    <2>6. Matchmaking(new)'
      <3>1. \A o : Opposes(new, o) <=> Opposes(R, o) BY <1>15, <2>1 DEF Opposes
      <3>2. \A j \in R.makers \ {i} :
              /\ R.known[j] = pending'[OrderOf(j)] /\ Opposes(R, R.known[j])
              /\ Coherent(R.known[j])
        BY <1>3, <2>3 DEF Matchmaking
      <3>3. \A j \in OrderId \ (R.makers \cup {R.id}) : ~Opposes(R, pending'[OrderOf(j)])
        <4>1. R.order.filled # R.order.quantity BY <1>3, <1>4 DEF Turn
        <4>2. \A j \in OrderId \ (R.makers \cup {R.id}) : j # i BY <1>4, <1>5
        <4> QED BY <1>3, <2>3, <4>1, <4>2 DEF Matchmaking
      <3>4. Opposes(R, v) => order.filled = order.quantity
        BY <1>6, <1>7, <1>9, <1>15 DEF Opposes
      <3>5. R.makers \ {i} \subseteq OrderId \ {R.id} BY <1>3 DEF Matchmaking
      <3> QED BY <1>5, <2>1, <2>2, <3>1, <3>2, <3>3, <3>4, <3>5 DEF Matchmaking
    <2>7. order.filled <= order.quantity BY <1>7, <1>15
    <2> QED BY <2>1, <2>5, <2>6, <2>7
        DEF InFlight, Adjusting, Before, Paying, InMatch, Cancelling
  <1>20. nextId' \in 1 .. MaxOrders + 1 /\ UNCHANGED trades
    BY DEF UpdateMaker, IInv, TypeOK
  <1> QED BY <1>9, <1>10, <1>11, <1>17, <1>18, <1>19, <1>20, WriteStep

LEMMA BestMaker ==
  ASSUME NEW R \in Request, R.makers # {}, \A i \in R.makers : R.known[i].price \in Nat
  PROVE  \E i \in R.makers : \A j \in R.makers \ {i} : Precedes(R.order.side, R.known, i, j)
  <1>1. R.makers \subseteq OrderId /\ R.order.side \in {"BUY", "SELL"}
    BY DEF Request, Order
  <1> QED BY <1>1, BestOf

\* When the loop ends with the taker unfilled, no resting order is left for it.
LEMMA NothingCompatible ==
  ASSUME IInv, NEW t \in Txn, UpdateTaker(t), req[t].order.filled < req[t].order.quantity,
         NEW j \in OrderId, j # req[t].id, Opposes(req[t], pending[OrderOf(j)])
  PROVE  ~Compatible(req[t].order, pending[OrderOf(j)])
  <1>1. PICK R : R = req[t] OBVIOUS
  <1>2. R.pc = "match" /\ Active(t) /\ InMatch(R) BY <1>1 DEF UpdateTaker, Active, InMatch
  <1>3. /\ R \in Request /\ Matchmaking(R) /\ R.order \in Order
        /\ R.order.price \in Nat /\ R.order.quantity \in Nat /\ R.order.filled \in Nat
        /\ \A i \in R.makers : R.known[i] = pending[OrderOf(i)] /\ R.known[i].price \in Nat
    BY <1>1, <1>2, MatchFacts
  <1>4. j \in R.makers BY <1>1, <1>3 DEF Matchmaking
  <1>5. PICK b \in R.makers : \A k \in R.makers \ {b} : Precedes(R.order.side, R.known, b, k)
    BY <1>3, <1>4, BestMaker
  <1>6. ~Compatible(R.order, R.known[b]) BY <1>1, <1>5 DEF UpdateTaker, IsNext
  <1>7. ~Compatible(R.order, R.known[j])
    <2>1. CASE j = b BY <1>6, <2>1
    <2>2. CASE j # b
      <3>1. Precedes(R.order.side, R.known, b, j) BY <1>4, <1>5, <2>2
      <3>2. R.order.side \in {"BUY", "SELL"} BY <1>3 DEF Order
      <3>3. PICK x \in Nat, y \in Nat, z \in Nat :
              x = R.known[b].price /\ y = R.known[j].price /\ z = R.order.price
        BY <1>3, <1>4
      <3> QED BY <1>6, <3>1, <3>2, <3>3 DEF Precedes, Compatible
    <2> QED BY <2>1, <2>2
  <1> QED BY <1>1, <1>3, <1>4, <1>7

LEMMA UpdateTakerStep ==
  ASSUME OneRequest, IInv, NEW t \in Txn, UpdateTaker(t)
  PROVE  IInv'
  <1>1. PICK R : R = req[t] OBVIOUS
  <1>2. R.pc = "match" /\ Active(t) /\ InMatch(R) BY <1>1 DEF UpdateTaker, Active, InMatch
  <1>3. /\ R \in Request /\ InFlight(R) /\ Inserted(R) /\ Matchmaking(R)
        /\ R.order \in Order /\ R.order.quantity \in Nat /\ R.order.filled \in Nat
        /\ R.order.price \in Nat
    BY <1>1, <1>2, MatchFacts
  <1>4. PICK i, O : i = R.id /\ O = pending[OrderOf(i)] OBVIOUS
  <1>5. /\ i \in OrderId /\ O \in Order
        /\ O.side = R.order.side /\ O.price = R.order.price /\ O.quantity = R.order.quantity
    BY <1>3, <1>4 DEF Inserted, Order
  <1>6. R.order.filled <= O.quantity BY <1>3, <1>5 DEF InFlight
  <1>7. PICK r, v : r = OrderOf(i) /\ v = Updated(O, R.order.filled) OBVIOUS
  <1>8. /\ v \in Order /\ Coherent(v) /\ v.side = R.order.side /\ v.price = R.order.price
        /\ v.status \in Live <=> R.order.filled < R.order.quantity
    BY <1>3, <1>5, <1>6, <1>7, UpdatedOrder
  <1>9. r \in Row /\ r \notin Stock BY <1>5, <1>7, RowTypes
  <1>10. Write(t, r, v)
    <2>1. Seen(t, OrderOf(i)) = O BY <1>4, <1>7, <1>9, SeesPending DEF IInv
    <2> QED BY <1>1, <1>4, <1>7, <2>1 DEF UpdateTaker
  <1>11. PICK new : new = [R EXCEPT !.pc = "commit"] OBVIOUS
  <1>12. new \in Request BY <1>3, <1>11 DEF Request
  <1>13. req' = [req EXCEPT ![t] = new]
    BY <1>1, <1>11 DEF UpdateTaker, Goto, IInv, TypeOK
  <1>14. InFlight(new)'
    <2>1. new.pc = "commit" /\ new.order = R.order BY <1>3, <1>11 DEF Request
    <2>2. pending'[OrderOf(i)] = v
      BY <1>7, <1>9, <1>10 DEF Write, IInv, TypeOK
    <2>3. \A j \in OrderId \ {i} : pending'[OrderOf(j)] = pending[OrderOf(j)]
      BY <1>7, <1>9, <1>10, RowTypes DEF Write, IInv, TypeOK
    <2>4. Consistent(pending, OrderId \ {i}) BY <1>3, <1>4 DEF Inserted
    <2>5. ASSUME NEW j \in OrderId \ {i}
          PROVE  ~Crossed(pending[OrderOf(j)], v) /\ ~Crossed(v, pending[OrderOf(j)])
      <3> DEFINE o == pending[OrderOf(j)]
      <3>1. CASE ~(v.status \in Live /\ o.status \in Live /\ o.side # v.side)
        BY <1>8, <3>1 DEF Crossed
      <3>2. CASE v.status \in Live /\ o.status \in Live /\ o.side # v.side
        <4>1. R.order.filled < R.order.quantity /\ Opposes(R, o)
          BY <1>8, <3>2 DEF Opposes
        <4>2. ~Compatible(R.order, o) BY <1>1, <1>4, <4>1, NothingCompatible
        <4>3. o \in Order /\ o.price \in Nat
          <5>1. o \in Order BY <3>2, OrderTypes, LiveIsOrder DEF IInv
          <5> QED BY <5>1 DEF Order
        <4> QED BY <1>3, <1>8, <4>2, <4>3 DEF Compatible, Crossed
      <3> QED BY <3>1, <3>2
    <2>6. ASSUME NEW j \in OrderId, NEW k \in OrderId
          PROVE  ~Crossed(pending'[OrderOf(j)], pending'[OrderOf(k)])
      <3>1. CASE j # i /\ k # i BY <2>3, <2>4, <3>1 DEF Consistent
      <3>2. CASE j = i /\ k = i BY <2>2, <3>2 DEF Crossed
      <3>3. CASE (j = i) # (k = i) BY <2>2, <2>3, <2>5, <3>3
      <3> QED BY <3>1, <3>2, <3>3
    <2>7. \A j \in OrderId : pending'[OrderOf(j)] # Absent => Coherent(pending'[OrderOf(j)])
      BY <1>8, <2>2, <2>3, <2>4 DEF Consistent
    <2>8. Consistent(pending, OrderId)' BY <2>6, <2>7 DEF Consistent
    <2>9. R.order.filled <= R.order.quantity BY <1>3 DEF InFlight
    <2> QED BY <2>1, <2>8, <2>9 DEF InFlight, Adjusting, Before, Paying, InMatch, Cancelling
  <1>15. nextId' \in 1 .. MaxOrders + 1 /\ UNCHANGED trades
    BY DEF UpdateTaker, IInv, TypeOK
  <1> QED BY <1>8, <1>9, <1>10, <1>12, <1>13, <1>14, <1>15, WriteStep

-----------------------------------------------------------------------------
(* cancel_order.                                                           *)

LEMMA CancelStep ==
  ASSUME OneRequest, IInv, NEW t \in Txn, NEW i \in OrderId, Cancel(t, i)
  PROVE  IInv'
  <1>1. PICK o : o = Seen(t, OrderOf(i)) OBVIOUS
  <1>2. o = pending[OrderOf(i)] /\ Consistent(pending, OrderId)
    BY <1>1, SeesPending, IdleRows, RowTypes DEF Cancel, IInv
  <1>3. o.status \in Live /\ o \in Order /\ Coherent(o)
    <2>1. o.status \in Live BY <1>1 DEF Cancel
    <2>2. o \in Order /\ o # Absent BY <1>2, <2>1, OrderTypes, LiveIsOrder DEF IInv
    <2> QED BY <1>2, <2>1, <2>2 DEF Consistent
  <1>4. PICK row : row = LockRow(o.side, o.country) OBVIOUS
  <1>5. PICK amount : amount = LockAmount(o.side, o.quantity - o.filled, o.price) OBVIOUS
  <1>6. row \in Stock /\ amount \in Nat
    <2>1. /\ o.quantity \in Nat /\ o.filled \in Nat /\ o.price \in Nat
          /\ o.side \in {"BUY", "SELL"} /\ o.country \in Country
      BY <1>3 DEF Order
    <2>2. o.filled <= o.quantity BY <1>3 DEF Coherent
    <2>3. PICK rest : rest = o.quantity - o.filled OBVIOUS
    <2>4. rest \in Nat BY <2>1, <2>2, <2>3
    <2>5. amount = LockAmount(o.side, rest, o.price) BY <1>5, <2>3
    <2> QED BY <1>4, <2>1, <2>4, <2>5, LockTypes
  <1>7. PICK todo : todo = << <<row, amount>> >> OBVIOUS
  <1>8. todo \in Todo /\ todo # <<>> BY <1>6, <1>7 DEF Todo
  <1>9. PICK new : new =
          [pc |-> "adjust", then |-> "cancel", seen |-> 0, todo |-> todo, order |-> o,
           id |-> i, makers |-> {}, known |-> NoCopies, maker |-> 0, fill |-> 0,
           traded |-> <<>>]
    OBVIOUS
  <1>10. new \in Request BY <1>3, <1>8, <1>9, NoCopiesType DEF Request
  <1>11. req' = [req EXCEPT ![t] = new] BY <1>1, <1>4, <1>5, <1>7, <1>9 DEF Cancel
  <1>12. InFlight(new)
    BY <1>2, <1>3, <1>8, <1>9
    DEF InFlight, Adjusting, Before, Paying, InMatch, Cancelling, Coherent
  <1> QED BY <1>10, <1>11, <1>12, ReadStep DEF Cancel

LEMMA MarkCancelledStep ==
  ASSUME OneRequest, IInv, NEW t \in Txn, MarkCancelled(t)
  PROVE  IInv'
  <1>1. PICK R : R = req[t] OBVIOUS
  <1>2. R \in Request /\ InFlight(R) /\ R.pc = "cancel"
    BY <1>1, InFlightOf DEF MarkCancelled, Active
  <1>3. PICK i, O : i = R.id /\ O = pending[OrderOf(i)] OBVIOUS
  <1>4. i \in OrderId /\ O \in Order /\ O.status \in Live /\ Consistent(pending, OrderId)
    BY <1>2, <1>3 DEF InFlight, Cancelling
  <1>5. PICK r, v : r = OrderOf(i) /\ v = [O EXCEPT !.status = "CANCELLED"] OBVIOUS
  <1>6. v \in Order /\ Coherent(v) /\ v.status \notin Live
    <2>1. O # Absent BY <1>4 DEF Live, Absent
    <2>2. Coherent(O) BY <1>3, <1>4, <2>1 DEF Consistent
    <2>3. /\ v \in Order /\ v.status = "CANCELLED"
          /\ v.filled = O.filled /\ v.quantity = O.quantity
      BY <1>4, <1>5 DEF Order, Live
    <2> QED BY <1>4, <2>2, <2>3 DEF Coherent, Live
  <1>7. r \in Row /\ r \notin Stock BY <1>4, <1>5, RowTypes
  <1>8. Write(t, r, v)
    <2>1. Seen(t, OrderOf(i)) = O BY <1>3, <1>5, <1>7, SeesPending DEF IInv
    <2> QED BY <1>1, <1>3, <1>5, <2>1 DEF MarkCancelled
  <1>9. PICK new : new = [R EXCEPT !.pc = "commit"] OBVIOUS
  <1>10. new \in Request BY <1>2, <1>9 DEF Request
  <1>11. req' = [req EXCEPT ![t] = new]
    BY <1>1, <1>9 DEF MarkCancelled, Goto, IInv, TypeOK
  <1>12. InFlight(new)'
    <2>1. new.pc = "commit" /\ new.order = R.order BY <1>2, <1>9 DEF Request
    <2>2. /\ pending'[OrderOf(i)] = v
          /\ \A j \in OrderId \ {i} : pending'[OrderOf(j)] = pending[OrderOf(j)]
      BY <1>4, <1>5, <1>7, <1>8, RowTypes DEF Write, IInv, TypeOK
    <2>3. Consistent(pending, OrderId)'
      BY <1>4, <1>6, <2>2 DEF Consistent, Crossed
    <2>4. R.order.filled <= R.order.quantity BY <1>2 DEF InFlight
    <2> QED BY <2>1, <2>3, <2>4 DEF InFlight, Adjusting, Before, Paying, InMatch, Cancelling
  <1>13. nextId' \in 1 .. MaxOrders + 1 /\ UNCHANGED trades
    BY DEF MarkCancelled, IInv, TypeOK
  <1> QED BY <1>6, <1>7, <1>8, <1>10, <1>11, <1>12, <1>13, WriteStep

-----------------------------------------------------------------------------
(* The invariant and the theorems.                                         *)

LEMMA InitIInv == Init => IInv
  <1> SUFFICES ASSUME Init PROVE IInv OBVIOUS
  <1> USE DEF Init
  <1>1. \A r \in Stock : store[r] \in Nat
    BY RowTypes DEF Stock
  <1>2. ASSUME NEW i \in OrderId
        PROVE  store[OrderOf(i)] = IF i \in DOMAIN Book THEN Book[i] ELSE Absent
    BY RowTypes DEF OrderOf
  <1>3. \A i \in DOMAIN Book : Book[i] \in Order BY BookAssumption
  <1>4. \A r \in OrderRow : store[r] \in Order \cup {Absent}
    BY <1>2, <1>3, RowTypes
  <1>5. nextId \in 1 .. MaxOrders + 1
    <2>1. Len(Book) \in Nat /\ Len(Book) <= MaxOrders BY BookAssumption
    <2> QED BY <2>1
  <1>6. TypeOK BY <1>1, <1>4, <1>5 DEF TypeOK
  <1>7. Holders BY DEF Holders
  <1>8. \A o, p : o = Absent \/ p = Absent => ~Crossed(o, p)
    BY DEF Crossed, Absent, Live
  <1>9. Consistent(store, OrderId)
    <2>1. \A i \in OrderId : store[OrderOf(i)] # Absent => Coherent(store[OrderOf(i)])
      BY <1>2, BookAssumption
    <2>2. ASSUME NEW i \in OrderId, NEW j \in OrderId
          PROVE  ~Crossed(store[OrderOf(i)], store[OrderOf(j)])
      <3>1. CASE i \in DOMAIN Book /\ j \in DOMAIN Book BY <1>2, <3>1, BookAssumption
      <3>2. CASE i \notin DOMAIN Book BY <1>2, <1>8, <3>2
      <3>3. CASE j \notin DOMAIN Book BY <1>2, <1>8, <3>3
      <3> QED BY <3>1, <3>2, <3>3
    <2> QED BY <2>1, <2>2 DEF Consistent
  <1>10. \A t \in Txn : ~Active(t) BY DEF Active, Idle
  <1> QED BY <1>6, <1>7, <1>9, <1>10 DEF IInv

LEMMA NextIInv == ASSUME OneRequest, IInv, [Next]_vars PROVE IInv'
  <1>1. CASE UNCHANGED vars
    <2>1. /\ TypeOK' /\ Holders' /\ Consistent(store, OrderId)'
      BY <1>1 DEF vars, IInv, TypeOK, Holders, Active, Consistent
    <2>2. \A t \in Txn : Active(t)' => InFlight(req[t])'
      BY <1>1 DEF vars, IInv, Active, InFlight, Inserted, Matchmaking, Turn, Consistent
    <2> QED BY <2>1, <2>2 DEF IInv
  <1>2. ASSUME NEW t \in Txn, Step(t) PROVE IInv'
    BY <1>2, AdjustSelectStep, AdjustUpdateStep, InsertStep, SnapshotStep, SettleStep,
       UpdateMakerStep, UpdateTakerStep, MarkCancelledStep, CommitStep, RollbackStep
    DEF Step
  <1>3. ASSUME NEW t \in Txn, Fail(t) PROVE IInv' BY <1>3, RollbackStep DEF Fail
  <1> QED BY <1>1, <1>2, <1>3, PlaceStep, CancelStep DEF Next

THEOREM InvariantHolds == ASSUME OneRequest PROVE Spec => []IInv
  <1>1. IInv /\ [Next]_vars => IInv' BY NextIInv
  <1> QED BY <1>1, InitIInv, PTL DEF Spec

(* With one request at a time the status of every committed order says how     *)
(* much of it is filled, never more than was ordered.                          *)
(* (market_service.py: _match, cancel_order; MarketRepository.update)          *)
THEOREM OrdersStayCoherent == ASSUME OneRequest PROVE Spec => []OrderCoherence
  <1>1. IInv => OrderCoherence BY DEF IInv, Consistent, OrderCoherence, Placed
  <1> QED BY <1>1, InvariantHolds, PTL

(* With one request at a time no committed BUY order meets a committed SELL    *)
(* order's price: the loop of _match, which stops at the first order it cannot *)
(* trade with, leaves nothing it could have traded.                            *)
THEOREM BookStaysUncrossed == ASSUME OneRequest PROVE Spec => []UncrossedBook
  <1>1. IInv => UncrossedBook BY DEF IInv, Consistent, UncrossedBook
  <1> QED BY <1>1, InvariantHolds, PTL
-----------------------------------------------------------------------------
(* Price-time priority: what the matching does to the orders that rest.    *)

\* An identifier that is not given out has no row.
Fresh ==
  \A i \in OrderId : i >= nextId => store[OrderOf(i)] = Absent /\ pending[OrderOf(i)] = Absent

\* A resting order keeps its side and price in the uncommitted version.
SidesKept ==
  \A i \in OrderId : Resting(i) =>
    /\ pending[OrderOf(i)] \in Order
    /\ pending[OrderOf(i)].side = store[OrderOf(i)].side
    /\ pending[OrderOf(i)].price = store[OrderOf(i)].price

\* The next commit fills no order before a better one.
FilledInTurn ==
  \A i, j \in OrderId :
    /\ Resting(i) /\ Resting(j) /\ Better(i, j)
    /\ store[OrderOf(j)].filled < pending[OrderOf(j)].filled
    => pending[OrderOf(i)].status = "FILLED"

Untouched == \A i \in OrderId : pending[OrderOf(i)] = store[OrderOf(i)]

\* A request that matches: its order is not committed, and it does nothing to a
\* resting order but fill it.
OnlyFills(R) ==
  /\ store[OrderOf(R.id)] = Absent
  /\ \A i \in OrderId : Resting(i) => pending[OrderOf(i)].status \in Live \cup {"FILLED"}

\* The maker being paid is the best that is left.
PaysTheBest(R) ==
  \A i \in R.makers \ {R.maker} : Precedes(R.order.side, R.known, R.maker, i)

InOrder(R) ==
  /\ Before(R) \/ Cancelling(R) => Untouched
  /\ R.pc = "snapshot" \/ InMatch(R) => OnlyFills(R)
  /\ Paying(R) => PaysTheBest(R)

PriorityInv ==
  /\ IInv
  /\ Fresh /\ SidesKept /\ FilledInTurn
  /\ \A t \in Txn : Active(t) => InOrder(req[t])

LEMMA PricesOf ==
  ASSUME NEW o \in Order
  PROVE  /\ o.price \in Nat /\ o.filled \in Nat /\ o.quantity \in Nat
         /\ o.side \in {"BUY", "SELL"}
  BY DEF Order

LEMMA RestingOrder ==
  ASSUME TypeOK, NEW i \in OrderId, Resting(i)
  PROVE  store[OrderOf(i)] \in Order /\ store[OrderOf(i)] # Absent
  BY OrderTypes, LiveIsOrder DEF Resting

\* In an untouched book nothing has lost its side or been filled.
LEMMA UntouchedBook ==
  ASSUME TypeOK, Untouched
  PROVE  SidesKept /\ FilledInTurn
  <1>1. SidesKept BY RestingOrder DEF Untouched, SidesKept
  <1>2. ASSUME NEW j \in OrderId, Resting(j)
        PROVE  ~(store[OrderOf(j)].filled < pending[OrderOf(j)].filled)
    <2>1. store[OrderOf(j)].filled \in Nat BY <1>2, RestingOrder, PricesOf
    <2>2. pending[OrderOf(j)].filled = store[OrderOf(j)].filled BY DEF Untouched
    <2> QED BY <2>1, <2>2
  <1>3. FilledInTurn BY <1>2 DEF FilledInTurn
  <1> QED BY <1>1, <1>3

\* What holds of the book and the request holds after a step that keeps both
\* versions of the orders.
LEMMA OrdersKept ==
  ASSUME IInv, Fresh, SidesKept, FilledInTurn, store' = store, nextId' = nextId,
         \A i \in OrderId : pending'[OrderOf(i)] = pending[OrderOf(i)]
  PROVE  Fresh' /\ SidesKept' /\ FilledInTurn'
  <1>1. Fresh' BY DEF Fresh
  <1>2. SidesKept' BY DEF SidesKept, Resting
  <1>3. FilledInTurn' BY DEF FilledInTurn, Resting, Better
  <1> QED BY <1>1, <1>2, <1>3

LEMMA KeptInOrder ==
  ASSUME NEW R, InOrder(R), store' = store,
         \A i \in OrderId : pending'[OrderOf(i)] = pending[OrderOf(i)]
  PROVE  InOrder(R)'
  <1>1. Untouched => Untouched' BY DEF Untouched
  <1>2. OnlyFills(R) => OnlyFills(R)' BY DEF OnlyFills, Resting
  <1> QED BY <1>1, <1>2
      DEF InOrder, Before, Cancelling, InMatch, Paying, Adjusting, PaysTheBest

\* A step of the one request, of which new is the local state after it.
LEMMA OneInOrder ==
  ASSUME OneRequest, TypeOK, NEW t \in Txn, NEW new, req' = [req EXCEPT ![t] = new],
         InOrder(new)'
  PROVE  \A u \in Txn : Active(u)' => InOrder(req[u])'
  <1>1. req \in [Txn -> Request \cup {Idle}] BY DEF TypeOK
  <1>2. \A u \in Txn : req'[u] = new BY <1>1 DEF OneRequest
  <1> QED BY <1>2

\* A step that only reads.
LEMMA ReadPriority ==
  ASSUME OneRequest, PriorityInv, IInv', NEW t \in Txn, NEW new,
         req' = [req EXCEPT ![t] = new], InOrder(new),
         UNCHANGED <<store, pending, nextId>>
  PROVE  PriorityInv'
  <1>1. IInv /\ TypeOK /\ Fresh /\ SidesKept /\ FilledInTurn BY DEF PriorityInv, IInv
  <1>2. Fresh' /\ SidesKept' /\ FilledInTurn' BY <1>1, OrdersKept
  <1>3. InOrder(new)' BY KeptInOrder
  <1>4. \A u \in Txn : Active(u)' => InOrder(req[u])' BY <1>1, <1>3, OneInOrder
  <1> QED BY <1>2, <1>4 DEF PriorityInv

LEMMA PlacePriority ==
  ASSUME OneRequest, PriorityInv, IInv', NEW t \in Txn, NEW c \in Country,
         NEW side \in {"BUY", "SELL"}, NEW q \in Quantity, NEW p \in Price,
         Place(t, c, side, q, p)
  PROVE  PriorityInv'
  <1>1. PICK new : /\ req' = [req EXCEPT ![t] = new]
                   /\ new.pc = "adjust" /\ new.then = "insert"
    <2>1. PICK order, todo :
            /\ order = [side |-> side, country |-> c, quantity |-> q, price |-> p,
                        filled |-> 0, status |-> "OPEN"]
            /\ todo = << <<LockRow(side, c), -LockAmount(side, q, p)>> >>
      OBVIOUS
    <2>2. PICK new : new = [pc |-> "adjust", then |-> "insert", seen |-> 0, todo |-> todo,
                            order |-> order, id |-> 0, makers |-> {}, known |-> NoCopies,
                            maker |-> 0, fill |-> 0, traded |-> <<>>]
      OBVIOUS
    <2>3. req' = [req EXCEPT ![t] = new] BY <2>1, <2>2 DEF Place
    <2>4. new.pc = "adjust" /\ new.then = "insert" BY <2>2
    <2> QED BY <2>3, <2>4
  <1>2. ~Active(t) BY DEF Place
  <1>3. Untouched BY <1>2, IdleRows, RowTypes DEF PriorityInv, Untouched
  <1>4. InOrder(new)
    BY <1>1, <1>3 DEF InOrder, Before, Cancelling, InMatch, Paying, Adjusting
  <1> QED BY <1>1, <1>4, ReadPriority DEF Place

LEMMA CancelPriority ==
  ASSUME OneRequest, PriorityInv, IInv', NEW t \in Txn, NEW i \in OrderId, Cancel(t, i)
  PROVE  PriorityInv'
  <1>1. PICK new : /\ req' = [req EXCEPT ![t] = new]
                   /\ new.pc = "adjust" /\ new.then = "cancel"
    <2>1. PICK order, todo :
            /\ order = Seen(t, OrderOf(i))
            /\ todo = << <<LockRow(order.side, order.country),
                          LockAmount(order.side, order.quantity - order.filled, order.price)>> >>
      OBVIOUS
    <2>2. PICK new : new = [pc |-> "adjust", then |-> "cancel", seen |-> 0, todo |-> todo,
                            order |-> order, id |-> i, makers |-> {}, known |-> NoCopies,
                            maker |-> 0, fill |-> 0, traded |-> <<>>]
      OBVIOUS
    <2>3. req' = [req EXCEPT ![t] = new] BY <2>1, <2>2 DEF Cancel
    <2>4. new.pc = "adjust" /\ new.then = "cancel" BY <2>2
    <2> QED BY <2>3, <2>4
  <1>2. ~Active(t) BY DEF Cancel
  <1>3. Untouched BY <1>2, IdleRows, RowTypes DEF PriorityInv, Untouched
  <1>4. InOrder(new)
    BY <1>1, <1>3 DEF InOrder, Before, Cancelling, InMatch, Paying, Adjusting
  <1> QED BY <1>1, <1>4, ReadPriority DEF Cancel

LEMMA ActiveInOrder ==
  ASSUME PriorityInv, NEW t \in Txn, Active(t)
  PROVE  req[t] \in Request /\ InFlight(req[t]) /\ InOrder(req[t]) /\ TypeOK /\ Holders
  BY InFlightOf DEF PriorityInv, IInv

LEMMA AdjustSelectPriority ==
  ASSUME OneRequest, PriorityInv, IInv', NEW t \in Txn, AdjustSelect(t)
  PROVE  PriorityInv'
  <1>1. PICK R : R = req[t] OBVIOUS
  <1>2. R \in Request /\ R.pc = "adjust" /\ InOrder(R)
    BY <1>1, ActiveInOrder DEF AdjustSelect, Active
  <1>3. PICK new : /\ req' = [req EXCEPT ![t] = new]
                   /\ new = [R EXCEPT !.pc = "write", !.seen = Seen(t, Head(R.todo)[1])]
    <2>1. PICK amount : amount = Seen(t, Head(R.todo)[1]) OBVIOUS
    <2>2. PICK new : new = [R EXCEPT !.pc = "write", !.seen = amount] OBVIOUS
    <2>3. req' = [req EXCEPT ![t] = new]
      BY <1>1, <2>1, <2>2 DEF AdjustSelect, PriorityInv, IInv, TypeOK
    <2> QED BY <2>1, <2>2, <2>3
  <1>4. /\ new.pc = "write" /\ new.then = R.then /\ new.id = R.id /\ new.makers = R.makers
        /\ new.maker = R.maker /\ new.order = R.order /\ new.known = R.known
    BY <1>2, <1>3 DEF Request
  <1>5. InOrder(new)
    BY <1>2, <1>4
    DEF InOrder, Before, Cancelling, InMatch, Paying, Adjusting, OnlyFills, PaysTheBest
  <1> QED BY <1>3, <1>5, ReadPriority DEF AdjustSelect

LEMMA AdjustUpdatePriority ==
  ASSUME OneRequest, PriorityInv, IInv', NEW t \in Txn, AdjustUpdate(t)
  PROVE  PriorityInv'
  <1>1. PICK R : R = req[t] OBVIOUS
  <1>2. R \in Request /\ InFlight(R) /\ R.pc = "write" /\ InOrder(R)
    BY <1>1, ActiveInOrder DEF AdjustUpdate, Active
  <1>3. PICK new, pc : /\ req' = [req EXCEPT ![t] = new]
                       /\ pc = IF Tail(R.todo) = <<>> THEN R.then ELSE "adjust"
                       /\ new = [R EXCEPT !.pc = pc, !.todo = Tail(R.todo), !.seen = 0]
    <2>1. PICK left, pc : /\ left = Tail(R.todo)
                          /\ pc = IF left = <<>> THEN R.then ELSE "adjust"
      OBVIOUS
    <2>2. PICK new : new = [R EXCEPT !.pc = pc, !.todo = left, !.seen = 0] OBVIOUS
    <2>3. req' = [req EXCEPT ![t] = new]
      BY <1>1, <2>1, <2>2 DEF AdjustUpdate, PriorityInv, IInv, TypeOK
    <2> QED BY <2>1, <2>2, <2>3
  <1>4. /\ new.pc = pc /\ new.then = R.then /\ new.id = R.id /\ new.makers = R.makers
        /\ new.maker = R.maker /\ new.order = R.order /\ new.known = R.known
    BY <1>2, <1>3 DEF Request
  <1>5. R.then \in {"insert", "maker", "cancel"} BY <1>2 DEF Request
  <1>6. InOrder(new)
    BY <1>2, <1>3, <1>4, <1>5
    DEF InOrder, Before, Cancelling, InMatch, Paying, Adjusting, OnlyFills, PaysTheBest
  <1>7. PICK r \in Stock : \E v : Write(t, r, v)
    <2>1. R.todo # <<>> BY <1>2 DEF InFlight, Adjusting
    <2> QED BY <1>1, <1>2, <2>1, TodoTypes DEF AdjustUpdate
  <1>8. \A i \in OrderId : pending'[OrderOf(i)] = pending[OrderOf(i)]
    BY <1>7, OrdersUntouched DEF PriorityInv
  <1>9. store' = store /\ nextId' = nextId BY <1>7 DEF Write, AdjustUpdate
  <1>10. Fresh' /\ SidesKept' /\ FilledInTurn' BY <1>8, <1>9, OrdersKept DEF PriorityInv
  <1>11. InOrder(new)' BY <1>6, <1>8, <1>9, KeptInOrder
  <1>12. \A u \in Txn : Active(u)' => InOrder(req[u])'
    BY <1>3, <1>11, OneInOrder DEF PriorityInv, IInv
  <1> QED BY <1>10, <1>12 DEF PriorityInv

LEMMA InsertPriority ==
  ASSUME OneRequest, PriorityInv, IInv', NEW t \in Txn, Insert(t)
  PROVE  PriorityInv'
  <1>1. PICK R, n : R = req[t] /\ n = nextId OBVIOUS
  <1>2. R \in Request /\ R.pc = "insert" /\ InOrder(R)
    BY <1>1, ActiveInOrder DEF Insert, Active
  <1>3. n \in OrderId /\ n \in Nat /\ nextId' = n + 1
    BY <1>1 DEF Insert, PriorityInv, IInv, TypeOK, OrderId
  <1>4. Untouched BY <1>2 DEF InOrder, Before
  <1>5. Write(t, OrderOf(n), R.order) BY <1>1 DEF Insert
  <1>6. /\ store' = store
        /\ \A i \in OrderId \ {n} : pending'[OrderOf(i)] = store[OrderOf(i)]
    BY <1>3, <1>4, <1>5, RowTypes DEF Write, PriorityInv, IInv, TypeOK, Untouched
  <1>7. \A i \in OrderId : i >= n => store[OrderOf(i)] = Absent /\ pending[OrderOf(i)] = Absent
    BY <1>1 DEF PriorityInv, Fresh
  <1>8. store[OrderOf(n)] = Absent BY <1>3, <1>7
  <1>9. Fresh'
    <2>1. \A i \in OrderId : i >= n + 1 => i >= n /\ i # n BY <1>3 DEF OrderId
    <2> QED BY <1>3, <1>6, <1>7, <2>1 DEF Fresh
  <1>10. \A i \in OrderId : Resting(i) => i # n BY <1>8 DEF Resting, Absent, Live
  <1>11. \A i \in OrderId : Resting(i)' <=> Resting(i) BY <1>6 DEF Resting
  <1>12. \A i \in OrderId : Resting(i) => store[OrderOf(i)] \in Order
    BY RestingOrder DEF PriorityInv, IInv
  <1>13. SidesKept' BY <1>6, <1>10, <1>11, <1>12 DEF SidesKept
  <1>14. FilledInTurn'
    <2>1. ASSUME NEW j \in OrderId, Resting(j)
          PROVE  ~(store'[OrderOf(j)].filled < pending'[OrderOf(j)].filled)
      <3>1. store[OrderOf(j)].filled \in Nat BY <1>12, <2>1, PricesOf
      <3> QED BY <1>6, <1>10, <2>1, <3>1
    <2> QED BY <1>11, <2>1 DEF FilledInTurn
  <1>15. PICK new : /\ req' = [req EXCEPT ![t] = new]
                    /\ new = [R EXCEPT !.pc = "snapshot", !.id = n]
    BY <1>1 DEF Insert, PriorityInv, IInv, TypeOK
  <1>16. new.pc = "snapshot" /\ new.id = n BY <1>2, <1>15 DEF Request
  <1>17. OnlyFills(new)' BY <1>6, <1>8, <1>10, <1>16 DEF OnlyFills, Resting
  <1>18. InOrder(new)'
    BY <1>16, <1>17 DEF InOrder, Before, Cancelling, InMatch, Paying, Adjusting
  <1>19. \A u \in Txn : Active(u)' => InOrder(req[u])'
    BY <1>15, <1>18, OneInOrder DEF PriorityInv, IInv
  <1> QED BY <1>9, <1>13, <1>14, <1>19 DEF PriorityInv

LEMMA SnapshotPriority ==
  ASSUME OneRequest, PriorityInv, IInv', NEW t \in Txn, Snapshot(t)
  PROVE  PriorityInv'
  <1>1. PICK R : R = req[t] OBVIOUS
  <1>2. R \in Request /\ R.pc = "snapshot" /\ InOrder(R)
    BY <1>1, ActiveInOrder DEF Snapshot, Active
  <1>3. PICK new, makers, known :
          /\ req' = [req EXCEPT ![t] = new]
          /\ new = [R EXCEPT !.pc = "match", !.makers = makers, !.known = known]
    <2>1. PICK makers, known :
            /\ makers = Matching(t)
            /\ known = [i \in OrderId |->
                         IF i \in Matching(t) THEN Seen(t, OrderOf(i)) ELSE Absent]
      OBVIOUS
    <2>2. PICK new : new = [R EXCEPT !.pc = "match", !.makers = makers, !.known = known]
      OBVIOUS
    <2>3. req' = [req EXCEPT ![t] = new]
      BY <1>1, <2>1, <2>2 DEF Snapshot, PriorityInv, IInv, TypeOK
    <2> QED BY <2>2, <2>3
  <1>4. new.pc = "match" /\ new.id = R.id BY <1>2, <1>3 DEF Request
  <1>5. OnlyFills(new) BY <1>2, <1>4 DEF InOrder, OnlyFills
  <1>6. InOrder(new)
    BY <1>4, <1>5 DEF InOrder, Before, Cancelling, InMatch, Paying, Adjusting
  <1> QED BY <1>3, <1>6, ReadPriority DEF Snapshot

LEMMA SettlePriority ==
  ASSUME OneRequest, PriorityInv, IInv', NEW t \in Txn, NEW i \in OrderId, Settle(t, i)
  PROVE  PriorityInv'
  <1>1. PICK R : R = req[t] OBVIOUS
  <1>2. R \in Request /\ R.pc = "match" /\ InOrder(R)
    BY <1>1, ActiveInOrder DEF Settle, Active
  <1>8. PICK fill : fill = Min2(R.order.quantity - R.order.filled,
                                R.known[i].quantity - R.known[i].filled)
    OBVIOUS
  <1>9. PICK todo : todo = Payments(R.order, R.known[i], fill) OBVIOUS
  <1>10. PICK new : new = [R EXCEPT !.pc = "adjust", !.then = "maker", !.maker = i,
                                    !.fill = fill, !.todo = todo]
    OBVIOUS
  <1>3. req' = [req EXCEPT ![t] = new]
    BY <1>1, <1>8, <1>9, <1>10 DEF Settle, PriorityInv, IInv, TypeOK
  <1>4. /\ new.pc = "adjust" /\ new.then = "maker" /\ new.id = R.id /\ new.maker = i
        /\ new.makers = R.makers /\ new.order = R.order /\ new.known = R.known
    BY <1>2, <1>10 DEF Request
  <1>5. OnlyFills(new) BY <1>2, <1>4 DEF InOrder, InMatch, OnlyFills
  <1>6. PaysTheBest(new) BY <1>1, <1>4 DEF Settle, IsNext, PaysTheBest
  <1>7. InOrder(new)
    BY <1>4, <1>5, <1>6 DEF InOrder, Before, Cancelling, InMatch, Paying, Adjusting
  <1> QED BY <1>3, <1>7, ReadPriority DEF Settle

\* The maker is the best that is left, so a better order is used up; and the
\* taker's own order does not rest yet.
LEMMA UpdateMakerPriority ==
  ASSUME OneRequest, PriorityInv, IInv', NEW t \in Txn, UpdateMaker(t)
  PROVE  PriorityInv'
  <1>1. PICK R : R = req[t] OBVIOUS
  <1>2. R.pc = "maker" /\ Active(t) /\ InMatch(R) /\ Paying(R) /\ InOrder(R)
    BY <1>1, ActiveInOrder DEF UpdateMaker, Active, InMatch, Paying
  <1>3. /\ R \in Request /\ InFlight(R) /\ Matchmaking(R) /\ OnlyFills(R) /\ PaysTheBest(R)
        /\ R.order \in Order /\ R.order.quantity \in Nat /\ R.order.filled \in Nat
    BY <1>1, <1>2, MatchFacts DEF PriorityInv, InOrder
  <1>4. Turn(R) /\ R.maker \in R.makers BY <1>2, <1>3 DEF InFlight, Turn
  <1>5. PICK m, K, f : m = R.maker /\ K = R.known[m] /\ f = K.filled + R.fill OBVIOUS
  <1>6. /\ m \in OrderId /\ m # R.id /\ K \in Order /\ K = pending[OrderOf(m)]
        /\ K.quantity \in Nat /\ K.filled \in Nat /\ K.filled <= K.quantity
    BY <1>1, <1>2, <1>3, <1>4, <1>5, MatchFacts DEF Matchmaking, PriorityInv
  <1>7. f \in Nat /\ f <= K.quantity BY <1>3, <1>4, <1>5, <1>6, TurnFacts
  <1>8. PICK v : v = Updated(K, f) OBVIOUS
  <1>9. v \in Order /\ v.side = K.side /\ v.price = K.price /\ v.status \in Live \cup {"FILLED"}
    <2>1. v \in Order /\ v.side = K.side /\ v.price = K.price
      BY <1>6, <1>7, <1>8, UpdatedOrder
    <2>2. v.status = StatusOf(f, K.quantity) BY <1>6, <1>8 DEF Updated, Order
    <2> QED BY <2>1, <2>2 DEF StatusOf, Live
  <1>10. Write(t, OrderOf(m), v)
    <2>1. Seen(t, OrderOf(m)) = K BY <1>6, SeesPending, RowTypes DEF PriorityInv, IInv
    <2> QED BY <1>1, <1>5, <1>8, <2>1 DEF UpdateMaker
  <1>11. /\ store' = store /\ nextId' = nextId /\ pending'[OrderOf(m)] = v
         /\ \A i \in OrderId \ {m} : pending'[OrderOf(i)] = pending[OrderOf(i)]
    BY <1>6, <1>10, RowTypes DEF Write, PriorityInv, IInv, TypeOK, UpdateMaker
  <1>12. \A i \in OrderId : (Resting(i)' <=> Resting(i)) /\ \A j \in OrderId : Better(i, j)' <=> Better(i, j)
    BY <1>11 DEF Resting, Better
  <1>13. Fresh'
    <2>1. ~(m >= nextId) BY <1>6 DEF PriorityInv, Fresh, Order, Absent
    <2> QED BY <1>11, <2>1 DEF PriorityInv, Fresh
  <1>14. SidesKept'
    <2>1. SidesKept BY DEF PriorityInv
    <2>2. ASSUME NEW i \in OrderId, Resting(i)
          PROVE  /\ pending'[OrderOf(i)] \in Order
                 /\ pending'[OrderOf(i)].side = store[OrderOf(i)].side
                 /\ pending'[OrderOf(i)].price = store[OrderOf(i)].price
      <3>1. CASE i = m BY <1>6, <1>9, <1>11, <2>1, <2>2, <3>1 DEF SidesKept
      <3>2. CASE i # m BY <1>11, <2>1, <2>2, <3>2 DEF SidesKept
      <3> QED BY <3>1, <3>2
    <2> QED BY <1>11, <1>12, <2>2 DEF SidesKept
  <1>15. FilledInTurn'
    <2> SUFFICES ASSUME NEW i \in OrderId, NEW j \in OrderId,
                        Resting(i), Resting(j), Better(i, j),
                        store[OrderOf(j)].filled < pending'[OrderOf(j)].filled
                 PROVE  pending'[OrderOf(i)].status = "FILLED"
      BY <1>11, <1>12 DEF FilledInTurn
    <2>1. PICK a, b : a = store[OrderOf(i)] /\ b = store[OrderOf(j)] OBVIOUS
    <2>2. a \in Order /\ b \in Order BY <2>1, RestingOrder DEF PriorityInv, IInv
    <2>3. a.price \in Nat /\ b.price \in Nat /\ a.side \in {"BUY", "SELL"}
      BY <2>2, PricesOf
    <2>4. i # j BY <2>1, <2>3 DEF Better, OrderId
    <2>5. CASE j # m
      <3>1. pending[OrderOf(i)].status = "FILLED" BY <1>11, <2>5 DEF PriorityInv, FilledInTurn
      <3>2. i # m BY <1>3, <1>4, <1>5, <1>6, <3>1 DEF Matchmaking, Opposes, Live
      <3> QED BY <1>11, <3>1, <3>2
    <2>6. CASE j = m
      <3>1. PICK p : p = pending[OrderOf(i)] OBVIOUS
      <3>2. /\ p.side = a.side /\ p.price = a.price /\ p.status \in Live \cup {"FILLED"}
            /\ K.side = b.side /\ K.price = b.price
        BY <1>3, <1>6, <2>1, <2>6, <3>1 DEF PriorityInv, SidesKept, OnlyFills
      <3>3. K.side # R.order.side /\ R.order.side \in {"BUY", "SELL"}
        BY <1>3, <1>4, <1>5, PricesOf DEF Matchmaking, Opposes
      <3>4. a.side = b.side /\ a.side # R.order.side
        BY <2>1, <3>2, <3>3 DEF Better
      <3>5. p.status \in Live => Opposes(R, p) BY <3>2, <3>4 DEF Opposes
      <3>6. i # R.id BY <1>3 DEF OnlyFills, Resting, Absent, Live
      <3>7. p.status \in Live => i \in R.makers
        <4>1. R.order.filled # R.order.quantity BY <1>3, <1>4 DEF Turn
        <4> QED BY <1>3, <3>1, <3>5, <3>6, <4>1 DEF Matchmaking
      <3>8. i \notin R.makers
        <4> SUFFICES ASSUME i \in R.makers PROVE FALSE OBVIOUS
        <4>1. Precedes(R.order.side, R.known, m, i)
          BY <1>3, <1>5, <2>4, <2>6 DEF PaysTheBest
        <4>2. R.known[i] = p BY <1>3, <3>1 DEF Matchmaking
        <4>3. PICK x \in Nat, y \in Nat : x = a.price /\ y = b.price BY <2>3
        <4>4. \/ R.order.side = "BUY" /\ y < x
              \/ R.order.side = "SELL" /\ y > x
              \/ y = x /\ m < i
          BY <1>5, <3>2, <4>1, <4>2, <4>3 DEF Precedes
        <4>5. \/ a.side = "SELL" /\ x < y
              \/ a.side = "BUY" /\ x > y
              \/ x = y /\ i < j
          BY <2>1, <4>3 DEF Better
        <4>6. i \in Nat /\ m \in Nat BY <1>6 DEF OrderId
        <4> QED BY <2>6, <3>4, <4>4, <4>5, <4>6
      <3>9. p.status = "FILLED" BY <3>2, <3>7, <3>8
      <3>10. i # m BY <2>4, <2>6
      <3> QED BY <1>11, <3>1, <3>9, <3>10
    <2> QED BY <2>5, <2>6
  <1>16. PICK new :
           /\ req' = [req EXCEPT ![t] = new]
           /\ new.pc = "match" /\ new.id = R.id
    <2>1. PICK order, makers, traded :
            /\ order = [R.order EXCEPT !.filled = R.order.filled + R.fill]
            /\ makers = R.makers \ {R.maker}
            /\ traded = Append(R.traded,
                 [buy  |-> IF R.order.side = "BUY" THEN R.id ELSE R.maker,
                  sell |-> IF R.order.side = "BUY" THEN R.maker ELSE R.id,
                  quantity |-> R.fill, price |-> R.known[R.maker].price])
      OBVIOUS
    <2>2. PICK new : new = [R EXCEPT !.pc = "match", !.order = order, !.makers = makers,
                                     !.traded = traded]
      OBVIOUS
    <2>3. req' = [req EXCEPT ![t] = new]
      BY <1>1, <1>3, <2>1, <2>2 DEF UpdateMaker, PriorityInv, IInv, TypeOK, Request
    <2>4. new.pc = "match" /\ new.id = R.id BY <1>3, <2>2 DEF Request
    <2> QED BY <2>3, <2>4
  <1>17. OnlyFills(new)'
    <2>1. \A i \in OrderId : Resting(i) => pending'[OrderOf(i)].status \in Live \cup {"FILLED"}
      BY <1>3, <1>9, <1>11 DEF OnlyFills
    <2> QED BY <1>3, <1>11, <1>12, <1>16, <2>1 DEF OnlyFills
  <1>18. InOrder(new)'
    BY <1>16, <1>17 DEF InOrder, Before, Cancelling, InMatch, Paying, Adjusting
  <1>19. \A u \in Txn : Active(u)' => InOrder(req[u])'
    BY <1>16, <1>18, OneInOrder DEF PriorityInv, IInv
  <1> QED BY <1>13, <1>14, <1>15, <1>19 DEF PriorityInv

LEMMA UpdateTakerPriority ==
  ASSUME OneRequest, PriorityInv, IInv', NEW t \in Txn, UpdateTaker(t)
  PROVE  PriorityInv'
  <1>1. PICK R, n : R = req[t] /\ n = R.id OBVIOUS
  <1>2. R.pc = "match" /\ Active(t) /\ InMatch(R) /\ InOrder(R)
    BY <1>1, ActiveInOrder DEF UpdateTaker, Active, InMatch
  <1>3. /\ R \in Request /\ Inserted(R) /\ OnlyFills(R)
    BY <1>1, <1>2, MatchFacts DEF PriorityInv, InOrder
  <1>4. n \in OrderId /\ pending[OrderOf(n)] \in Order /\ store[OrderOf(n)] = Absent
    BY <1>1, <1>3 DEF Inserted, OnlyFills
  <1>5. PICK v : Write(t, OrderOf(n), v) BY <1>1 DEF UpdateTaker
  <1>6. /\ store' = store /\ nextId' = nextId
        /\ \A i \in OrderId \ {n} : pending'[OrderOf(i)] = pending[OrderOf(i)]
    BY <1>4, <1>5, RowTypes DEF Write, PriorityInv, IInv, TypeOK, UpdateTaker
  <1>7. \A i \in OrderId : Resting(i) => i # n BY <1>4 DEF Resting, Absent, Live
  <1>8. \A i \in OrderId : (Resting(i)' <=> Resting(i)) /\ \A j \in OrderId : Better(i, j)' <=> Better(i, j)
    BY <1>6 DEF Resting, Better
  <1>9. Fresh'
    <2>1. ~(n >= nextId) BY <1>4 DEF PriorityInv, Fresh, Order, Absent
    <2> QED BY <1>6, <2>1 DEF PriorityInv, Fresh
  <1>10. SidesKept' BY <1>6, <1>7, <1>8 DEF PriorityInv, SidesKept
  <1>11. FilledInTurn' BY <1>6, <1>7, <1>8 DEF PriorityInv, FilledInTurn
  <1>12. PICK new : req' = [req EXCEPT ![t] = new] /\ new = [R EXCEPT !.pc = "commit"]
    BY <1>1 DEF UpdateTaker, Goto, PriorityInv, IInv, TypeOK
  <1>13. new.pc = "commit" BY <1>3, <1>12 DEF Request
  <1>14. InOrder(new)'
    BY <1>13 DEF InOrder, Before, Cancelling, InMatch, Paying, Adjusting
  <1>15. \A u \in Txn : Active(u)' => InOrder(req[u])'
    BY <1>12, <1>14, OneInOrder DEF PriorityInv, IInv
  <1> QED BY <1>9, <1>10, <1>11, <1>15 DEF PriorityInv

LEMMA MarkCancelledPriority ==
  ASSUME OneRequest, PriorityInv, IInv', NEW t \in Txn, MarkCancelled(t)
  PROVE  PriorityInv'
  <1>1. PICK R, n : R = req[t] /\ n = R.id OBVIOUS
  <1>2. R.pc = "cancel" /\ R \in Request /\ InFlight(R) /\ InOrder(R)
    BY <1>1, ActiveInOrder DEF MarkCancelled, Active
  <1>3. Untouched BY <1>2 DEF InOrder, Cancelling
  <1>4. PICK O : O = pending[OrderOf(n)] OBVIOUS
  <1>5. n \in OrderId /\ O \in Order /\ O = store[OrderOf(n)]
    BY <1>1, <1>2, <1>3, <1>4 DEF InFlight, Cancelling, Untouched
  <1>6. PICK v : v = [O EXCEPT !.status = "CANCELLED"] OBVIOUS
  <1>7. v \in Order /\ v.side = O.side /\ v.price = O.price /\ v.filled = O.filled
    BY <1>5, <1>6 DEF Order
  <1>8. Write(t, OrderOf(n), v)
    <2>1. Seen(t, OrderOf(n)) = O BY <1>4, <1>5, SeesPending, RowTypes DEF PriorityInv, IInv
    <2> QED BY <1>1, <1>6, <2>1 DEF MarkCancelled
  <1>9. /\ store' = store /\ nextId' = nextId /\ pending'[OrderOf(n)] = v
        /\ \A i \in OrderId \ {n} : pending'[OrderOf(i)] = store[OrderOf(i)]
    <2>1. /\ store' = store /\ nextId' = nextId /\ pending'[OrderOf(n)] = v
          /\ \A i \in OrderId \ {n} : pending'[OrderOf(i)] = pending[OrderOf(i)]
      BY <1>5, <1>8, RowTypes DEF Write, PriorityInv, IInv, TypeOK, MarkCancelled
    <2> QED BY <1>3, <2>1 DEF Untouched
  <1>10. \A i \in OrderId : Resting(i)' <=> Resting(i) BY <1>9 DEF Resting
  <1>11. \A i \in OrderId : Resting(i) => store[OrderOf(i)] \in Order
    BY RestingOrder DEF PriorityInv, IInv
  <1>12. Fresh'
    <2>1. ~(n >= nextId) BY <1>4, <1>5 DEF PriorityInv, Fresh, Order, Absent
    <2> QED BY <1>3, <1>9, <2>1 DEF PriorityInv, Fresh, Untouched
  <1>13. SidesKept' BY <1>5, <1>7, <1>9, <1>10, <1>11 DEF SidesKept
  <1>14. FilledInTurn'
    <2>1. ASSUME NEW j \in OrderId, Resting(j)
          PROVE  ~(store'[OrderOf(j)].filled < pending'[OrderOf(j)].filled)
      <3>1. store[OrderOf(j)].filled \in Nat BY <1>11, <2>1, PricesOf
      <3>2. pending'[OrderOf(j)].filled = store[OrderOf(j)].filled
        BY <1>5, <1>7, <1>9
      <3> QED BY <1>9, <3>1, <3>2
    <2> QED BY <1>10, <2>1 DEF FilledInTurn
  <1>15. PICK new : req' = [req EXCEPT ![t] = new] /\ new = [R EXCEPT !.pc = "commit"]
    BY <1>1 DEF MarkCancelled, Goto, PriorityInv, IInv, TypeOK
  <1>16. new.pc = "commit" BY <1>2, <1>15 DEF Request
  <1>17. InOrder(new)'
    BY <1>16 DEF InOrder, Before, Cancelling, InMatch, Paying, Adjusting
  <1>18. \A u \in Txn : Active(u)' => InOrder(req[u])'
    BY <1>15, <1>17, OneInOrder DEF PriorityInv, IInv
  <1> QED BY <1>12, <1>13, <1>14, <1>18 DEF PriorityInv

\* A request ends: the rows are of one version again.
LEMMA EndPriority ==
  ASSUME OneRequest, PriorityInv, IInv', NEW t \in Txn, Finish(t),
         store' = store \/ store' = pending, pending' = store', nextId' = nextId
  PROVE  PriorityInv'
  <1>1. \A u \in Txn : ~Active(u)'
    BY DEF OneRequest, Finish, PriorityInv, IInv, TypeOK, Active, Idle
  <1>2. Fresh' BY DEF PriorityInv, Fresh
  <1>3. Untouched' BY DEF Untouched
  <1>4. TypeOK' BY DEF IInv
  <1>5. SidesKept' /\ FilledInTurn' BY <1>3, <1>4, UntouchedBook, PTL
  <1> QED BY <1>1, <1>2, <1>5 DEF PriorityInv

\* A commit publishes the uncommitted version, anything else no version.
LEMMA CommittedVersion ==
  ASSUME OneRequest, IInv, NEW t \in Txn, Commit(t)
  PROVE  store' = pending /\ pending' = pending
  <1>1. pending = [r \in Row |-> pending[r]] BY DEF IInv, TypeOK
  <1>2. \A r \in Row : Seen(t, r) = pending[r] BY SeesPending DEF IInv
  <1> QED BY <1>1, <1>2 DEF Commit, CommitWrites

LEMMA CommitPriority ==
  ASSUME OneRequest, PriorityInv, IInv', NEW t \in Txn, Commit(t)
  PROVE  PriorityInv'
  <1>1. store' = pending /\ pending' = store' BY CommittedVersion DEF PriorityInv
  <1> QED BY <1>1, EndPriority DEF Commit

LEMMA FailPriority ==
  ASSUME OneRequest, PriorityInv, IInv', NEW t \in Txn, Fail(t)
  PROVE  PriorityInv'
  <1>1. store' = store /\ pending' = store'
    <2>1. \A r \in Row : (IF holder[r] = t THEN store[r] ELSE pending[r]) = store[r]
      BY DEF OneRequest, PriorityInv, IInv, TypeOK, Holders
    <2>2. store = [r \in Row |-> store[r]] BY DEF PriorityInv, IInv, TypeOK
    <2> QED BY <2>1, <2>2 DEF Fail, Rollback, ForgetWrites
  <1> QED BY <1>1, EndPriority DEF Fail, Rollback

LEMMA InitPriority == Init => PriorityInv
  <1> SUFFICES ASSUME Init PROVE PriorityInv OBVIOUS
  <1>1. IInv BY InitIInv
  <1>2. Untouched BY DEF Init, Untouched
  <1>3. SidesKept /\ FilledInTurn BY <1>1, <1>2, UntouchedBook DEF IInv
  <1>4. Fresh
    <2>1. ASSUME NEW i \in OrderId
          PROVE  store[OrderOf(i)] = IF i \in DOMAIN Book THEN Book[i] ELSE Absent
      BY RowTypes DEF OrderOf, Init
    <2>2. Len(Book) \in Nat /\ DOMAIN Book = 1 .. Len(Book) BY BookAssumption
    <2>3. ASSUME NEW i \in OrderId, i >= nextId PROVE store[OrderOf(i)] = Absent
      <3>1. nextId = Len(Book) + 1 /\ i \in Nat BY DEF Init, OrderId
      <3>2. i \notin DOMAIN Book BY <2>2, <2>3, <3>1
      <3> QED BY <2>1, <3>2
    <2> QED BY <1>2, <2>3 DEF Fresh, Untouched
  <1>5. \A t \in Txn : ~Active(t) BY DEF Init, Active, Idle
  <1> QED BY <1>1, <1>3, <1>4, <1>5 DEF PriorityInv

LEMMA NextPriority == ASSUME OneRequest, PriorityInv, [Next]_vars PROVE PriorityInv'
  <1>1. IInv' BY NextIInv DEF PriorityInv
  <1>2. CASE UNCHANGED vars
    <2>1. Fresh' /\ SidesKept' /\ FilledInTurn' BY <1>2, OrdersKept DEF vars, PriorityInv
    <2>2. ASSUME NEW t \in Txn, Active(t)' PROVE InOrder(req[t])'
      <3>1. PICK R : R = req[t] OBVIOUS
      <3>2. InOrder(R) BY <1>2, <2>2, <3>1 DEF vars, PriorityInv, Active
      <3>3. InOrder(R)' BY <1>2, <3>2, KeptInOrder DEF vars
      <3>4. req'[t] = R BY <1>2, <3>1 DEF vars
      <3> QED BY <3>3, <3>4
    <2> QED BY <1>1, <2>1, <2>2 DEF PriorityInv
  <1>3. ASSUME NEW t \in Txn, Step(t) PROVE PriorityInv'
    BY <1>1, <1>3, AdjustSelectPriority, AdjustUpdatePriority, InsertPriority,
       SnapshotPriority, SettlePriority, UpdateMakerPriority, UpdateTakerPriority,
       MarkCancelledPriority, CommitPriority
    DEF Step
  <1> QED BY <1>1, <1>2, <1>3, PlacePriority, CancelPriority, FailPriority DEF Next

\* Only a commit changes the committed rows.
LEMMA OnlyCommitsPublish ==
  ASSUME OneRequest, IInv, [Next]_vars
  PROVE  store' = store \/ store' = pending
  <1>1. ASSUME NEW t \in Txn, Step(t) PROVE store' = store \/ store' = pending
    BY <1>1, CommittedVersion
    DEF Step, AdjustSelect, AdjustUpdate, Insert, Snapshot, Settle, UpdateMaker,
        UpdateTaker, MarkCancelled, Write
  <1> QED BY <1>1 DEF Next, vars, Place, Cancel, Fail, Rollback, ForgetWrites

LEMMA CommitsInTurn ==
  ASSUME OneRequest, PriorityInv, [Next]_vars,
         NEW i \in OrderId, NEW j \in OrderId,
         Resting(i), Resting(j), Better(i, j),
         store[OrderOf(j)].filled < store'[OrderOf(j)].filled
  PROVE  store'[OrderOf(i)].status = "FILLED"
  <1>1. store[OrderOf(j)].filled \in Nat
    BY RestingOrder, PricesOf DEF PriorityInv, IInv
  <1>2. store' # store BY <1>1
  <1>3. store' = pending BY <1>2, OnlyCommitsPublish DEF PriorityInv
  <1> QED BY <1>3 DEF PriorityInv, FilledInTurn

(* With one request at a time an order is filled further only by a commit that *)
(* leaves no better resting order of its side, and no older one at its price,  *)
(* with something unfilled.  (market_repo.py: the ORDER BY of matching_orders; *)
(* market_service.py: the loop of _match)                                      *)
THEOREM PriorityHolds == ASSUME OneRequest PROVE Spec => PriceTimePriority
  <1>1. PriorityInv /\ [Next]_vars => PriorityInv' BY NextPriority
  <1>2. PriorityInv /\ [Next]_vars =>
          [\A i, j \in OrderId :
             /\ Resting(i) /\ Resting(j) /\ Better(i, j)
             /\ store[OrderOf(j)].filled < store'[OrderOf(j)].filled
             => store'[OrderOf(i)].status = "FILLED"]_vars
    BY CommitsInTurn
  <1> QED BY <1>1, <1>2, InitPriority, PTL DEF Spec, PriceTimePriority
-----------------------------------------------------------------------------
(* Sums.                                                                   *)

LEMMA SetInduction ==
  ASSUME NEW T, T \subseteq Nat, 0 \in T, \A n \in T : n + 1 \in T
  PROVE  T = Nat
  <1> SUFFICES ASSUME Nat \ T # {} PROVE FALSE OBVIOUS
  <1>1. PICK m \in Nat \ T : \A n \in Nat \ T : m <= n BY LeastNat
  <1>2. m # 0 /\ m \in Nat BY <1>1
  <1>3. m - 1 \in Nat /\ ~(m <= m - 1) /\ (m - 1) + 1 = m BY <1>2
  <1>4. m - 1 \in T BY <1>1, <1>3
  <1> QED BY <1>1, <1>3, <1>4

\* g is the sums of f up to n.
IsSums(f, n, g) == g = [k \in 0 .. n |-> IF k = 0 THEN 0 ELSE g[k - 1] + f[k]]

LEMMA SumsAgree ==
  ASSUME NEW f, NEW n \in Nat, NEW m \in Nat, NEW g, NEW h,
         IsSums(f, n, g), IsSums(f, m, h), NEW k \in Nat, k <= n, k <= m
  PROVE  g[k] = h[k]
  <1> DEFINE T == {j \in Nat : j <= n /\ j <= m => g[j] = h[j]}
  <1>1. 0 \in T BY DEF IsSums
  <1>2. ASSUME NEW j \in T PROVE j + 1 \in T
    <2> SUFFICES ASSUME j + 1 <= n, j + 1 <= m PROVE g[j + 1] = h[j + 1] OBVIOUS
    <2>1. PICK i \in Nat : i = j + 1 /\ i - 1 = j /\ i # 0 OBVIOUS
    <2>2. g[j] = h[j] OBVIOUS
    <2>3. i \in 0 .. n /\ i \in 0 .. m BY <2>1
    <2>4. g[i] = g[i - 1] + f[i] BY <2>1, <2>3 DEF IsSums
    <2>5. h[i] = h[i - 1] + f[i] BY <2>1, <2>3 DEF IsSums
    <2> QED BY <2>1, <2>2, <2>4, <2>5
  <1> HIDE DEF T
  <1>3. T = Nat BY <1>1, <1>2, SetInduction DEF T
  <1> QED BY <1>3 DEF T

LEMMA SumsExist ==
  ASSUME NEW f, NEW n \in Nat
  PROVE  \E g : IsSums(f, n, g)
  <1> DEFINE T == {j \in Nat : \E g : IsSums(f, j, g)}
  <1>1. 0 \in T
    <2>1. IsSums(f, 0, [k \in 0 .. 0 |-> 0])
      <3>1. \A k \in 0 .. 0 : k = 0 OBVIOUS
      <3> QED BY <3>1 DEF IsSums
    <2> QED BY <2>1
  <1>2. ASSUME NEW j \in T PROVE j + 1 \in T
    <2>1. PICK g : IsSums(f, j, g) OBVIOUS
    <2>2. PICK i \in Nat : i = j + 1 /\ i - 1 = j /\ i # 0 OBVIOUS
    <2>3. PICK h : h = [k \in 0 .. i |-> IF k = i THEN g[j] + f[i] ELSE g[k]] OBVIOUS
    <2>4. ASSUME NEW k \in 0 .. i PROVE h[k] = IF k = 0 THEN 0 ELSE h[k - 1] + f[k]
      <3>1. CASE k = i
        <4>1. j \in 0 .. i /\ j # i BY <2>2
        <4>2. h[j] = g[j] BY <2>3, <4>1
        <4>3. h[i] = g[j] + f[i] BY <2>2, <2>3
        <4> QED BY <2>2, <3>1, <4>2, <4>3
      <3>2. CASE k # i /\ k # 0
        <4>1. k \in 0 .. j /\ k - 1 \in 0 .. i /\ k - 1 # i BY <2>2, <3>2
        <4>2. h[k] = g[k] /\ h[k - 1] = g[k - 1] BY <2>3, <3>2, <4>1
        <4>3. g[k] = g[k - 1] + f[k] BY <2>1, <3>2, <4>1 DEF IsSums
        <4> QED BY <3>2, <4>2, <4>3
      <3>3. CASE k # i /\ k = 0
        <4>1. 0 \in 0 .. j OBVIOUS
        <4>2. g[0] = 0 BY <2>1, <4>1 DEF IsSums
        <4> QED BY <2>3, <3>3, <4>2
      <3> QED BY <3>1, <3>2, <3>3
    <2>5. IsSums(f, i, h) BY <2>3, <2>4 DEF IsSums
    <2> QED BY <2>2, <2>5
  <1> HIDE DEF T
  <1>3. T = Nat BY <1>1, <1>2, SetInduction DEF T
  <1> QED BY <1>3 DEF T

LEMMA SumsOf ==
  ASSUME NEW f
  PROVE  \E s : s = [k \in Nat |-> IF k = 0 THEN 0 ELSE s[k - 1] + f[k]]
  <1>1. PICK part : part = [n \in Nat |-> CHOOSE g : IsSums(f, n, g)] OBVIOUS
  <1>2. \A n \in Nat : IsSums(f, n, part[n]) BY <1>1, SumsExist
  <1>3. PICK s : s = [n \in Nat |-> part[n][n]] OBVIOUS
  <1>4. ASSUME NEW k \in Nat PROVE s[k] = IF k = 0 THEN 0 ELSE s[k - 1] + f[k]
    <2>1. k \in 0 .. k /\ s[k] = part[k][k] BY <1>3
    <2>2. part[k][k] = IF k = 0 THEN 0 ELSE part[k][k - 1] + f[k] BY <1>2, <2>1 DEF IsSums
    <2>3. CASE k # 0
      <3>1. PICK j \in Nat : j = k - 1 /\ j <= j /\ j <= k BY <2>3
      <3>2. PICK g, h : g = part[k] /\ h = part[j] OBVIOUS
      <3>3. IsSums(f, k, g) /\ IsSums(f, j, h) BY <1>2, <3>1, <3>2
      <3>4. g[j] = h[j] BY <3>1, <3>3, SumsAgree
      <3> QED BY <1>3, <2>1, <2>2, <2>3, <3>1, <3>2, <3>4
    <2> QED BY <2>1, <2>2, <2>3
  <1> QED BY <1>3, <1>4

LEMMA SumSteps ==
  ASSUME NEW f
  PROVE  SumTo(f, 0) = 0 /\ \A n \in Nat : SumTo(f, n + 1) = SumTo(f, n) + f[n + 1]
  <1> DEFINE IsSum(s) == s = [k \in Nat |-> IF k = 0 THEN 0 ELSE s[k - 1] + f[k]]
             sum == CHOOSE s : IsSum(s)
  <1>1. IsSum(sum) BY SumsOf
  <1>2. \A n \in Nat : SumTo(f, n) = sum[n] BY DEF SumTo
  <1> HIDE DEF sum
  <1>3. sum[0] = 0 BY <1>1
  <1>4. ASSUME NEW n \in Nat PROVE sum[n + 1] = sum[n] + f[n + 1]
    <2>1. PICK i \in Nat : i = n + 1 /\ i - 1 = n /\ i # 0 OBVIOUS
    <2>2. sum[i] = sum[i - 1] + f[i] BY <1>1, <2>1
    <2> QED BY <2>1, <2>2
  <1> QED BY <1>2, <1>3, <1>4

LEMMA SumType ==
  ASSUME NEW f, NEW n \in Nat, \A k \in 1 .. n : f[k] \in Int
  PROVE  SumTo(f, n) \in Int
  <1> DEFINE T == {j \in Nat : j <= n => SumTo(f, j) \in Int}
  <1>1. 0 \in T BY SumSteps
  <1>2. ASSUME NEW j \in T PROVE j + 1 \in T
    <2> SUFFICES ASSUME j + 1 <= n PROVE SumTo(f, j + 1) \in Int OBVIOUS
    <2>1. SumTo(f, j) \in Int /\ f[j + 1] \in Int OBVIOUS
    <2>2. SumTo(f, j + 1) = SumTo(f, j) + f[j + 1] BY SumSteps
    <2> QED BY <2>1, <2>2
  <1> HIDE DEF T
  <1>3. T = Nat BY <1>1, <1>2, SetInduction DEF T
  <1> QED BY <1>3 DEF T

\* Functions that agree have the same sum.
LEMMA SumSame ==
  ASSUME NEW f, NEW g, NEW n \in Nat, \A k \in 1 .. n : f[k] = g[k]
  PROVE  SumTo(f, n) = SumTo(g, n)
  <1> DEFINE T == {j \in Nat : j <= n => SumTo(f, j) = SumTo(g, j)}
  <1>1. 0 \in T BY SumSteps
  <1>2. ASSUME NEW j \in T PROVE j + 1 \in T
    <2> SUFFICES ASSUME j + 1 <= n PROVE SumTo(f, j + 1) = SumTo(g, j + 1) OBVIOUS
    <2>1. SumTo(f, j) = SumTo(g, j) /\ f[j + 1] = g[j + 1] OBVIOUS
    <2>2. SumTo(f, j + 1) = SumTo(f, j) + f[j + 1] BY SumSteps
    <2>3. SumTo(g, j + 1) = SumTo(g, j) + g[j + 1] BY SumSteps
    <2> QED BY <2>1, <2>2, <2>3
  <1> HIDE DEF T
  <1>3. T = Nat BY <1>1, <1>2, SetInduction DEF T
  <1> QED BY <1>3 DEF T

\* One entry more or less changes the sum by as much.
LEMMA SumChange ==
  ASSUME NEW f, NEW g, NEW n \in Nat, NEW i \in 1 .. n,
         \A k \in 1 .. n : f[k] \in Int /\ g[k] \in Int,
         \A k \in 1 .. n : k # i => f[k] = g[k]
  PROVE  SumTo(g, n) = SumTo(f, n) - f[i] + g[i]
  <1> DEFINE T == {j \in Nat : i <= j /\ j <= n => SumTo(g, j) = SumTo(f, j) - f[i] + g[i]}
  <1>1. 0 \in T OBVIOUS
  <1>2. ASSUME NEW j \in T PROVE j + 1 \in T
    <2> SUFFICES ASSUME i <= j + 1, j + 1 <= n
                 PROVE  SumTo(g, j + 1) = SumTo(f, j + 1) - f[i] + g[i]
      OBVIOUS
    <2>1. SumTo(f, j) \in Int /\ SumTo(g, j) \in Int BY SumType
    <2>2. SumTo(f, j + 1) = SumTo(f, j) + f[j + 1] BY SumSteps
    <2>3. SumTo(g, j + 1) = SumTo(g, j) + g[j + 1] BY SumSteps
    <2>4. PICK a, b \in Int, c \in Int : a = j + 1 /\ b = f[i] /\ c = g[i] OBVIOUS
    <2>5. f[j + 1] \in Int /\ g[j + 1] \in Int OBVIOUS
    <2>6. CASE i = j + 1
      <3>1. SumTo(f, j) = SumTo(g, j)
        <4>1. \A k \in 1 .. j : f[k] = g[k] BY <2>6
        <4> QED BY <4>1, SumSame
      <3> QED BY <2>1, <2>2, <2>3, <2>5, <2>6, <3>1
    <2>7. CASE i # j + 1
      <3>1. f[j + 1] = g[j + 1] BY <2>7
      <3>2. SumTo(g, j) = SumTo(f, j) - f[i] + g[i] BY <2>7
      <3> QED BY <2>1, <2>2, <2>3, <2>4, <2>5, <3>1, <3>2
    <2> QED BY <2>6, <2>7
  <1> HIDE DEF T
  <1>3. T = Nat BY <1>1, <1>2, SetInduction DEF T
  <1> QED BY <1>3 DEF T

-----------------------------------------------------------------------------
(* The accounts: what a request owes the books until it has written them.  *)

\* What a todo list changes a row by: a turn of the loop has at most three entries.
Entry(todo, n, row) == IF n <= Len(todo) /\ todo[n][1] = row THEN todo[n][2] ELSE 0
Due(todo, row) == Entry(todo, 1, row) + Entry(todo, 2, row) + Entry(todo, 3, row)

\* The todo list a request began with, ...
Bill(R) ==
  CASE R.then = "insert" ->
         << <<LockRow(R.order.side, R.order.country),
              -LockAmount(R.order.side, R.order.quantity, R.order.price)>> >>
    [] R.then = "maker" -> Payments(R.order, R.known[R.maker], R.fill)
    [] R.then = "cancel" ->
         << <<LockRow(R.order.side, R.order.country),
              LockAmount(R.order.side, R.order.quantity - R.order.filled, R.order.price)>> >>

\* ... and what it has paid of it before it writes the order the list is about.
Unwritten(R) == Before(R) \/ Paying(R) \/ Cancelling(R)
Paid(R, row) == IF Unwritten(R) THEN Due(Bill(R), row) - Due(R.todo, row) ELSE 0

\* The stocks without what is paid, the orders with the taker as the loop knows
\* it, the log with the trades of the request.
StocksOf(rows, R) == [r \in Stock |-> rows[r] - Paid(R, r)]
BookOf(rows) == [i \in OrderId |-> rows[OrderOf(i)]]
BookWith(rows, R) ==
  [i \in OrderId |-> IF (R.pc = "snapshot" \/ InMatch(R)) /\ i = R.id
                     THEN R.order ELSE rows[OrderOf(i)]]

\* Every trade of the log is between orders of the book.
Named(book, log) ==
  \A n \in DOMAIN log : /\ log[n].buy \in OrderId /\ IsPlaced(book, log[n].buy)
                        /\ log[n].sell \in OrderId /\ IsPlaced(book, log[n].sell)

Settled(stocks, book, log) ==
  Even(stocks, book, log) /\ Explained(book, log) /\ Named(book, log)

\* adjust never clamps: it was checked before that the amount is there.
Payable(rows, R) ==
  /\ Len(R.todo) <= 3
  /\ Adjusting(R) /\ R.then # "insert" => \A n \in DOMAIN R.todo : R.todo[n][2] >= 0
  /\ Adjusting(R) /\ R.then = "insert" =>
       Len(R.todo) = 1 /\ rows[R.todo[1][1]] + R.todo[1][2] >= 0
  /\ R.pc = "write" => R.seen = rows[R.todo[1][1]]

Accounted(rows, log, R) ==
  /\ Settled(StocksOf(rows, R), BookWith(rows, R), log \o R.traded)
  /\ Unwritten(R) => Bill(R) \in Todo
  /\ Payable(rows, R)
  /\ ~Adjusting(R) => R.todo = <<>>
  /\ R.pc \in {"insert", "maker", "cancel"} => R.then = R.pc
  /\ InMatch(R) => R.order.status = "OPEN"
  /\ Paying(R) => Compatible(R.order, R.known[R.maker])
  /\ Cancelling(R) => R.order = rows[OrderOf(R.id)]

AccountsInv ==
  /\ PriorityInv
  /\ nextId > Len(Book)
  /\ Settled(store, BookOf(store), trades)
  /\ \A t \in Txn : Active(t) => Accounted(pending, trades, req[t])

-----------------------------------------------------------------------------
(* Books and logs.                                                         *)

Books == [OrderId -> Order \cup {Absent}]
Kinds == {"money", "goods"}

LEMMA Product == \A a, b \in Int : a * b \in Int /\ a * b = b * a
  OBVIOUS

LEMMA Distributes == \A a, b, p \in Int : (a - b) * p = a * p - b * p
  OBVIOUS

LEMMA LockedType == \A o \in Order : Locked(o) \in Int
  <1> SUFFICES ASSUME NEW o \in Order PROVE Locked(o) \in Int OBVIOUS
  <1>1. PICK q \in Int, p \in Int : q = o.quantity - o.filled /\ p = o.price
    BY PricesOf
  <1>2. q * p \in Int BY Product
  <1> QED BY <1>1, <1>2 DEF Locked, LockAmount

\* What an order adds to what c has locked of a kind of stock.
Share(kind, c, order) ==
  IF order # Absent /\ order.country = c /\ order.side = Offers(kind) THEN Locked(order) ELSE 0

LEMMA LocksOf ==
  ASSUME NEW book \in Books, NEW kind, NEW c, NEW i \in OrderId
  PROVE  /\ Locks(kind, c, book)[i] = Share(kind, c, book[i])
         /\ Share(kind, c, book[i]) \in Int
  <1>1. IsPlaced(book, i) <=> book[i] # Absent BY DEF IsPlaced, Books
  <1>2. Locks(kind, c, book)[i] = Share(kind, c, book[i])
    BY <1>1 DEF Locks, Owns, Share
  <1>3. book[i] # Absent => book[i] \in Order BY DEF Books
  <1>4. book[i] # Absent => Locked(book[i]) \in Int BY <1>3, LockedType
  <1> QED BY <1>2, <1>4 DEF Share

LEMMA LockedByType ==
  ASSUME NEW book \in Books, NEW kind, NEW c
  PROVE  LockedBy(kind, c, book) \in Int
  <1>1. \A i \in 1 .. MaxOrders : Locks(kind, c, book)[i] \in Int BY LocksOf DEF OrderId
  <1> QED BY <1>1, SumType DEF LockedBy

\* One order of the book changes.
LEMMA LockChanges ==
  ASSUME NEW one \in Books, NEW two \in Books, NEW kind, NEW c, NEW i \in OrderId,
         \A j \in OrderId : j # i => one[j] = two[j]
  PROVE  LockedBy(kind, c, two)
           = LockedBy(kind, c, one) - Share(kind, c, one[i]) + Share(kind, c, two[i])
  <1>1. PICK f, g : f = Locks(kind, c, one) /\ g = Locks(kind, c, two) OBVIOUS
  <1>2. \A j \in 1 .. MaxOrders : f[j] \in Int /\ g[j] \in Int
    BY <1>1, LocksOf DEF OrderId
  <1>3. ASSUME NEW j \in 1 .. MaxOrders, j # i PROVE f[j] = g[j]
    <2>1. one[j] = two[j] /\ j \in OrderId BY <1>3 DEF OrderId
    <2>2. f[j] = Share(kind, c, one[j]) /\ g[j] = Share(kind, c, two[j])
      BY <1>1, <2>1, LocksOf
    <2> QED BY <2>1, <2>2
  <1>4. i \in 1 .. MaxOrders BY DEF OrderId
  <1>5. SumTo(g, MaxOrders) = SumTo(f, MaxOrders) - f[i] + g[i]
    BY <1>2, <1>3, <1>4, SumChange
  <1>6. f[i] = Share(kind, c, one[i]) /\ g[i] = Share(kind, c, two[i]) BY <1>1, LocksOf
  <1> QED BY <1>1, <1>5, <1>6 DEF LockedBy

LEMMA GainType ==
  ASSUME NEW kind, NEW c, NEW book, NEW trade \in Trade
  PROVE  Gain(kind, c, book, trade) \in Int /\ Moved(kind, trade) \in Int
  <1>1. PICK q \in Int, p \in Int : q = trade.quantity /\ p = trade.price
    <2>1. trade.quantity \in Nat /\ trade.price \in Price BY DEF Trade
    <2>2. trade.price \in Nat BY <2>1
    <2> QED BY <2>1, <2>2
  <1>2. q * p \in Int BY Product
  <1>3. Moved(kind, trade) \in Int BY <1>1, <1>2 DEF Moved
  <1> QED BY <1>3 DEF Gain

LEMMA GainsType ==
  ASSUME NEW kind, NEW c, NEW book, NEW log \in Seq(Trade)
  PROVE  Gains(kind, c, book, log) \in Int
  <1>1. PICK f : f = [n \in DOMAIN log |-> Gain(kind, c, book, log[n])] OBVIOUS
  <1>2. Len(log) \in Nat /\ DOMAIN log = 1 .. Len(log) OBVIOUS
  <1>3. \A n \in 1 .. Len(log) : log[n] \in Trade OBVIOUS
  <1>4. \A n \in 1 .. Len(log) : f[n] \in Int BY <1>1, <1>2, <1>3, GainType
  <1>5. SumTo(f, Len(log)) \in Int BY <1>2, <1>4, SumType
  <1> QED BY <1>1, <1>5 DEF Gains

LEMMA TradedType ==
  ASSUME NEW i, NEW log \in Seq(Trade)
  PROVE  Traded(i, log) \in Int
  <1>1. PICK f : f = [n \in DOMAIN log |->
                        IF i \in {log[n].buy, log[n].sell} THEN log[n].quantity ELSE 0]
    OBVIOUS
  <1>2. Len(log) \in Nat /\ DOMAIN log = 1 .. Len(log) OBVIOUS
  <1>3. \A n \in 1 .. Len(log) : log[n] \in Trade OBVIOUS
  <1>4. \A n \in 1 .. Len(log) : f[n] \in Int BY <1>1, <1>2, <1>3 DEF Trade
  <1>5. SumTo(f, Len(log)) \in Int BY <1>2, <1>4, SumType
  <1> QED BY <1>1, <1>5 DEF Traded

\* What the log says depends on whose orders it names, ...
LEMMA SameGains ==
  ASSUME NEW kind, NEW c, NEW one, NEW two, NEW log \in Seq(Trade),
         \A n \in DOMAIN log : /\ Owns(c, one, log[n].buy) <=> Owns(c, two, log[n].buy)
                               /\ Owns(c, one, log[n].sell) <=> Owns(c, two, log[n].sell)
  PROVE  Gains(kind, c, one, log) = Gains(kind, c, two, log)
  <1>1. PICK f, g : /\ f = [n \in DOMAIN log |-> Gain(kind, c, one, log[n])]
                    /\ g = [n \in DOMAIN log |-> Gain(kind, c, two, log[n])]
    OBVIOUS
  <1>2. \A n \in DOMAIN log : Gain(kind, c, one, log[n]) = Gain(kind, c, two, log[n])
    BY DEF Gain
  <1>3. f = g BY <1>1, <1>2
  <1> QED BY <1>1, <1>3 DEF Gains

\* ... and one more trade adds what it moves.
LEMMA OneMoreTrade ==
  ASSUME NEW kind, NEW c, NEW book, NEW log \in Seq(Trade), NEW trade \in Trade, NEW i
  PROVE  /\ Gains(kind, c, book, Append(log, trade))
              = Gains(kind, c, book, log) + Gain(kind, c, book, trade)
         /\ Traded(i, Append(log, trade))
              = Traded(i, log) + (IF i \in {trade.buy, trade.sell} THEN trade.quantity ELSE 0)
  <1>1. PICK m, n : m = Len(log) /\ n = m + 1 OBVIOUS
  <1>2. PICK longer : longer = Append(log, trade) OBVIOUS
  <1>3. /\ m \in Nat /\ Len(longer) = n /\ DOMAIN log = 1 .. m /\ DOMAIN longer = 1 .. n
        /\ \A k \in 1 .. m : longer[k] = log[k] /\ k \in 1 .. n
        /\ longer[n] = trade /\ n \in 1 .. n
    BY <1>1, <1>2
  <1>4. Gains(kind, c, book, longer) = Gains(kind, c, book, log) + Gain(kind, c, book, trade)
    <2>1. PICK f, g : /\ f = [k \in 1 .. m |-> Gain(kind, c, book, log[k])]
                      /\ g = [k \in 1 .. n |-> Gain(kind, c, book, longer[k])]
      OBVIOUS
    <2>2. \A k \in 1 .. m : f[k] = g[k] BY <1>3, <2>1
    <2>3. g[m + 1] = Gain(kind, c, book, trade) BY <1>1, <1>3, <2>1
    <2>4. SumTo(f, m) = SumTo(g, m) BY <1>3, <2>2, SumSame
    <2>5. SumTo(g, m + 1) = SumTo(g, m) + g[m + 1] BY <1>3, SumSteps
    <2>6. SumTo(f, m) = Gains(kind, c, book, log) BY <1>1, <1>3, <2>1 DEF Gains
    <2>7. SumTo(g, m + 1) = Gains(kind, c, book, longer) BY <1>1, <1>3, <2>1 DEF Gains
    <2> QED BY <2>3, <2>4, <2>5, <2>6, <2>7
  <1>5. Traded(i, longer)
          = Traded(i, log) + (IF i \in {trade.buy, trade.sell} THEN trade.quantity ELSE 0)
    <2>1. PICK f, g :
            /\ f = [k \in 1 .. m |->
                      IF i \in {log[k].buy, log[k].sell} THEN log[k].quantity ELSE 0]
            /\ g = [k \in 1 .. n |->
                      IF i \in {longer[k].buy, longer[k].sell} THEN longer[k].quantity ELSE 0]
      OBVIOUS
    <2>2. \A k \in 1 .. m : f[k] = g[k] BY <1>3, <2>1
    <2>3. g[m + 1] = IF i \in {trade.buy, trade.sell} THEN trade.quantity ELSE 0
      BY <1>1, <1>3, <2>1
    <2>4. SumTo(f, m) = SumTo(g, m) BY <1>3, <2>2, SumSame
    <2>5. SumTo(g, m + 1) = SumTo(g, m) + g[m + 1] BY <1>3, SumSteps
    <2>6. SumTo(f, m) = Traded(i, log) BY <1>1, <1>3, <2>1 DEF Traded
    <2>7. SumTo(g, m + 1) = Traded(i, longer) BY <1>1, <1>3, <2>1 DEF Traded
    <2> QED BY <2>3, <2>4, <2>5, <2>6, <2>7
  <1> QED BY <1>2, <1>4, <1>5

\* Books whose orders belong to the same countries, are filled as far and lock
\* as much.
Alike(one, two) ==
  \A i \in OrderId :
    /\ one[i] = Absent <=> two[i] = Absent
    /\ one[i] # Absent => /\ two[i].country = one[i].country /\ two[i].side = one[i].side
                          /\ two[i].filled = one[i].filled
                          /\ Locked(two[i]) = Locked(one[i])

LEMMA AlikeSettled ==
  ASSUME NEW one \in Books, NEW two \in Books, Alike(one, two),
         NEW stocks, NEW log \in Seq(Trade), Settled(stocks, one, log)
  PROVE  Settled(stocks, two, log)
  <1>1. DOMAIN one = OrderId /\ DOMAIN two = OrderId BY DEF Books
  <1>2. \A i : IsPlaced(one, i) <=> IsPlaced(two, i) BY <1>1 DEF IsPlaced, Alike
  <1>3. \A c, i : Owns(c, one, i) <=> Owns(c, two, i)
    BY <1>1, <1>2 DEF IsPlaced, Owns, Alike
  <1>4. ASSUME NEW kind, NEW c PROVE LockedBy(kind, c, two) = LockedBy(kind, c, one)
    <2>1. Locks(kind, c, two) = Locks(kind, c, one)
      <3>1. \A i \in OrderId :
              (IF Owns(c, two, i) /\ two[i].side = Offers(kind) THEN Locked(two[i]) ELSE 0)
              = (IF Owns(c, one, i) /\ one[i].side = Offers(kind) THEN Locked(one[i]) ELSE 0)
        BY <1>3 DEF Alike, Owns, IsPlaced
      <3> QED BY <3>1 DEF Locks
    <2> QED BY <2>1 DEF LockedBy
  <1>5. \A kind, c : Gains(kind, c, two, log) = Gains(kind, c, one, log)
    BY <1>3, SameGains
  <1>6. Even(stocks, two, log) BY <1>4, <1>5 DEF Settled, Even
  <1>7. Explained(two, log) BY <1>1, <1>2 DEF Settled, Explained, Alike, IsPlaced
  <1>8. Named(two, log) BY <1>2 DEF Settled, Named
  <1> QED BY <1>6, <1>7, <1>8 DEF Settled

LEMMA SameStocksSettled ==
  ASSUME NEW one, NEW two, NEW book, NEW log, \A r \in Stock : one[r] = two[r],
         Settled(one, book, log)
  PROVE  Settled(two, book, log)
  <1>1. \A kind \in Kinds, c \in Country : one[<<kind, c>>] = two[<<kind, c>>]
    BY DEF Kinds, Stock
  <1>2. Even(two, book, log) BY <1>1 DEF Settled, Even, Kinds
  <1> QED BY <1>2 DEF Settled

-----------------------------------------------------------------------------
(* The payments of a turn.                                                 *)

\* A list of one entry, of two and of three.
LEMMA DueOfOne ==
  ASSUME NEW r, NEW x \in Int, NEW row
  PROVE  Due(<< <<r, x>> >>, row) = IF r = row THEN x ELSE 0
  BY DEF Due, Entry

LEMMA DueOfTwo ==
  ASSUME NEW r, NEW s, NEW x \in Int, NEW y \in Int, NEW row
  PROVE  Due(<< <<r, x>>, <<s, y>> >>, row)
           = (IF r = row THEN x ELSE 0) + (IF s = row THEN y ELSE 0)
  <1>1. PICK todo : todo = << <<r, x>>, <<s, y>> >> OBVIOUS
  <1>2. /\ Len(todo) = 2 /\ todo[1][1] = r /\ todo[1][2] = x
        /\ todo[2][1] = s /\ todo[2][2] = y
    BY <1>1
  <1>3. /\ Entry(todo, 1, row) = IF r = row THEN x ELSE 0
        /\ Entry(todo, 2, row) = IF s = row THEN y ELSE 0
        /\ Entry(todo, 3, row) = 0
    BY <1>2 DEF Entry
  <1> QED BY <1>1, <1>3 DEF Due

LEMMA DueOfThree ==
  ASSUME NEW r, NEW s, NEW t, NEW x \in Int, NEW y \in Int, NEW z \in Int, NEW row
  PROVE  Due(<< <<r, x>>, <<s, y>>, <<t, z>> >>, row)
           = (IF r = row THEN x ELSE 0) + (IF s = row THEN y ELSE 0) + (IF t = row THEN z ELSE 0)
  <1>1. PICK todo : todo = << <<r, x>>, <<s, y>>, <<t, z>> >> OBVIOUS
  <1>2. /\ Len(todo) = 3 /\ todo[1][1] = r /\ todo[1][2] = x
        /\ todo[2][1] = s /\ todo[2][2] = y /\ todo[3][1] = t /\ todo[3][2] = z
    BY <1>1
  <1>3. /\ Entry(todo, 1, row) = IF r = row THEN x ELSE 0
        /\ Entry(todo, 2, row) = IF s = row THEN y ELSE 0
        /\ Entry(todo, 3, row) = IF t = row THEN z ELSE 0
    BY <1>2 DEF Entry
  <1> QED BY <1>1, <1>3 DEF Due

LEMMA DueType ==
  ASSUME NEW todo \in Todo, NEW row
  PROVE  Due(todo, row) \in Int
  <1>1. \A n \in Nat \ {0} : n <= Len(todo) => todo[n][2] \in Int
    <2>1. \A n \in DOMAIN todo : todo[n] \in Stock \X Int BY DEF Todo
    <2>2. DOMAIN todo = 1 .. Len(todo) /\ Len(todo) \in Nat BY DEF Todo
    <2> QED BY <2>1, <2>2
  <1>2. \A n \in {1, 2, 3} : Entry(todo, n, row) \in Int BY <1>1 DEF Entry
  <1> QED BY <1>2 DEF Due

\* What is due after the first entry is paid.
LEMMA DueOfTail ==
  ASSUME NEW todo \in Todo, todo # <<>>, Len(todo) <= 3, NEW row
  PROVE  /\ Due(todo, row) = (IF Head(todo)[1] = row THEN Head(todo)[2] ELSE 0)
                               + Due(Tail(todo), row)
         /\ Len(Tail(todo)) <= 3
         /\ \A n \in DOMAIN Tail(todo) : n + 1 \in DOMAIN todo /\ Tail(todo)[n] = todo[n + 1]
  <1>1. PICK left : left = Tail(todo) OBVIOUS
  <1>2. PICK m \in Nat : m = Len(todo) /\ m # 0 BY DEF Todo
  <1>3. /\ Len(left) = m - 1 /\ DOMAIN left = 1 .. m - 1 /\ DOMAIN todo = 1 .. m
        /\ \A n \in 1 .. m - 1 : left[n] = todo[n + 1]
        /\ Head(todo) = todo[1]
    BY <1>1, <1>2 DEF Todo
  <1>4. Entry(todo, 1, row) = IF Head(todo)[1] = row THEN Head(todo)[2] ELSE 0
    BY <1>2, <1>3 DEF Entry
  <1>5. /\ Entry(left, 1, row) = Entry(todo, 2, row)
        /\ Entry(left, 2, row) = Entry(todo, 3, row)
        /\ Entry(left, 3, row) = 0
    BY <1>2, <1>3 DEF Entry
  <1>6. \A n \in {1, 2, 3} : Entry(todo, n, row) \in Int
    <2>1. \A n \in 1 .. m : todo[n] \in Stock \X Int BY <1>2, <1>3 DEF Todo
    <2>2. \A n \in {1, 2, 3} : n <= m => todo[n][2] \in Int BY <1>2, <2>1
    <2> QED BY <1>2, <2>2 DEF Entry
  <1>7. Due(todo, row) = (IF Head(todo)[1] = row THEN Head(todo)[2] ELSE 0) + Due(left, row)
    BY <1>4, <1>5, <1>6 DEF Due
  <1> QED BY <1>1, <1>2, <1>3, <1>7

LEMMA NothingDue == \A row : Due(<<>>, row) = 0
  <1>1. Len(<<>>) = 0 OBVIOUS
  <1> QED BY <1>1 DEF Due, Entry

LEMMA ConcatTwo == \A a, b : <<a>> \o <<b>> = <<a, b>>
  <1> SUFFICES ASSUME NEW a, NEW b PROVE <<a>> \o <<b>> = <<a, b>> OBVIOUS
  <1>1. PICK S : S = {a, b} OBVIOUS
  <1>2. PICK s, t, u : s = <<a>> /\ t = <<b>> /\ u = <<a, b>> OBVIOUS
  <1>3. s \in Seq(S) /\ t \in Seq(S) /\ u \in Seq(S) BY <1>1, <1>2
  <1>4. /\ Len(s) = 1 /\ Len(t) = 1 /\ Len(u) = 2
        /\ s[1] = a /\ t[1] = b /\ u[1] = a /\ u[2] = b
    BY <1>2
  <1>5. /\ s \o t \in Seq(S) /\ Len(s \o t) = 2
        /\ (s \o t)[1] = a /\ (s \o t)[2] = b
    BY <1>3, <1>4, ConcatProperties
  <1>6. \A i \in 1 .. 2 : (s \o t)[i] = u[i] BY <1>4, <1>5
  <1>7. s \o t = u BY <1>3, <1>4, <1>5, <1>6, SeqEqual
  <1> QED BY <1>2, <1>7

LEMMA ConcatThree == \A a, b, c : <<a, b>> \o <<c>> = <<a, b, c>>
  <1> SUFFICES ASSUME NEW a, NEW b, NEW c PROVE <<a, b>> \o <<c>> = <<a, b, c>> OBVIOUS
  <1>1. PICK S : S = {a, b, c} OBVIOUS
  <1>2. PICK s, t, u : s = <<a, b>> /\ t = <<c>> /\ u = <<a, b, c>> OBVIOUS
  <1>3. s \in Seq(S) /\ t \in Seq(S) /\ u \in Seq(S) BY <1>1, <1>2
  <1>4. /\ Len(s) = 2 /\ Len(t) = 1 /\ Len(u) = 3 /\ s[1] = a /\ s[2] = b /\ t[1] = c
        /\ u[1] = a /\ u[2] = b /\ u[3] = c
    BY <1>2
  <1>5. /\ s \o t \in Seq(S) /\ Len(s \o t) = 3
        /\ (s \o t)[1] = a /\ (s \o t)[2] = b /\ (s \o t)[3] = c
    <2>1. PICK v : v = s \o t OBVIOUS
    <2>2. /\ v \in Seq(S) /\ Len(v) = Len(s) + Len(t)
          /\ \A i \in 1 .. Len(s) + Len(t) :
               v[i] = IF i <= Len(s) THEN s[i] ELSE t[i - Len(s)]
      BY <1>3, <2>1, ConcatProperties
    <2>3. v[1] = a /\ v[2] = b BY <1>4, <2>2
    <2>4. v[3] = t[3 - 2] BY <1>4, <2>2
    <2> QED BY <1>4, <2>1, <2>2, <2>3, <2>4
  <1>6. \A i \in 1 .. 3 : (s \o t)[i] = u[i] BY <1>4, <1>5
  <1>7. s \o t = u BY <1>3, <1>4, <1>5, <1>6, SeqEqual
  <1> QED BY <1>2, <1>7

LEMMA ConcatNone == \A a : <<a>> \o <<>> = <<a>>
  <1> SUFFICES ASSUME NEW a PROVE <<a>> \o <<>> = <<a>> OBVIOUS
  <1>1. <<a>> \in Seq({a}) OBVIOUS
  <1> QED BY <1>1, ConcatEmptySeq

\* _match: what each stock gets in a turn, none of it negative.
LEMMA PaymentsDue ==
  ASSUME NEW taker \in Order, NEW maker \in Order, NEW fill \in Nat, Compatible(taker, maker),
         NEW row
  PROVE  LET P == Payments(taker, maker, fill) IN
         /\ taker.side = "BUY" =>
              Due(P, row) = (IF Goods(taker.country) = row THEN fill ELSE 0)
                + (IF Money(taker.country) = row THEN (taker.price - maker.price) * fill ELSE 0)
                + (IF Money(maker.country) = row THEN fill * maker.price ELSE 0)
         /\ taker.side = "SELL" =>
              Due(P, row) = (IF Money(taker.country) = row THEN fill * maker.price ELSE 0)
                + (IF Goods(maker.country) = row THEN fill ELSE 0)
         /\ Len(P) <= 3
         /\ \A n \in DOMAIN P : P[n][2] >= 0
  <1>1. PICK a, b, c, d : /\ a = Goods(taker.country) /\ b = Money(taker.country)
                          /\ c = Money(maker.country) /\ d = Goods(maker.country)
    OBVIOUS
  <1>2. taker.price \in Nat /\ maker.price \in Nat BY PricesOf
  <1>3. PICK back, price : /\ back = (taker.price - maker.price) * fill
                           /\ price = fill * maker.price
    OBVIOUS
  <1>4. PICK diff \in Int : diff = taker.price - maker.price BY <1>2
  <1>5. \A x, y \in Nat : x * y \in Nat /\ 0 * y = 0 OBVIOUS
  <1>6. price \in Nat BY <1>2, <1>3, <1>5
  <1>7. PICK P : P = Payments(taker, maker, fill) OBVIOUS
  <1>8. CASE taker.side = "BUY" /\ maker.price < taker.price
    <2>1. diff \in Nat BY <1>2, <1>4, <1>8
    <2>2. back \in Nat BY <1>3, <1>4, <1>5, <2>1
    <2>3. P = << <<a, fill>> >> \o << <<b, back>> >> \o << <<c, price>> >>
      BY <1>1, <1>3, <1>7, <1>8 DEF Payments
    <2>4. P = << <<a, fill>>, <<b, back>>, <<c, price>> >>
      <3>1. PICK e, f, g : e = <<a, fill>> /\ f = <<b, back>> /\ g = <<c, price>> OBVIOUS
      <3>2. <<e>> \o <<f>> = <<e, f>> BY ConcatTwo
      <3>3. <<e, f>> \o <<g>> = <<e, f, g>> BY ConcatThree
      <3> QED BY <2>3, <3>1, <3>2, <3>3
    <2>5. Due(P, row) = (IF a = row THEN fill ELSE 0) + (IF b = row THEN back ELSE 0)
                          + (IF c = row THEN price ELSE 0)
      BY <1>6, <2>2, <2>4, DueOfThree
    <2>6. Len(P) = 3 /\ \A n \in DOMAIN P : P[n][2] >= 0 BY <1>6, <2>2, <2>4
    <2> QED BY <1>1, <1>3, <1>7, <1>8, <2>5, <2>6
  <1>9. CASE taker.side = "BUY" /\ ~(maker.price < taker.price)
    <2>1. diff = 0 BY <1>2, <1>4, <1>9 DEF Compatible
    <2>2. back = 0 BY <1>3, <1>4, <1>5, <2>1
    <2>3. P = << <<a, fill>> >> \o <<>> \o << <<c, price>> >>
      BY <1>1, <1>3, <1>7, <1>9 DEF Payments
    <2>4. P = << <<a, fill>>, <<c, price>> >> BY <2>3, ConcatNone, ConcatTwo
    <2>5. Due(P, row) = (IF a = row THEN fill ELSE 0) + (IF c = row THEN price ELSE 0)
      BY <1>6, <2>4, DueOfTwo
    <2>6. Len(P) = 2 /\ \A n \in DOMAIN P : P[n][2] >= 0 BY <1>6, <2>4
    <2> QED BY <1>1, <1>3, <1>6, <1>7, <1>9, <2>2, <2>5, <2>6
  <1>10. CASE taker.side = "SELL"
    <2>1. P = << <<b, price>>, <<d, fill>> >> BY <1>1, <1>3, <1>7, <1>10 DEF Payments
    <2>2. Due(P, row) = (IF b = row THEN price ELSE 0) + (IF d = row THEN fill ELSE 0)
      BY <1>6, <2>1, DueOfTwo
    <2>3. Len(P) = 2 /\ \A n \in DOMAIN P : P[n][2] >= 0 BY <1>6, <2>1
    <2> QED BY <1>1, <1>3, <1>7, <1>10, <2>2, <2>3
  <1>11. taker.side \in {"BUY", "SELL"} BY PricesOf
  <1> QED BY <1>8, <1>9, <1>10, <1>11

\* o2 is the order o with x more of it filled.
FilledBy(o, o2, x) ==
  /\ o.status \in Live
  /\ o2.country = o.country /\ o2.side = o.side
  /\ o2.quantity = o.quantity /\ o2.price = o.price
  /\ o2.filled = o.filled + x
  /\ o2.status \in Live \/ o2.filled = o2.quantity

\* It locks less by what the fill was to lock.
LEMMA LessLocked ==
  ASSUME NEW o \in Order, NEW o2 \in Order, NEW x \in Nat, FilledBy(o, o2, x)
  PROVE  /\ Locked(o2) = Locked(o) - LockAmount(o.side, x, o.price)
         /\ Locked(o) \in Int /\ LockAmount(o.side, x, o.price) \in Int
  <1> USE DEF FilledBy
  <1>1. PICK q \in Int, p \in Int, f \in Int : q = o.quantity /\ p = o.price /\ f = o.filled
    BY PricesOf
  <1>2. PICK a \in Int, b \in Int : a = q - f /\ b = q - (f + x) OBVIOUS
  <1>3. b = a - x BY <1>2
  <1>4. b * p = a * p - x * p BY <1>3, Distributes
  <1>5. a * p \in Int /\ x * p \in Int /\ 0 * p = 0 BY Product
  <1>6. Locked(o) = IF o.side = "SELL" THEN a ELSE a * p BY <1>1, <1>2 DEF Locked, LockAmount
  <1>7. Locked(o2) = IF o.side = "SELL" THEN b ELSE b * p
    <2>1. CASE o2.status \in Live BY <1>1, <1>2, <2>1 DEF Locked, LockAmount
    <2>2. CASE o2.status \notin Live
      <3>1. b = 0 BY <1>1, <1>2, <2>2
      <3> QED BY <1>5, <2>2, <3>1 DEF Locked
    <2> QED BY <2>1, <2>2
  <1>8. LockAmount(o.side, x, o.price) = IF o.side = "SELL" THEN x ELSE x * p
    BY <1>1 DEF LockAmount
  <1> QED BY <1>3, <1>4, <1>5, <1>6, <1>7, <1>8

\* The payments of a turn are what the two orders lock less and the trade moves.
LEMMA TurnBalances ==
  ASSUME NEW taker \in Order, NEW maker \in Order, NEW fill \in Nat,
         Compatible(taker, maker), taker.side # maker.side,
         NEW taker2 \in Order, NEW maker2 \in Order,
         FilledBy(taker, taker2, fill), FilledBy(maker, maker2, fill),
         NEW trade \in Trade, trade.quantity = fill, trade.price = maker.price,
         NEW buyer, buyer = IF taker.side = "BUY" THEN taker.country ELSE maker.country,
         NEW seller, seller = IF taker.side = "BUY" THEN maker.country ELSE taker.country,
         NEW kind \in Kinds, NEW c
  PROVE  Due(Payments(taker, maker, fill), <<kind, c>>)
           + (Share(kind, c, taker2) - Share(kind, c, taker))
           + (Share(kind, c, maker2) - Share(kind, c, maker))
           = (IF c = (IF kind = "money" THEN seller ELSE buyer) THEN Moved(kind, trade) ELSE 0)
             - (IF c = (IF kind = "money" THEN buyer ELSE seller) THEN Moved(kind, trade) ELSE 0)
  <1>1. PICK p \in Int, s \in Int : p = taker.price /\ s = maker.price BY PricesOf
  <1>2. PICK px \in Int, sx \in Int : px = fill * p /\ sx = fill * s
    BY Product
  <1>3. (p - s) * fill = px - sx BY <1>1, <1>2, Distributes, Product
  <1>4. \A o \in Order : o # Absent /\ Locked(o) \in Int
    BY LockedType DEF Order, Absent
  <1>5. PICK a \in Int : a = LockAmount(taker.side, fill, taker.price)
                         /\ Locked(taker2) = Locked(taker) - a
    BY LessLocked
  <1>6. PICK b \in Int : b = LockAmount(maker.side, fill, maker.price)
                         /\ Locked(maker2) = Locked(maker) - b
    BY LessLocked
  <1>7. Share(kind, c, taker2) - Share(kind, c, taker)
          = IF taker.country = c /\ taker.side = Offers(kind) THEN -a ELSE 0
    BY <1>4, <1>5 DEF Share, FilledBy
  <1>8. Share(kind, c, maker2) - Share(kind, c, maker)
          = IF maker.country = c /\ maker.side = Offers(kind) THEN -b ELSE 0
    BY <1>4, <1>6 DEF Share, FilledBy
  <1>9. taker.side \in {"BUY", "SELL"} /\ maker.side \in {"BUY", "SELL"} BY PricesOf
  <1>10. /\ \A d : Goods(d) = <<kind, c>> <=> kind = "goods" /\ d = c
         /\ \A d : Money(d) = <<kind, c>> <=> kind = "money" /\ d = c
    BY DEF Goods, Money
  <1>11. PICK due : due = Due(Payments(taker, maker, fill), <<kind, c>>) OBVIOUS
  <1>12. Moved(kind, trade) = IF kind = "money" THEN sx ELSE fill
    BY <1>1, <1>2 DEF Moved
  <1>13. PICK da, db, moved : /\ da = Share(kind, c, taker2) - Share(kind, c, taker)
                              /\ db = Share(kind, c, maker2) - Share(kind, c, maker)
                              /\ moved = Moved(kind, trade)
    OBVIOUS
  <1>14. CASE taker.side = "BUY"
    <2>1. due = (IF kind = "goods" /\ taker.country = c THEN fill ELSE 0)
                + (IF kind = "money" /\ taker.country = c THEN px - sx ELSE 0)
                + (IF kind = "money" /\ maker.country = c THEN sx ELSE 0)
      <3>1. due = (IF Goods(taker.country) = <<kind, c>> THEN fill ELSE 0)
                  + (IF Money(taker.country) = <<kind, c>>
                     THEN (taker.price - maker.price) * fill ELSE 0)
                  + (IF Money(maker.country) = <<kind, c>> THEN fill * maker.price ELSE 0)
        BY <1>11, <1>14, PaymentsDue
      <3> QED BY <1>1, <1>2, <1>3, <1>10, <3>1
    <2>2. a = px /\ b = fill /\ maker.side = "SELL"
      BY <1>1, <1>2, <1>5, <1>6, <1>9, <1>14 DEF LockAmount
    <2>3. CASE kind = "money"
      BY <1>7, <1>8, <1>11, <1>12, <1>13, <1>14, <2>1, <2>2, <2>3 DEF Offers
    <2>4. CASE kind = "goods"
      BY <1>7, <1>8, <1>11, <1>12, <1>13, <1>14, <2>1, <2>2, <2>4 DEF Offers
    <2> QED BY <2>3, <2>4 DEF Kinds
  <1>15. CASE taker.side = "SELL"
    <2>1. due = (IF kind = "money" /\ taker.country = c THEN sx ELSE 0)
                + (IF kind = "goods" /\ maker.country = c THEN fill ELSE 0)
      <3>1. due = (IF Money(taker.country) = <<kind, c>> THEN fill * maker.price ELSE 0)
                  + (IF Goods(maker.country) = <<kind, c>> THEN fill ELSE 0)
        BY <1>11, <1>15, PaymentsDue
      <3> QED BY <1>1, <1>2, <1>10, <3>1
    <2>2. a = fill /\ b = sx /\ maker.side = "BUY"
      BY <1>1, <1>2, <1>5, <1>6, <1>9, <1>15 DEF LockAmount
    <2>3. CASE kind = "money"
      <3>1. da = 0 BY <1>7, <1>15, <1>13, <2>3 DEF Offers
      <3>2. db = IF maker.country = c THEN -sx ELSE 0 BY <1>8, <1>13, <2>2, <2>3 DEF Offers
      <3>3. due = IF taker.country = c THEN sx ELSE 0 BY <2>1, <2>3
      <3>4. seller = taker.country /\ buyer = maker.country /\ moved = sx
        BY <1>12, <1>15, <1>13, <2>3
      <3>5. due + da + db = (IF c = seller THEN moved ELSE 0) - (IF c = buyer THEN moved ELSE 0)
        BY <3>1, <3>2, <3>3, <3>4
      <3> QED BY <1>11, <1>13, <2>3, <3>5
    <2>4. CASE kind = "goods"
      <3>1. db = 0 BY <1>8, <1>13, <2>2, <2>4 DEF Offers
      <3>2. da = IF taker.country = c THEN -fill ELSE 0
        BY <1>7, <1>15, <1>13, <2>2, <2>4 DEF Offers
      <3>3. due = IF maker.country = c THEN fill ELSE 0 BY <2>1, <2>4
      <3>4. seller = taker.country /\ buyer = maker.country /\ moved = fill
        BY <1>12, <1>15, <1>13, <2>4
      <3>5. due + da + db = (IF c = buyer THEN moved ELSE 0) - (IF c = seller THEN moved ELSE 0)
        BY <3>1, <3>2, <3>3, <3>4
      <3> QED BY <1>11, <1>13, <2>4, <3>5
    <2> QED BY <2>3, <2>4 DEF Kinds
  <1> QED BY <1>9, <1>14, <1>15

-----------------------------------------------------------------------------
(* What a step does to the accounts of its request: rows and log are those *)
(* before it, rows2 those after it, R and new the request.                 *)

RowsTyped(rows) ==
  /\ \A r \in Stock : rows[r] \in Nat
  /\ \A i \in OrderId : rows[OrderOf(i)] \in Order \cup {Absent}

LEMMA BookTypes ==
  ASSUME NEW rows, RowsTyped(rows), NEW R \in Request
  PROVE  BookOf(rows) \in Books /\ BookWith(rows, R) \in Books
  <1>1. R.order \in Order BY DEF Request
  <1> QED BY <1>1 DEF BookOf, BookWith, Books, RowsTyped

LEMMA LogTypes ==
  ASSUME NEW log \in Seq(Trade), NEW R \in Request
  PROVE  log \o R.traded \in Seq(Trade)
  BY DEF Request

\* The parts of Settled that a step leaves alone.
LEMMA StaysSettled ==
  ASSUME NEW rows, NEW rows2, NEW log, NEW R, NEW new,
         Settled(StocksOf(rows, R), BookWith(rows, R), log \o R.traded),
         \A r \in Stock : rows2[r] - Paid(new, r) = rows[r] - Paid(R, r),
         BookWith(rows2, new) = BookWith(rows, R), new.traded = R.traded
  PROVE  Settled(StocksOf(rows2, new), BookWith(rows2, new), log \o new.traded)
  <1>1. \A r \in Stock : StocksOf(rows, R)[r] = StocksOf(rows2, new)[r] BY DEF StocksOf
  <1> QED BY <1>1, SameStocksSettled

LEMMA SameBill ==
  ASSUME NEW R, NEW new, new.then = R.then, new.order = R.order, new.known = R.known,
         new.maker = R.maker, new.fill = R.fill
  PROVE  Bill(new) = Bill(R)
  BY DEF Bill

\* A request that begins, with the bill it has to pay.
LEMMA BeginAccounted ==
  ASSUME NEW rows, RowsTyped(rows), NEW log \in Seq(Trade), Settled(rows, BookOf(rows), log),
         NEW new \in Request, new.pc = "adjust", new.then \in {"insert", "cancel"},
         new.traded = <<>>, NEW r \in Stock, NEW x \in Int, new.todo = << <<r, x>> >>,
         Bill(new) = new.todo,
         IF new.then = "insert" THEN rows[r] + x >= 0
         ELSE x >= 0 /\ new.order = rows[OrderOf(new.id)]
  PROVE  Accounted(rows, log, new)
  <1>1. Unwritten(new) /\ Adjusting(new) /\ ~InMatch(new)
    BY DEF Unwritten, Before, Cancelling, Adjusting, InMatch, Paying
  <1>2. new.todo \in Todo BY DEF Request
  <1>3. \A s \in Stock : Paid(new, s) = 0
    <2>1. \A s \in Stock : Due(new.todo, s) \in Int BY <1>2, DueType
    <2> QED BY <1>1, <2>1 DEF Paid
  <1>4. \A s \in Stock : rows[s] = StocksOf(rows, new)[s]
    BY <1>3 DEF StocksOf, RowsTyped
  <1>5. BookWith(rows, new) = BookOf(rows) BY <1>1 DEF BookWith, BookOf
  <1>6. log \o new.traded = log BY ConcatEmptySeq
  <1>7. Settled(StocksOf(rows, new), BookWith(rows, new), log \o new.traded)
    BY <1>4, <1>5, <1>6, SameStocksSettled
  <1>8. Payable(rows, new)
    <2>1. Len(new.todo) = 1 /\ DOMAIN new.todo = {1} /\ new.todo[1][1] = r /\ new.todo[1][2] = x
      OBVIOUS
    <2> QED BY <2>1 DEF Payable
  <1>9. Cancelling(new) => new.order = rows[OrderOf(new.id)] BY DEF Cancelling, Adjusting
  <1>10. Bill(new) \in Todo /\ new.pc \notin {"insert", "maker", "cancel"} BY <1>2
  <1>11. ~Paying(new) BY DEF Paying
  <1> QED BY <1>1, <1>7, <1>8, <1>9, <1>10, <1>11 DEF Accounted

LEMMA SelectAccounted ==
  ASSUME NEW rows, NEW log, NEW R \in Request, Accounted(rows, log, R),
         R.pc = "adjust", R.todo # <<>>,
         NEW new, new.pc = "write", new.then = R.then, new.todo = R.todo,
         new.order = R.order, new.id = R.id, new.known = R.known, new.maker = R.maker,
         new.fill = R.fill, new.traded = R.traded, new.seen = rows[Head(R.todo)[1]]
  PROVE  Accounted(rows, log, new)
  <1>1. /\ Unwritten(new) <=> Unwritten(R)
        /\ InMatch(new) <=> InMatch(R)
        /\ Cancelling(new) <=> Cancelling(R)
        /\ Paying(new) <=> Paying(R)
        /\ Adjusting(new) /\ Adjusting(R)
    BY DEF Unwritten, InMatch, Cancelling, Before, Paying, Adjusting
  <1>2. Bill(new) = Bill(R) BY SameBill
  <1>3. \A r : Paid(new, r) = Paid(R, r) BY <1>1, <1>2 DEF Paid
  <1>4. BookWith(rows, new) = BookWith(rows, R) BY <1>1 DEF BookWith
  <1>5. Settled(StocksOf(rows, new), BookWith(rows, new), log \o new.traded)
    BY <1>3, <1>4, StaysSettled DEF Accounted
  <1>6. Payable(rows, new)
    <2>1. Head(R.todo) = R.todo[1] BY DEF Request, Todo
    <2> QED BY <1>1, <2>1 DEF Payable, Accounted
  <1> QED BY <1>1, <1>2, <1>5, <1>6 DEF Accounted

\* The row r is written, and nothing else.
Wrote(rows, rows2, r, v) == rows2[r] = v /\ \A x \in Row : x # r => rows2[x] = rows[x]

\* What adjust leaves alone of a request.
Kept(R, new) ==
  /\ new.then = R.then /\ new.order = R.order /\ new.id = R.id /\ new.known = R.known
  /\ new.maker = R.maker /\ new.fill = R.fill /\ new.traded = R.traded

LEMMA UpdateAccounted ==
  ASSUME NEW rows, RowsTyped(rows), NEW log, NEW R \in Request, Accounted(rows, log, R),
         R.pc = "write", R.todo # <<>>, Cancelling(R) => R.id \in OrderId,
         NEW rows2, NEW r, NEW v, Wrote(rows, rows2, r, v),
         r = Head(R.todo)[1], v = NotBelowZero(R.seen + Head(R.todo)[2]),
         NEW new, Kept(R, new), new.todo = Tail(R.todo),
         new.pc = IF new.todo = <<>> THEN R.then ELSE "adjust"
  PROVE  Accounted(rows2, log, new)
  <1> USE DEF Wrote, Kept
  <1>1. R.then \in {"insert", "maker", "cancel"} /\ R.todo \in Todo BY DEF Request
  <1>2. /\ Adjusting(R) /\ Unwritten(R) /\ Unwritten(new)
        /\ InMatch(new) <=> InMatch(R)
        /\ Cancelling(new) <=> Cancelling(R)
        /\ Paying(new) <=> Paying(R)
        /\ R.pc # "snapshot" /\ new.pc # "snapshot"
    BY <1>1 DEF Unwritten, InMatch, Cancelling, Before, Paying, Adjusting
  <1>3. PICK d \in Int : d = Head(R.todo)[2] BY TodoTypes
  <1>4. r \in Stock /\ r \in Row /\ rows[r] \in Nat
    BY TodoTypes, RowTypes DEF RowsTyped
  <1>5. /\ Payable(rows, R) /\ Bill(R) \in Todo
        /\ Settled(StocksOf(rows, R), BookWith(rows, R), log \o R.traded)
    BY <1>2 DEF Accounted
  <1>6. Head(R.todo) = R.todo[1] /\ 1 \in DOMAIN R.todo BY <1>1 DEF Todo
  <1>7. R.seen = rows[r] /\ rows[r] + d >= 0
    BY <1>1, <1>2, <1>3, <1>4, <1>5, <1>6 DEF Payable
  <1>8. rows2[r] = rows[r] + d BY <1>3, <1>4, <1>7 DEF NotBelowZero
  <1>9. PICK left : left = Tail(R.todo) OBVIOUS
  <1>10. left \in Todo BY <1>9, TodoTypes
  <1>11. ASSUME NEW x \in Stock PROVE rows2[x] - Paid(new, x) = rows[x] - Paid(R, x)
    <2>1. PICK b \in Int, e \in Int : b = Due(Bill(R), x) /\ e = Due(left, x)
      BY <1>5, <1>10, DueType
    <2>2. Due(R.todo, x) = (IF r = x THEN d ELSE 0) + e
      BY <1>1, <1>3, <1>5, <1>9, <2>1, DueOfTail DEF Payable
    <2>3. Bill(new) = Bill(R) BY SameBill
    <2>4. Paid(new, x) = b - e BY <1>2, <1>9, <2>1, <2>3 DEF Paid
    <2>5. Paid(R, x) = b - ((IF r = x THEN d ELSE 0) + e) BY <1>2, <2>1, <2>2 DEF Paid
    <2>6. rows[x] \in Nat /\ x \in Row BY RowTypes DEF RowsTyped
    <2>7. rows2[x] = rows[x] + (IF r = x THEN d ELSE 0) BY <1>8, <2>6
    <2> QED BY <2>1, <2>4, <2>5, <2>6, <2>7
  <1>12. \A i \in OrderId : rows2[OrderOf(i)] = rows[OrderOf(i)]
    BY <1>4, RowTypes
  <1>13. BookWith(rows2, new) = BookWith(rows, R) BY <1>2, <1>12 DEF BookWith
  <1>14. Settled(StocksOf(rows2, new), BookWith(rows2, new), log \o new.traded)
    <2>1. \A x \in Stock : rows2[x] - Paid(new, x) = rows[x] - Paid(R, x) BY <1>11
    <2>2. \A x \in Stock : StocksOf(rows, R)[x] = StocksOf(rows2, new)[x]
      BY <2>1 DEF StocksOf
    <2>3. Settled(StocksOf(rows2, new), BookWith(rows, R), log \o R.traded)
      BY <1>5, <2>2, SameStocksSettled
    <2> QED BY <1>13, <2>3
  <1>15. Payable(rows2, new)
    <2>1. /\ Len(left) <= 3
          /\ \A n \in DOMAIN left : n + 1 \in DOMAIN R.todo /\ left[n] = R.todo[n + 1]
      BY <1>1, <1>5, <1>9, DueOfTail DEF Payable
    <2>2. CASE R.then = "insert"
      <3>1. Len(R.todo) = 1 BY <1>2, <1>5, <2>2 DEF Payable
      <3>2. left = <<>>
        <4>1. Len(left) = 0 BY <1>1, <1>9, <3>1 DEF Todo
        <4> QED BY <1>10, <4>1, EmptySeq DEF Todo
      <3> QED BY <1>9, <2>1, <2>2, <3>2 DEF Payable, Adjusting
    <2>3. CASE R.then # "insert"
      <3>1. \A n \in DOMAIN R.todo : R.todo[n][2] >= 0 BY <1>2, <1>5, <2>3 DEF Payable
      <3>2. \A n \in DOMAIN left : left[n][2] >= 0 BY <2>1, <3>1
      <3>3. new.pc # "write" BY <1>1
      <3> QED BY <1>9, <2>1, <2>3, <3>2, <3>3 DEF Payable
    <2> QED BY <2>2, <2>3
  <1>16. ~Adjusting(new) => new.todo = <<>> BY DEF Adjusting
  <1>17. new.pc \in {"insert", "maker", "cancel"} => new.then = new.pc OBVIOUS
  <1>18. InMatch(new) => new.order.status = "OPEN" BY <1>2 DEF Accounted
  <1>19. Cancelling(new) => new.order = rows2[OrderOf(new.id)]
    <2> SUFFICES ASSUME Cancelling(new) PROVE new.order = rows2[OrderOf(new.id)] OBVIOUS
    <2>1. R.order = rows[OrderOf(R.id)] BY <1>2 DEF Accounted
    <2>2. R.id \in OrderId BY <1>2
    <2> QED BY <1>12, <2>1, <2>2
  <1>20. Bill(new) \in Todo BY <1>5, SameBill
  <1>21. Paying(new) => Compatible(new.order, new.known[new.maker])
    BY <1>2 DEF Accounted
  <1> QED BY <1>14, <1>15, <1>16, <1>17, <1>18, <1>19, <1>20, <1>21 DEF Accounted

\* The accounts of a request with nothing left to adjust.
LEMMA DoneAccounted ==
  ASSUME NEW rows, NEW log, NEW new,
         Settled(StocksOf(rows, new), BookWith(rows, new), log \o new.traded),
         new.todo = <<>>, new.pc \in {"snapshot", "match", "commit"},
         InMatch(new) => new.order.status = "OPEN"
  PROVE  Accounted(rows, log, new)
  <1>1. Len(new.todo) = 0 OBVIOUS
  <1>2. ~Adjusting(new) /\ ~Cancelling(new) /\ ~Unwritten(new) /\ ~Paying(new)
    BY DEF Adjusting, Unwritten, Before, Paying, Cancelling
  <1>3. Payable(rows, new) BY <1>1, <1>2 DEF Payable
  <1> QED BY <1>2, <1>3 DEF Accounted

\* A log that names no order of an identifier has traded nothing of it.
LEMMA NotTraded ==
  ASSUME NEW log \in Seq(Trade), NEW i,
         \A n \in DOMAIN log : log[n].buy # i /\ log[n].sell # i
  PROVE  Traded(i, log) = 0
  <1>1. PICK f, g, m : /\ m = Len(log)
                       /\ f = [n \in 1 .. m |->
                                 IF i \in {log[n].buy, log[n].sell} THEN log[n].quantity ELSE 0]
                       /\ g = [n \in 1 .. m |-> 0]
    OBVIOUS
  <1>2. m \in Nat /\ DOMAIN log = 1 .. m BY <1>1
  <1>3. \A n \in 1 .. m : f[n] = g[n] BY <1>1, <1>2
  <1>4. SumTo(f, m) = SumTo(g, m) BY <1>2, <1>3, SumSame
  <1>5. SumTo(g, m) = 0
    <2> DEFINE T == {j \in Nat : j <= m => SumTo(g, j) = 0}
    <2>1. 0 \in T BY SumSteps
    <2>2. ASSUME NEW j \in T PROVE j + 1 \in T
      <3> SUFFICES ASSUME j + 1 <= m PROVE SumTo(g, j + 1) = 0 OBVIOUS
      <3>1. SumTo(g, j) = 0 BY <1>2
      <3>2. g[j + 1] = 0 BY <1>1, <1>2
      <3>3. SumTo(g, j + 1) = SumTo(g, j) + g[j + 1] BY SumSteps
      <3> QED BY <3>1, <3>2, <3>3
    <2> HIDE DEF T
    <2>3. T = Nat BY <2>1, <2>2, SetInduction DEF T
    <2> QED BY <1>2, <2>3 DEF T
  <1> QED BY <1>1, <1>2, <1>4, <1>5 DEF Traded

LEMMA LockRowIs ==
  ASSUME NEW order \in Order, NEW kind \in Kinds, NEW c
  PROVE  LockRow(order.side, order.country) = <<kind, c>>
           <=> order.country = c /\ order.side = Offers(kind)
  <1>1. order.side \in {"BUY", "SELL"} BY PricesOf
  <1> QED BY <1>1 DEF LockRow, Goods, Money, Offers, Kinds

\* repo.create: the order is in the book, with what it offers locked.
LEMMA InsertAccounted ==
  ASSUME NEW rows, RowsTyped(rows), NEW log \in Seq(Trade), NEW R \in Request,
         Accounted(rows, log, R), R.pc = "insert",
         R.order.status = "OPEN", R.order.filled = 0,
         NEW i \in OrderId, rows[OrderOf(i)] = Absent, i \notin DOMAIN Book,
         NEW rows2, RowsTyped(rows2), rows2[OrderOf(i)] = R.order,
         \A x \in Row : x # OrderOf(i) => rows2[x] = rows[x],
         NEW new \in Request, new.pc = "snapshot", new.id = i, new.order = R.order,
         new.todo = R.todo, new.traded = R.traded
  PROVE  Accounted(rows2, log, new)
  <1>1. R.then = "insert" /\ R.todo = <<>> BY DEF Accounted, Adjusting
  <1>2. Unwritten(R) /\ ~Unwritten(new) /\ ~InMatch(R) /\ ~InMatch(new)
    BY DEF Unwritten, Before, Paying, Cancelling, InMatch, Adjusting
  <1>3. PICK order : order = R.order /\ order \in Order BY DEF Request
  <1>4. PICK one, two : one = BookWith(rows, R) /\ two = BookWith(rows2, new) OBVIOUS
  <1>5. one \in Books /\ two \in Books BY <1>4, BookTypes
  <1>6. \A j \in OrderId : j # i => OrderOf(j) # OrderOf(i) /\ OrderOf(j) \in Row
    BY RowTypes
  <1>7. /\ one[i] = Absent /\ two[i] = order
        /\ \A j \in OrderId : j # i => one[j] = two[j]
    BY <1>2, <1>3, <1>4, <1>6 DEF BookWith
  <1>8. order # Absent BY <1>3 DEF Order, Absent
  <1>9. PICK all \in Seq(Trade) : all = log \o R.traded BY LogTypes
  <1>10. Settled(StocksOf(rows, R), one, all) BY <1>4, <1>9 DEF Accounted
  <1>11. DOMAIN one = OrderId /\ DOMAIN two = OrderId BY <1>5 DEF Books
  <1>12. \A n \in DOMAIN all : /\ all[n].buy \in OrderId \ {i} /\ all[n].sell \in OrderId \ {i}
                               /\ one[all[n].buy] # Absent /\ one[all[n].sell] # Absent
    BY <1>7, <1>10 DEF Settled, Named, IsPlaced
  <1>13. \A kind, c : Gains(kind, c, two, all) = Gains(kind, c, one, all)
    <2>1. \A c, n : n \in DOMAIN all =>
            /\ Owns(c, one, all[n].buy) <=> Owns(c, two, all[n].buy)
            /\ Owns(c, one, all[n].sell) <=> Owns(c, two, all[n].sell)
      BY <1>7, <1>11, <1>12 DEF Owns, IsPlaced
    <2> QED BY <2>1, SameGains
  <1>14. Even(StocksOf(rows2, new), two, all)
    <2> SUFFICES ASSUME NEW kind \in Kinds, NEW c \in Country
                 PROVE  StocksOf(rows2, new)[<<kind, c>>] + LockedBy(kind, c, two)
                          = Opening[kind][c] + LockedBy(kind, c, Book) + Gains(kind, c, two, all)
      BY DEF Even, Kinds
    <2>1. PICK r \in Stock : r = <<kind, c>> BY DEF Stock, Kinds
    <2>2. r \in Row /\ r # OrderOf(i) /\ rows[r] \in Nat BY RowTypes DEF RowsTyped
    <2>3. rows2[r] = rows[r] BY <2>2
    <2>4. PICK amount : amount = LockAmount(order.side, order.quantity, order.price) OBVIOUS
    <2>5. amount \in Int /\ Locked(order) = amount
      <3>1. /\ order.side \in {"BUY", "SELL"} /\ order.quantity \in Nat /\ order.price \in Nat
            /\ order.country \in Country
        BY <1>3 DEF Order
      <3>2. order.quantity - order.filled = order.quantity BY <1>3, <3>1
      <3>3. Locked(order) = amount BY <1>3, <2>4, <3>2 DEF Locked, Live
      <3>4. Locked(order) \in Int BY <1>3, LockedType
      <3> QED BY <3>3, <3>4
    <2>6. StocksOf(rows2, new)[r] = rows[r] BY <1>2, <2>2, <2>3 DEF StocksOf, Paid
    <2>7. Due(Bill(R), r)
            = IF LockRow(order.side, order.country) = r THEN -amount ELSE 0
      <3>1. Bill(R) = << <<LockRow(order.side, order.country), -amount>> >>
        BY <1>1, <1>3, <2>4 DEF Bill
      <3>2. -amount \in Int BY <2>5
      <3> QED BY <3>1, <3>2, DueOfOne
    <2>8. StocksOf(rows, R)[r]
            = rows[r] + (IF LockRow(order.side, order.country) = r THEN amount ELSE 0)
      BY <1>1, <1>2, <2>2, <2>5, <2>7, NothingDue DEF StocksOf, Paid
    <2>9. Share(kind, c, order) = IF LockRow(order.side, order.country) = r THEN amount ELSE 0
      <3>1. LockRow(order.side, order.country) = r
              <=> order.country = c /\ order.side = Offers(kind)
        BY <1>3, <2>1, LockRowIs
      <3> QED BY <1>8, <2>5, <3>1 DEF Share
    <2>10. LockedBy(kind, c, two) = LockedBy(kind, c, one) + Share(kind, c, order)
      <3>1. LockedBy(kind, c, two)
              = LockedBy(kind, c, one) - Share(kind, c, one[i]) + Share(kind, c, two[i])
        BY <1>5, <1>7, LockChanges
      <3>2. Share(kind, c, one[i]) = 0 BY <1>7 DEF Share
      <3>3. LockedBy(kind, c, one) \in Int BY <1>5, LockedByType
      <3> QED BY <1>7, <3>1, <3>2, <3>3
    <2>11. StocksOf(rows, R)[r] + LockedBy(kind, c, one)
             = Opening[kind][c] + LockedBy(kind, c, Book) + Gains(kind, c, one, all)
      BY <1>10, <2>1 DEF Settled, Even, Kinds
    <2>12. LockedBy(kind, c, one) \in Int BY <1>5, LockedByType
    <2>13. StocksOf(rows2, new)[r] + LockedBy(kind, c, two)
             = StocksOf(rows, R)[r] + LockedBy(kind, c, one)
      BY <2>2, <2>5, <2>6, <2>8, <2>9, <2>10, <2>12
    <2> QED BY <1>13, <2>1, <2>11, <2>13
  <1>15. Explained(two, all)
    <2>1. Traded(i, all) = 0 BY <1>12, NotTraded
    <2>2. two[i].filled = FilledBefore(i) + Traded(i, all)
      BY <1>3, <1>7, <2>1 DEF FilledBefore
    <2>3. \A j \in OrderId \ {i} : IsPlaced(two, j) <=> IsPlaced(one, j)
      BY <1>7, <1>11 DEF IsPlaced
    <2>4. \A j \in OrderId \ {i} : IsPlaced(two, j) =>
            two[j].filled = FilledBefore(j) + Traded(j, all)
      BY <1>7, <1>10, <2>3 DEF Settled, Explained
    <2> QED BY <2>2, <2>4 DEF Explained
  <1>16. Named(two, all) BY <1>7, <1>11, <1>12 DEF Named, IsPlaced
  <1>17. Settled(StocksOf(rows2, new), BookWith(rows2, new), log \o new.traded)
    BY <1>4, <1>9, <1>14, <1>15, <1>16 DEF Settled
  <1> QED BY <1>1, <1>2, <1>17, DoneAccounted

LEMMA SnapshotAccounted ==
  ASSUME NEW rows, NEW log, NEW R, Accounted(rows, log, R), R.pc = "snapshot",
         R.order.status = "OPEN",
         NEW new, new.pc = "match", new.id = R.id, new.order = R.order,
         new.todo = R.todo, new.traded = R.traded
  PROVE  Accounted(rows, log, new)
  <1>1. ~Unwritten(R) /\ ~Unwritten(new) /\ InMatch(new) /\ R.todo = <<>>
    BY DEF Unwritten, Before, Paying, Cancelling, InMatch, Adjusting, Accounted
  <1>2. BookWith(rows, new) = BookWith(rows, R) BY <1>1 DEF BookWith
  <1>3. StocksOf(rows, new) = StocksOf(rows, R) BY <1>1 DEF StocksOf, Paid
  <1>4. Settled(StocksOf(rows, new), BookWith(rows, new), log \o new.traded)
    BY <1>2, <1>3 DEF Accounted
  <1> QED BY <1>1, <1>4, DoneAccounted

\* A turn of the loop begins: nothing of it is paid.
LEMMA SettleAccounted ==
  ASSUME NEW rows, NEW log, NEW R, Accounted(rows, log, R), R.pc = "match",
         NEW new, new.pc = "adjust", new.then = "maker", new.id = R.id,
         new.order = R.order, new.traded = R.traded, new.todo \in Todo,
         new.todo = Bill(new), Len(new.todo) <= 3,
         \A n \in DOMAIN new.todo : new.todo[n][2] >= 0,
         Compatible(new.order, new.known[new.maker])
  PROVE  Accounted(rows, log, new)
  <1>1. /\ ~Unwritten(R) /\ Unwritten(new) /\ InMatch(R) /\ InMatch(new) /\ Adjusting(new)
        /\ ~Cancelling(new)
    BY DEF Unwritten, Before, Paying, Cancelling, InMatch, Adjusting
  <1>2. BookWith(rows, new) = BookWith(rows, R) BY <1>1 DEF BookWith
  <1>3. \A r : Paid(new, r) = Paid(R, r)
    <2>1. \A r : Due(new.todo, r) \in Int BY DueType
    <2> QED BY <1>1, <2>1 DEF Paid
  <1>4. StocksOf(rows, new) = StocksOf(rows, R) BY <1>3 DEF StocksOf
  <1>5. Settled(StocksOf(rows, new), BookWith(rows, new), log \o new.traded)
    BY <1>2, <1>4 DEF Accounted
  <1>6. Payable(rows, new) BY DEF Payable
  <1> QED BY <1>1, <1>5, <1>6 DEF Accounted

LEMMA OpeningLocksType ==
  ASSUME NEW kind, NEW c
  PROVE  LockedBy(kind, c, Book) \in Int
  <1>1. PICK f : f = Locks(kind, c, Book) OBVIOUS
  <1>2. \A i \in DOMAIN Book : Book[i] \in Order BY BookAssumption
  <1>3. \A i \in 1 .. MaxOrders : f[i] \in Int
    BY <1>1, <1>2, LockedType DEF Locks, Owns, IsPlaced, OrderId
  <1>4. SumTo(f, MaxOrders) \in Int BY <1>3, SumType
  <1> QED BY <1>1, <1>4 DEF LockedBy

LEMMA OrderIsThere == \A o \in Order : o # Absent BY DEF Order, Absent

\* Two orders of the book change.
LEMMA TwoLocksChange ==
  ASSUME NEW one \in Books, NEW two \in Books, NEW kind, NEW c,
         NEW i \in OrderId, NEW j \in OrderId, i # j,
         \A k \in OrderId : k # i /\ k # j => one[k] = two[k]
  PROVE  LockedBy(kind, c, two)
           = LockedBy(kind, c, one) + (Share(kind, c, two[i]) - Share(kind, c, one[i]))
               + (Share(kind, c, two[j]) - Share(kind, c, one[j]))
  <1>1. PICK mid : mid = [k \in OrderId |-> IF k = i THEN two[i] ELSE one[k]] OBVIOUS
  <1>2. mid \in Books BY <1>1 DEF Books
  <1>3. /\ mid[i] = two[i] /\ mid[j] = one[j]
        /\ \A k \in OrderId : k # i => one[k] = mid[k]
        /\ \A k \in OrderId : k # j => mid[k] = two[k]
    BY <1>1
  <1>4. LockedBy(kind, c, mid)
          = LockedBy(kind, c, one) - Share(kind, c, one[i]) + Share(kind, c, mid[i])
    BY <1>2, <1>3, LockChanges
  <1>5. LockedBy(kind, c, two)
          = LockedBy(kind, c, mid) - Share(kind, c, mid[j]) + Share(kind, c, two[j])
    BY <1>2, <1>3, LockChanges
  <1>6. LockedBy(kind, c, one) \in Int BY LockedByType
  <1>7. \A k \in OrderId : Share(kind, c, one[k]) \in Int /\ Share(kind, c, two[k]) \in Int
    BY LocksOf
  <1>8. PICK a, a2, b, b2 : /\ a = Share(kind, c, one[i]) /\ a2 = Share(kind, c, two[i])
                            /\ b = Share(kind, c, one[j]) /\ b2 = Share(kind, c, two[j])
    OBVIOUS
  <1>9. a \in Int /\ a2 \in Int /\ b \in Int /\ b2 \in Int BY <1>7, <1>8
  <1> QED BY <1>3, <1>4, <1>5, <1>6, <1>8, <1>9

\* Fills change nobody's orders.
LEMMA SameOwners ==
  ASSUME NEW one \in Books, NEW two \in Books,
         \A k \in OrderId : one[k] = two[k] \/ (/\ one[k] \in Order /\ two[k] \in Order
                                                /\ one[k].country = two[k].country)
  PROVE  /\ \A k : IsPlaced(one, k) <=> IsPlaced(two, k)
         /\ \A c, k : Owns(c, one, k) <=> Owns(c, two, k)
  <1>1. \A o \in Order : o # Absent BY OrderIsThere
  <1>2. DOMAIN one = OrderId /\ DOMAIN two = OrderId BY DEF Books
  <1> QED BY <1>1, <1>2 DEF IsPlaced, Owns

LEMMA MoreIsNamed ==
  ASSUME NEW one, NEW two, \A k : IsPlaced(one, k) <=> IsPlaced(two, k),
         NEW log \in Seq(Trade), Named(one, log), NEW trade \in Trade,
         IsPlaced(one, trade.buy), IsPlaced(one, trade.sell)
  PROVE  Named(two, Append(log, trade))
  <1>1. PICK longer : longer = Append(log, trade) OBVIOUS
  <1>2. /\ DOMAIN longer = 1 .. Len(log) + 1 /\ longer[Len(log) + 1] = trade
        /\ \A n \in 1 .. Len(log) : n \in DOMAIN log /\ longer[n] = log[n]
        /\ Len(log) \in Nat
    BY <1>1
  <1>3. \A n \in DOMAIN longer : n \in 1 .. Len(log) \/ n = Len(log) + 1 BY <1>2
  <1>4. trade.buy \in OrderId /\ trade.sell \in OrderId BY DEF Trade
  <1>5. ASSUME NEW n \in DOMAIN longer
        PROVE  /\ longer[n].buy \in OrderId /\ IsPlaced(two, longer[n].buy)
               /\ longer[n].sell \in OrderId /\ IsPlaced(two, longer[n].sell)
    <2>1. CASE n \in 1 .. Len(log) BY <1>2, <2>1 DEF Named
    <2>2. CASE n = Len(log) + 1 BY <1>2, <1>4, <2>2
    <2> QED BY <1>3, <2>1, <2>2
  <1> QED BY <1>1, <1>5 DEF Named

\* The trade is what its two orders are filled more in two than in one.
FilledMore(one, two, trade) ==
  \A k \in OrderId : IsPlaced(one, k) =>
    two[k].filled = IF k \in {trade.buy, trade.sell}
                    THEN one[k].filled + trade.quantity ELSE one[k].filled

LEMMA MoreIsExplained ==
  ASSUME NEW one, NEW two, \A k : IsPlaced(one, k) <=> IsPlaced(two, k),
         NEW log \in Seq(Trade), Explained(one, log), NEW trade \in Trade,
         FilledMore(one, two, trade)
  PROVE  Explained(two, Append(log, trade))
  <1> USE DEF FilledMore
  <1> SUFFICES ASSUME NEW j \in OrderId, IsPlaced(two, j)
               PROVE  two[j].filled = FilledBefore(j) + Traded(j, Append(log, trade))
    BY DEF Explained
  <1>1. PICK before, told : before = FilledBefore(j) /\ told = Traded(j, log) OBVIOUS
  <1>2. told \in Int BY <1>1, TradedType
  <1>3. before \in Nat
    <2>1. \A i \in DOMAIN Book : Book[i] \in Order BY BookAssumption
    <2> QED BY <1>1, <2>1, PricesOf DEF FilledBefore
  <1>4. one[j].filled = before + told BY <1>1 DEF Explained
  <1>5. Traded(j, Append(log, trade))
          = told + (IF j \in {trade.buy, trade.sell} THEN trade.quantity ELSE 0)
    BY <1>1, OneMoreTrade
  <1>6. two[j].filled = IF j \in {trade.buy, trade.sell}
                        THEN one[j].filled + trade.quantity ELSE one[j].filled
    OBVIOUS
  <1>7. trade.quantity \in Nat BY DEF Trade
  <1> QED BY <1>1, <1>3, <1>4, <1>5, <1>6, <1>7, <1>2

LEMMA AppendToBoth ==
  ASSUME NEW log \in Seq(Trade), NEW traded \in Seq(Trade), NEW trade \in Trade
  PROVE  log \o Append(traded, trade) = Append(log \o traded, trade)
  <1>1. PICK S : S = Trade OBVIOUS
  <1>2. PICK e : e = <<trade>> OBVIOUS
  <1>3. log \in Seq(S) /\ traded \in Seq(S) /\ trade \in S BY <1>1
  <1>4. e \in Seq(S) BY <1>2, <1>3
  <1>5. log \o traded \in Seq(S) BY <1>3
  <1>6. Append(traded, trade) = traded \o e BY <1>2, <1>3, AppendIsConcat
  <1>7. Append(log \o traded, trade) = (log \o traded) \o e
    BY <1>2, <1>3, <1>5, AppendIsConcat
  <1>8. log \o (traded \o e) = (log \o traded) \o e BY <1>3, <1>4, ConcatAssociative
  <1> QED BY <1>6, <1>7, <1>8

LEMMA BothSidesGrow ==
  ASSUME NEW s \in Int, NEW l \in Int, NEW o \in Int, NEW k \in Int, NEW g \in Int,
         s + l = o + k + g,
         NEW due \in Int, NEW da \in Int, NEW db \in Int, NEW gain \in Int,
         due + da + db = gain
  PROVE  (s + due) + (l + da + db) = o + k + (g + gain)
  OBVIOUS

\* Between the books one and two the order id, the taker, and the order i, its
\* maker, are filled by a trade.
Turned(one, two, id, i, fill, trade) ==
  /\ id # i /\ \A j \in OrderId : j # id /\ j # i => one[j] = two[j]
  /\ one[id] \in Order /\ two[id] \in Order /\ one[i] \in Order /\ two[i] \in Order
  /\ FilledBy(one[id], two[id], fill) /\ FilledBy(one[i], two[i], fill)
  /\ Compatible(one[id], one[i]) /\ one[id].side # one[i].side
  /\ trade.quantity = fill /\ trade.price = one[i].price
  /\ trade.buy = IF one[id].side = "BUY" THEN id ELSE i
  /\ trade.sell = IF one[id].side = "BUY" THEN i ELSE id

\* The stocks before and after a todo list is paid.
PaidOut(stocks, stocks2, todo) ==
  \A r \in Stock : stocks[r] \in Int /\ stocks2[r] = stocks[r] + Due(todo, r)

\* The payments of a turn, the fills of its two orders and its trade, together.
LEMMA TurnIsEven ==
  ASSUME NEW one \in Books, NEW two \in Books, NEW id \in OrderId, NEW i \in OrderId,
         NEW fill \in Nat, NEW trade \in Trade, Turned(one, two, id, i, fill, trade),
         NEW stocks, NEW stocks2, PaidOut(stocks, stocks2, Payments(one[id], one[i], fill)),
         NEW log \in Seq(Trade), Even(stocks, one, log)
  PROVE  Even(stocks2, two, Append(log, trade))
  <1> USE DEF Turned, PaidOut
  <1> SUFFICES ASSUME NEW kind \in Kinds, NEW c \in Country
               PROVE  stocks2[<<kind, c>>] + LockedBy(kind, c, two)
                        = Opening[kind][c] + LockedBy(kind, c, Book)
                            + Gains(kind, c, two, Append(log, trade))
    BY DEF Even, Kinds
  <1>1. PICK r \in Stock : r = <<kind, c>> BY DEF Stock, Kinds
  <1>2. PICK due : due = Due(Payments(one[id], one[i], fill), r) OBVIOUS
  <1>3. due \in Int
    <2>1. Payments(one[id], one[i], fill) \in Todo BY PaymentsType
    <2> QED BY <1>2, <2>1, DueType
  <1>4. stocks[r] \in Int /\ stocks2[r] = stocks[r] + due BY <1>2
  <1>5. PICK da, db : /\ da = Share(kind, c, two[id]) - Share(kind, c, one[id])
                      /\ db = Share(kind, c, two[i]) - Share(kind, c, one[i])
    OBVIOUS
  <1>6. da \in Int /\ db \in Int
    <2>1. \A k \in OrderId : Share(kind, c, one[k]) \in Int /\ Share(kind, c, two[k]) \in Int
      BY LocksOf
    <2> QED BY <1>5, <2>1
  <1>7. LockedBy(kind, c, two) = LockedBy(kind, c, one) + da + db
    BY <1>5, TwoLocksChange
  <1>8. /\ \A k : IsPlaced(one, k) <=> IsPlaced(two, k)
        /\ \A d, k : Owns(d, one, k) <=> Owns(d, two, k)
    <2>1. \A k \in OrderId : one[k] = two[k] \/ (/\ one[k] \in Order /\ two[k] \in Order
                                                 /\ one[k].country = two[k].country)
      BY DEF FilledBy
    <2> QED BY <2>1, SameOwners
  <1>9. PICK gain : gain = Gain(kind, c, two, trade) OBVIOUS
  <1>10. gain \in Int BY <1>9, GainType
  <1>11. due + da + db = gain
    <2>1. PICK buyer, seller :
            /\ buyer = IF one[id].side = "BUY" THEN one[id].country ELSE one[i].country
            /\ seller = IF one[id].side = "BUY" THEN one[i].country ELSE one[id].country
      OBVIOUS
    <2>2. PICK taker \in Order, maker \in Order, taker2 \in Order, maker2 \in Order :
            taker = one[id] /\ maker = one[i] /\ taker2 = two[id] /\ maker2 = two[i]
      OBVIOUS
    <2>3. due + da + db
            = (IF c = (IF kind = "money" THEN seller ELSE buyer) THEN Moved(kind, trade) ELSE 0)
              - (IF c = (IF kind = "money" THEN buyer ELSE seller)
                 THEN Moved(kind, trade) ELSE 0)
      <3>1. Due(Payments(taker, maker, fill), <<kind, c>>)
              + (Share(kind, c, taker2) - Share(kind, c, taker))
              + (Share(kind, c, maker2) - Share(kind, c, maker))
            = (IF c = (IF kind = "money" THEN seller ELSE buyer) THEN Moved(kind, trade) ELSE 0)
              - (IF c = (IF kind = "money" THEN buyer ELSE seller)
                 THEN Moved(kind, trade) ELSE 0)
        BY <2>1, <2>2, TurnBalances
      <3> QED BY <1>1, <1>2, <1>5, <2>2, <3>1
    <2>4. /\ Owns(c, two, trade.buy) <=> c = buyer
          /\ Owns(c, two, trade.sell) <=> c = seller
      <3>1. \A o \in Order : o # Absent BY OrderIsThere
      <3>2. DOMAIN two = OrderId BY DEF Books
      <3>3. \A k \in {id, i} : Owns(c, two, k) <=> two[k].country = c
        BY <3>1, <3>2 DEF Owns, IsPlaced
      <3>4. two[id].country = one[id].country /\ two[i].country = one[i].country
        BY DEF FilledBy
      <3> QED BY <2>1, <3>3, <3>4
    <2> QED BY <1>9, <2>3, <2>4 DEF Gain
  <1>12. Gains(kind, c, two, Append(log, trade)) = Gains(kind, c, one, log) + gain
    <2>1. Gains(kind, c, two, Append(log, trade)) = Gains(kind, c, two, log) + gain
      BY <1>9, OneMoreTrade
    <2>2. Gains(kind, c, two, log) = Gains(kind, c, one, log) BY <1>8, SameGains
    <2> QED BY <2>1, <2>2
  <1>13. stocks[r] + LockedBy(kind, c, one)
           = Opening[kind][c] + LockedBy(kind, c, Book) + Gains(kind, c, one, log)
    BY <1>1 DEF Even, Kinds
  <1>14. PICK locked, told, locked0 :
           /\ locked = LockedBy(kind, c, one) /\ told = Gains(kind, c, one, log)
           /\ locked0 = LockedBy(kind, c, Book)
    OBVIOUS
  <1>15. locked \in Int BY <1>14, LockedByType
  <1>16. told \in Int BY <1>14, GainsType
  <1>17. locked0 \in Int BY <1>14, OpeningLocksType
  <1>18. Opening[kind][c] \in Nat BY DEF Kinds
  <1>19. stocks[r] + locked = Opening[kind][c] + locked0 + told BY <1>13, <1>14
  <1>20. (stocks[r] + due) + (locked + da + db) = Opening[kind][c] + locked0 + (told + gain)
    <2>1. PICK a, x : a = stocks[r] /\ x = Opening[kind][c] OBVIOUS
    <2>2. a \in Int /\ x \in Int BY <1>4, <1>18, <2>1
    <2>3. a + locked = x + locked0 + told BY <1>19, <2>1
    <2>4. (a + due) + (locked + da + db) = x + locked0 + (told + gain)
      BY <1>3, <1>6, <1>11, <1>10, <1>15, <1>16, <1>17, <2>2, <2>3, BothSidesGrow
    <2> QED BY <2>1, <2>4
  <1>21. stocks2[<<kind, c>>] = stocks[r] + due BY <1>1, <1>4
  <1>22. LockedBy(kind, c, two) = locked + da + db BY <1>7, <1>14
  <1>23. Gains(kind, c, two, Append(log, trade)) = told + gain BY <1>12, <1>14
  <1>24. stocks2[<<kind, c>>] + LockedBy(kind, c, two)
           = Opening[kind][c] + locked0 + (told + gain)
    BY <1>20, <1>21, <1>22
  <1>25. Opening[kind][c] + LockedBy(kind, c, Book) + Gains(kind, c, two, Append(log, trade))
           = Opening[kind][c] + locked0 + (told + gain)
    BY <1>14, <1>23
  <1> QED BY <1>24, <1>25

\* The stocks with the bill of a turn paid, when the maker's row is written.
LEMMA TurnIsPaid ==
  ASSUME NEW rows, RowsTyped(rows), NEW R, R.pc = "maker", R.todo = <<>>, Bill(R) \in Todo,
         NEW rows2, NEW i \in OrderId, \A x \in Row : x # OrderOf(i) => rows2[x] = rows[x],
         NEW new, new.pc = "match"
  PROVE  PaidOut(StocksOf(rows, R), StocksOf(rows2, new), Bill(R))
  <1> SUFFICES ASSUME NEW r \in Stock
               PROVE  /\ StocksOf(rows, R)[r] \in Int
                      /\ StocksOf(rows2, new)[r] = StocksOf(rows, R)[r] + Due(Bill(R), r)
    BY DEF PaidOut
  <1>1. Unwritten(R) /\ ~Unwritten(new)
    BY DEF Unwritten, Before, Paying, Cancelling, Adjusting
  <1>2. PICK due : due = Due(Bill(R), r) OBVIOUS
  <1>3. due \in Int BY <1>2, DueType
  <1>4. r \in Row /\ r # OrderOf(i) /\ rows[r] \in Nat BY RowTypes DEF RowsTyped
  <1>5. StocksOf(rows, R)[r] = rows[r] - due BY <1>1, <1>2, <1>3, NothingDue DEF StocksOf, Paid
  <1>6. rows2[r] = rows[r] BY <1>4
  <1>7. StocksOf(rows2, new)[r] = rows[r] BY <1>1, <1>4, <1>6 DEF StocksOf, Paid
  <1> QED BY <1>2, <1>3, <1>4, <1>5, <1>7

\* record_trade: the trade of the turn.
TradeOf(R, trade) ==
  /\ trade.quantity = R.fill /\ trade.price = R.known[R.maker].price
  /\ trade.buy = IF R.order.side = "BUY" THEN R.id ELSE R.maker
  /\ trade.sell = IF R.order.side = "BUY" THEN R.maker ELSE R.id

\* repo.update of the maker, and the trade: the turn is over.
LEMMA MakerAccounted ==
  ASSUME NEW rows, RowsTyped(rows), NEW log \in Seq(Trade), NEW R \in Request,
         Accounted(rows, log, R), R.pc = "maker", R.id \in OrderId,
         NEW i \in OrderId, i = R.maker, i # R.id,
         NEW K \in Order, K = rows[OrderOf(i)], K = R.known[i], K.side # R.order.side,
         NEW v \in Order, FilledBy(K, v, R.fill),
         NEW rows2, RowsTyped(rows2), Wrote(rows, rows2, OrderOf(i), v),
         NEW new \in Request, new.pc = "match", new.id = R.id, new.todo = R.todo,
         FilledBy(R.order, new.order, R.fill), new.order.status = "OPEN",
         NEW trade \in Trade, TradeOf(R, trade), new.traded = Append(R.traded, trade)
  PROVE  Accounted(rows2, log, new)
  <1> USE DEF Wrote, TradeOf
  <1>1. R.then = "maker" /\ R.todo = <<>> /\ Bill(R) \in Todo /\ Compatible(R.order, K)
    BY DEF Accounted, Adjusting, Unwritten, Paying
  <1>2. InMatch(R) /\ InMatch(new) BY DEF InMatch, Paying
  <1>3. PICK taker, taker2, fill : taker = R.order /\ taker2 = new.order /\ fill = R.fill
    OBVIOUS
  <1>4. taker \in Order /\ taker2 \in Order /\ fill \in Nat /\ R.traded \in Seq(Trade)
    BY <1>3 DEF Request
  <1>5. PICK one, two : one = BookWith(rows, R) /\ two = BookWith(rows2, new) OBVIOUS
  <1>6. one \in Books /\ two \in Books BY <1>5, BookTypes
  <1>7. \A j \in OrderId : j # i => OrderOf(j) # OrderOf(i) /\ OrderOf(j) \in Row
    BY RowTypes
  <1>8. /\ one[R.id] = taker /\ two[R.id] = taker2 /\ one[i] = K /\ two[i] = v
        /\ \A j \in OrderId : j # R.id /\ j # i => one[j] = two[j]
    BY <1>2, <1>3, <1>5, <1>7 DEF BookWith
  <1>9. PICK all : all = log \o R.traded OBVIOUS
  <1>10. all \in Seq(Trade) BY <1>9, LogTypes
  <1>11. log \o new.traded = Append(all, trade) BY <1>4, <1>9, AppendToBoth
  <1>12. PICK stocks, stocks2 : stocks = StocksOf(rows, R) /\ stocks2 = StocksOf(rows2, new)
    OBVIOUS
  <1>13. Even(stocks, one, all) /\ Explained(one, all) /\ Named(one, all)
    BY <1>5, <1>9, <1>12 DEF Accounted, Settled
  <1>14. Bill(R) = Payments(taker, K, fill) BY <1>1, <1>3 DEF Bill
  <1>15. PaidOut(stocks, stocks2, Payments(taker, K, fill)) BY <1>1, <1>12, <1>14, TurnIsPaid
  <1>16. FilledBy(taker, taker2, fill) /\ FilledBy(K, v, fill) BY <1>3
  <1>17. Even(stocks2, two, Append(all, trade))
    <2>1. PICK id \in OrderId : id = R.id OBVIOUS
    <2>2. /\ trade.quantity = fill /\ trade.price = K.price
          /\ trade.buy = IF taker.side = "BUY" THEN id ELSE i
          /\ trade.sell = IF taker.side = "BUY" THEN i ELSE id
      BY <1>3, <2>1
    <2>3. Turned(one, two, id, i, fill, trade)
      BY <1>1, <1>3, <1>4, <1>8, <1>16, <2>1, <2>2 DEF Turned
    <2>4. Payments(one[id], one[i], fill) = Payments(taker, K, fill) BY <1>8, <2>1
    <2>5. PaidOut(stocks, stocks2, Payments(one[id], one[i], fill)) BY <1>15, <2>4
    <2> QED BY <1>4, <1>6, <1>10, <1>13, <2>3, <2>5, TurnIsEven
  <1>18. \A k : IsPlaced(one, k) <=> IsPlaced(two, k)
    <2>1. \A k \in OrderId : one[k] = two[k] \/ (/\ one[k] \in Order /\ two[k] \in Order
                                                 /\ one[k].country = two[k].country)
      <3>1. taker2.country = taker.country /\ v.country = K.country BY <1>16 DEF FilledBy
      <3> QED BY <1>4, <1>8, <3>1
    <2> QED BY <1>6, <2>1, SameOwners
  <1>19. Explained(two, Append(all, trade))
    <2>1. ASSUME NEW k \in OrderId
          PROVE  two[k].filled = IF k \in {trade.buy, trade.sell}
                                 THEN one[k].filled + trade.quantity ELSE one[k].filled
      <3>1. {trade.buy, trade.sell} = {R.id, i} OBVIOUS
      <3>2. taker2.filled = taker.filled + fill /\ v.filled = K.filled + fill
        BY <1>16 DEF FilledBy
      <3> QED BY <1>3, <1>8, <3>1, <3>2
    <2>2. FilledMore(one, two, trade) BY <2>1 DEF FilledMore
    <2> QED BY <1>10, <1>13, <1>18, <2>2, MoreIsExplained
  <1>20. Named(two, Append(all, trade))
    <2>1. IsPlaced(one, R.id) /\ IsPlaced(one, i)
      BY <1>4, <1>6, <1>8, OrderIsThere DEF IsPlaced, Books
    <2> QED BY <1>10, <1>13, <1>18, <2>1, MoreIsNamed
  <1>21. Settled(StocksOf(rows2, new), BookWith(rows2, new), log \o new.traded)
    BY <1>5, <1>11, <1>12, <1>17, <1>19, <1>20 DEF Settled
  <1> QED BY <1>1, <1>21, DoneAccounted

\* repo.update of the taker: its row says what the loop knew of it.
LEMMA TakerAccounted ==
  ASSUME NEW rows, RowsTyped(rows), NEW log \in Seq(Trade), NEW R \in Request,
         Accounted(rows, log, R), R.pc = "match", NEW i \in OrderId, i = R.id,
         NEW v \in Order, FilledBy(R.order, v, 0),
         NEW rows2, RowsTyped(rows2), Wrote(rows, rows2, OrderOf(i), v),
         NEW new \in Request, new.pc = "commit", new.todo = R.todo, new.traded = R.traded
  PROVE  Accounted(rows2, log, new)
  <1> USE DEF Wrote
  <1>1. /\ ~Unwritten(R) /\ ~Unwritten(new) /\ InMatch(R) /\ ~InMatch(new)
    BY DEF Unwritten, Before, Paying, Cancelling, InMatch, Adjusting
  <1>2. R.todo = <<>> BY DEF Accounted, Adjusting
  <1>3. PICK taker : taker = R.order /\ taker \in Order BY DEF Request
  <1>4. PICK one, two : one = BookWith(rows, R) /\ two = BookWith(rows2, new) OBVIOUS
  <1>5. one \in Books /\ two \in Books BY <1>4, BookTypes
  <1>6. \A j \in OrderId : j # i => OrderOf(j) # OrderOf(i) /\ OrderOf(j) \in Row
    BY RowTypes
  <1>7. /\ one[i] = taker /\ two[i] = v
        /\ \A j \in OrderId : j # i => one[j] = two[j]
    BY <1>1, <1>3, <1>4, <1>6 DEF BookWith
  <1>8. Locked(v) = Locked(taker)
    <2>1. PICK a : a = LockAmount(taker.side, 0, taker.price) OBVIOUS
    <2>2. a = 0
      <3>1. taker.price \in Nat BY <1>3, PricesOf
      <3>2. 0 * taker.price = 0 BY <3>1
      <3> QED BY <2>1, <3>2 DEF LockAmount
    <2>3. Locked(v) = Locked(taker) - a /\ Locked(taker) \in Int
      BY <1>3, <2>1, LessLocked
    <2> QED BY <2>2, <2>3
  <1>9. v.country = taker.country /\ v.side = taker.side /\ v.filled = taker.filled
    BY <1>3, PricesOf DEF FilledBy
  <1>10. Alike(one, two)
    BY <1>3, <1>7, <1>8, <1>9, OrderIsThere DEF Alike
  <1>11. PICK all \in Seq(Trade) : all = log \o R.traded BY LogTypes
  <1>12. \A r \in Stock : StocksOf(rows, R)[r] = StocksOf(rows2, new)[r]
    <2>1. \A r \in Stock : rows2[r] = rows[r] BY RowTypes
    <2> QED BY <1>1, <2>1 DEF StocksOf, Paid
  <1>13. Settled(StocksOf(rows, R), one, all) BY <1>4, <1>11 DEF Accounted
  <1>14. Settled(StocksOf(rows, R), two, all) BY <1>5, <1>10, <1>13, AlikeSettled
  <1>15. Settled(StocksOf(rows2, new), two, all) BY <1>12, <1>14, SameStocksSettled
  <1>16. Settled(StocksOf(rows2, new), BookWith(rows2, new), log \o new.traded)
    BY <1>4, <1>11, <1>15
  <1> QED BY <1>1, <1>2, <1>16, DoneAccounted

\* cancel_order: what was given back is locked no more.
LEMMA MarkAccounted ==
  ASSUME NEW rows, RowsTyped(rows), NEW log \in Seq(Trade), NEW R \in Request,
         Accounted(rows, log, R), R.pc = "cancel", NEW i \in OrderId, i = R.id,
         rows[OrderOf(i)].status \in Live,
         NEW v \in Order, v.country = R.order.country, v.side = R.order.side,
         v.filled = R.order.filled, v.status = "CANCELLED",
         NEW rows2, RowsTyped(rows2), Wrote(rows, rows2, OrderOf(i), v),
         NEW new \in Request, new.pc = "commit", new.todo = R.todo, new.traded = R.traded
  PROVE  Accounted(rows2, log, new)
  <1> USE DEF Wrote
  <1>1. /\ Unwritten(R) /\ ~Unwritten(new) /\ ~InMatch(R) /\ ~InMatch(new) /\ Cancelling(R)
    BY DEF Unwritten, Before, Paying, Cancelling, InMatch, Adjusting
  <1>2. R.then = "cancel" /\ R.todo = <<>> /\ Bill(R) \in Todo
    BY <1>1 DEF Accounted, Adjusting
  <1>3. PICK order : order = R.order /\ order \in Order BY DEF Request
  <1>4. order = rows[OrderOf(i)] /\ order.status \in Live BY <1>1, <1>3 DEF Accounted
  <1>5. PICK one, two : one = BookWith(rows, R) /\ two = BookWith(rows2, new) OBVIOUS
  <1>6. one \in Books /\ two \in Books BY <1>5, BookTypes
  <1>7. \A j \in OrderId : j # i => OrderOf(j) # OrderOf(i) /\ OrderOf(j) \in Row
    BY RowTypes
  <1>8. /\ one[i] = order /\ two[i] = v
        /\ \A j \in OrderId : j # i => one[j] = two[j]
    BY <1>1, <1>4, <1>5, <1>7 DEF BookWith
  <1>9. PICK all \in Seq(Trade) : all = log \o R.traded BY LogTypes
  <1>10. PICK stocks, stocks2 : stocks = StocksOf(rows, R) /\ stocks2 = StocksOf(rows2, new)
    OBVIOUS
  <1>11. Even(stocks, one, all) /\ Explained(one, all) /\ Named(one, all)
    BY <1>5, <1>9, <1>10 DEF Accounted, Settled
  <1>12. /\ \A k : IsPlaced(one, k) <=> IsPlaced(two, k)
         /\ \A c, k : Owns(c, one, k) <=> Owns(c, two, k)
    <2>1. \A k \in OrderId : one[k] = two[k] \/ (/\ one[k] \in Order /\ two[k] \in Order
                                                 /\ one[k].country = two[k].country)
      BY <1>3, <1>8
    <2> QED BY <1>6, <2>1, SameOwners
  <1>13. PICK amount : amount = LockAmount(order.side, order.quantity - order.filled, order.price)
    OBVIOUS
  <1>14. Locked(order) = amount /\ amount \in Int /\ Locked(v) = 0
    BY <1>3, <1>4, <1>13, LockedType DEF Locked, Live
  <1>15. Bill(R) = << <<LockRow(order.side, order.country), amount>> >>
    BY <1>2, <1>3, <1>13 DEF Bill
  <1>16. Even(stocks2, two, all)
    <2> SUFFICES ASSUME NEW kind \in Kinds, NEW c \in Country
                 PROVE  stocks2[<<kind, c>>] + LockedBy(kind, c, two)
                          = Opening[kind][c] + LockedBy(kind, c, Book) + Gains(kind, c, two, all)
      BY DEF Even, Kinds
    <2>1. PICK r \in Stock : r = <<kind, c>> BY DEF Stock, Kinds
    <2>2. r \in Row /\ r # OrderOf(i) /\ rows[r] \in Nat BY RowTypes DEF RowsTyped
    <2>3. PICK share : share = IF LockRow(order.side, order.country) = r THEN amount ELSE 0
      OBVIOUS
    <2>4. share \in Int BY <1>14, <2>3
    <2>5. Due(Bill(R), r) = share BY <1>14, <1>15, <2>3, DueOfOne
    <2>6. stocks[r] = rows[r] - share
      BY <1>1, <1>2, <1>10, <2>4, <2>5, NothingDue DEF StocksOf, Paid
    <2>7. stocks2[r] = rows[r]
      <3>1. rows2[r] = rows[r] BY <2>2
      <3> QED BY <1>1, <1>10, <2>2, <3>1 DEF StocksOf, Paid
    <2>8. Share(kind, c, order) = share /\ Share(kind, c, v) = 0
      <3>1. LockRow(order.side, order.country) = r
              <=> order.country = c /\ order.side = Offers(kind)
        BY <1>3, <2>1, LockRowIs
      <3> QED BY <1>3, <1>14, <2>3, <3>1, OrderIsThere DEF Share
    <2>9. PICK locked : locked = LockedBy(kind, c, one) OBVIOUS
    <2>10. locked \in Int BY <1>6, <2>9, LockedByType
    <2>11. LockedBy(kind, c, two) = locked - share
      <3>1. LockedBy(kind, c, two)
              = LockedBy(kind, c, one) - Share(kind, c, one[i]) + Share(kind, c, two[i])
        <4>1. \A j \in OrderId : j # i => one[j] = two[j] BY <1>8
        <4> QED BY <1>6, <4>1, LockChanges
      <3>2. Share(kind, c, one[i]) = share /\ Share(kind, c, two[i]) = 0 BY <1>8, <2>8
      <3>3. LockedBy(kind, c, two) = locked - share + 0 BY <2>9, <3>1, <3>2
      <3> QED BY <2>4, <2>10, <3>3
    <2>12. stocks2[r] + LockedBy(kind, c, two) = stocks[r] + locked
      BY <2>2, <2>4, <2>6, <2>7, <2>10, <2>11
    <2>13. Gains(kind, c, two, all) = Gains(kind, c, one, all) BY <1>12, SameGains
    <2>14. stocks[<<kind, c>>] + LockedBy(kind, c, one)
             = Opening[kind][c] + LockedBy(kind, c, Book) + Gains(kind, c, one, all)
      BY <1>11 DEF Even, Kinds
    <2>15. stocks[r] + locked
             = Opening[kind][c] + LockedBy(kind, c, Book) + Gains(kind, c, one, all)
      BY <2>1, <2>9, <2>14
    <2> QED BY <2>1, <2>12, <2>13, <2>15
  <1>17. Explained(two, all) BY <1>3, <1>8, <1>11, <1>12 DEF Explained
  <1>18. Named(two, all) BY <1>11, <1>12 DEF Named
  <1>19. Settled(StocksOf(rows2, new), BookWith(rows2, new), log \o new.traded)
    BY <1>5, <1>9, <1>10, <1>16, <1>17, <1>18 DEF Settled
  <1> QED BY <1>1, <1>2, <1>19, DoneAccounted

-----------------------------------------------------------------------------
(* What every action does to the accounts.                                 *)

LEMMA AccountsTypes ==
  ASSUME AccountsInv
  PROVE  /\ RowsTyped(pending) /\ RowsTyped(store) /\ trades \in Seq(Trade)
         /\ PriorityInv /\ IInv /\ TypeOK /\ Holders
         /\ Settled(store, BookOf(store), trades)
  <1>1. PriorityInv /\ IInv /\ TypeOK /\ Holders BY DEF AccountsInv, PriorityInv, IInv
  <1>2. RowsTyped(pending) /\ RowsTyped(store)
    BY <1>1, RowTypes DEF RowsTyped, TypeOK
  <1> QED BY <1>1, <1>2 DEF AccountsInv, TypeOK

LEMMA ActiveAccounted ==
  ASSUME AccountsInv, NEW t \in Txn, Active(t)
  PROVE  /\ req[t] \in Request /\ InFlight(req[t]) /\ InOrder(req[t])
         /\ Accounted(pending, trades, req[t])
  <1>1. PriorityInv BY AccountsTypes
  <1> QED BY <1>1, ActiveInOrder DEF AccountsInv

\* A step of the one request, of which new is the local state after it.
LEMMA OneAccounted ==
  ASSUME OneRequest, AccountsInv, PriorityInv', NEW t \in Txn, NEW new,
         req' = [req EXCEPT ![t] = new], Accounted(pending', trades', new),
         store' = store, trades' = trades, nextId' \in {nextId, nextId + 1}
  PROVE  AccountsInv'
  <1>1. req \in [Txn -> Request \cup {Idle}] /\ nextId \in Nat /\ Len(Book) \in Nat
    BY AccountsTypes, BookAssumption DEF TypeOK
  <1>2. \A u \in Txn : req'[u] = new BY <1>1 DEF OneRequest
  <1>3. nextId' > Len(Book)
    <2>1. nextId > Len(Book) BY DEF AccountsInv
    <2> QED BY <1>1, <2>1
  <1>4. Settled(store, BookOf(store), trades)'
    <2>1. Settled(store, BookOf(store), trades) BY AccountsTypes
    <2> QED BY <2>1
  <1>5. \A u \in Txn : Active(u)' => Accounted(pending, trades, req[u])' BY <1>2
  <1> QED BY <1>3, <1>4, <1>5 DEF AccountsInv

\* The request ends with the rows of one version.
LEMMA EndAccounts ==
  ASSUME OneRequest, AccountsInv, PriorityInv', NEW t \in Txn, Finish(t), nextId' = nextId,
         Settled(store', BookOf(store'), trades')
  PROVE  AccountsInv'
  <1>1. req \in [Txn -> Request \cup {Idle}] BY AccountsTypes DEF TypeOK
  <1>2. \A u \in Txn : ~Active(u)' BY <1>1 DEF OneRequest, Finish, Active, Idle
  <1>3. (nextId > Len(Book))' BY DEF AccountsInv
  <1>4. Settled(store, BookOf(store), trades)' OBVIOUS
  <1> QED BY <1>2, <1>3, <1>4 DEF AccountsInv

\* Between requests there is one version of the rows.
LEMMA IdleAccounts ==
  ASSUME OneRequest, AccountsInv, NEW t \in Txn, ~Active(t)
  PROVE  pending = store
  <1>1. \A r \in Row : pending[r] = store[r] BY AccountsTypes, IdleRows
  <1>2. store = [r \in Row |-> store[r]] /\ pending = [r \in Row |-> pending[r]]
    BY AccountsTypes DEF TypeOK
  <1> QED BY <1>1, <1>2

LEMMA PlaceAccounts ==
  ASSUME OneRequest, AccountsInv, PriorityInv', NEW t \in Txn, NEW c \in Country,
         NEW side \in {"BUY", "SELL"}, NEW q \in Quantity, NEW p \in Price,
         Place(t, c, side, q, p)
  PROVE  AccountsInv'
  <1>1. PICK row, amount : row = LockRow(side, c) /\ amount = LockAmount(side, q, p) OBVIOUS
  <1>2. q \in Nat /\ p \in Nat OBVIOUS
  <1>3. row \in Stock /\ row \in Row /\ amount \in Nat
    BY <1>1, <1>2, LockTypes, RowTypes
  <1>4. PICK x \in Int : x = -amount BY <1>3
  <1>5. PICK todo : todo = << <<row, x>> >> OBVIOUS
  <1>6. todo \in Todo BY <1>3, <1>5 DEF Todo
  <1>7. PICK order : order = [side |-> side, country |-> c, quantity |-> q, price |-> p,
                              filled |-> 0, status |-> "OPEN"]
    OBVIOUS
  <1>8. order \in Order BY <1>7 DEF Order, Live
  <1>9. PICK new : new =
          [pc |-> "adjust", then |-> "insert", seen |-> 0, todo |-> todo, order |-> order,
           id |-> 0, makers |-> {}, known |-> NoCopies, maker |-> 0, fill |-> 0,
           traded |-> <<>>]
    OBVIOUS
  <1>10. new \in Request BY <1>6, <1>8, <1>9, NoCopiesType DEF Request
  <1>11. req' = [req EXCEPT ![t] = new] BY <1>1, <1>4, <1>5, <1>7, <1>9 DEF Place
  <1>12. new.pc = "adjust" /\ new.then = "insert" /\ new.traded = <<>> /\ new.todo = todo
    BY <1>9
  <1>13. Bill(new) = new.todo
    <2>1. /\ new.order.side = side /\ new.order.country = c /\ new.order.quantity = q
          /\ new.order.price = p
      BY <1>7, <1>9
    <2>2. Bill(new) = << <<LockRow(side, c), -LockAmount(side, q, p)>> >>
      BY <1>12, <2>1 DEF Bill
    <2> QED BY <1>1, <1>4, <1>5, <1>12, <2>2
  <1>14. PICK rows, log : rows = pending /\ log = trades OBVIOUS
  <1>15. /\ RowsTyped(rows) /\ log \in Seq(Trade)
         /\ Settled(rows, BookOf(rows), log)
    <2>1. ~Active(t) BY DEF Place
    <2>2. pending = store BY <2>1, IdleAccounts
    <2> QED BY <1>14, <2>2, AccountsTypes
  <1>16. rows[row] + x >= 0
    <2>1. Seen(t, row) = rows[row] BY <1>3, <1>14, AccountsTypes, SeesPending
    <2>2. Seen(t, row) >= amount BY <1>1 DEF Place
    <2>3. rows[row] \in Nat BY <1>3, <1>15 DEF RowsTyped
    <2> QED BY <1>3, <1>4, <2>1, <2>2, <2>3
  <1>17. Accounted(rows, log, new)
    BY <1>3, <1>5, <1>10, <1>12, <1>13, <1>15, <1>16, BeginAccounted
  <1>18. Accounted(pending', trades', new) BY <1>14, <1>17 DEF Place
  <1> QED BY <1>11, <1>18, OneAccounted DEF Place

LEMMA CancelAccounts ==
  ASSUME OneRequest, AccountsInv, PriorityInv', NEW t \in Txn, NEW i \in OrderId, Cancel(t, i)
  PROVE  AccountsInv'
  <1>1. PICK order : order = Seen(t, OrderOf(i)) OBVIOUS
  <1>2. order = pending[OrderOf(i)]
    BY <1>1, RowTypes, AccountsTypes, SeesPending
  <1>3. order \in Order
    <2>1. order.status \in Live BY <1>1 DEF Cancel
    <2> QED BY <1>2, <2>1, OrderTypes, AccountsTypes, LiveIsOrder
  <1>4. PICK row, x : /\ row = LockRow(order.side, order.country)
                      /\ x = LockAmount(order.side, order.quantity - order.filled, order.price)
    OBVIOUS
  <1>5. row \in Stock /\ x \in Nat
    <2>1. order.quantity \in Nat /\ order.filled \in Nat /\ order.price \in Nat
          /\ order.side \in {"BUY", "SELL"} /\ order.country \in Country
      BY <1>3, PricesOf DEF Order
    <2>2. order.filled <= order.quantity
      <3>1. Consistent(pending, OrderId)
        BY IdleRows, AccountsTypes DEF Cancel
      <3> QED BY <1>2, <1>3, <3>1, OrderIsThere DEF Consistent, Coherent
    <2>3. PICK rest \in Nat : rest = order.quantity - order.filled BY <2>1, <2>2
    <2> QED BY <1>4, <2>1, <2>3, LockTypes
  <1>6. PICK todo : todo = << <<row, x>> >> OBVIOUS
  <1>7. todo \in Todo BY <1>5, <1>6 DEF Todo
  <1>8. PICK new : new =
          [pc |-> "adjust", then |-> "cancel", seen |-> 0, todo |-> todo, order |-> order,
           id |-> i, makers |-> {}, known |-> NoCopies, maker |-> 0, fill |-> 0,
           traded |-> <<>>]
    OBVIOUS
  <1>9. new \in Request BY <1>3, <1>7, <1>8, NoCopiesType DEF Request
  <1>10. req' = [req EXCEPT ![t] = new] BY <1>1, <1>4, <1>6, <1>8 DEF Cancel
  <1>11. /\ new.pc = "adjust" /\ new.then = "cancel" /\ new.traded = <<>> /\ new.todo = todo
         /\ new.order = order /\ new.id = i
    BY <1>8
  <1>12. Bill(new) = new.todo BY <1>4, <1>6, <1>11 DEF Bill
  <1>13. PICK rows, log : rows = pending /\ log = trades OBVIOUS
  <1>14. /\ RowsTyped(rows) /\ log \in Seq(Trade)
         /\ Settled(rows, BookOf(rows), log)
    <2>1. ~Active(t) BY DEF Cancel
    <2>2. pending = store BY <2>1, IdleAccounts
    <2> QED BY <1>13, <2>2, AccountsTypes
  <1>15. Accounted(rows, log, new)
    <2>1. new.order = rows[OrderOf(new.id)] /\ x >= 0 /\ x \in Int
      BY <1>2, <1>5, <1>11, <1>13
    <2> QED BY <1>5, <1>6, <1>9, <1>11, <1>12, <1>14, <2>1, BeginAccounted
  <1>16. Accounted(pending', trades', new) BY <1>13, <1>15 DEF Cancel
  <1> QED BY <1>10, <1>16, OneAccounted DEF Cancel

LEMMA AdjustSelectAccounts ==
  ASSUME OneRequest, AccountsInv, PriorityInv', NEW t \in Txn, AdjustSelect(t)
  PROVE  AccountsInv'
  <1>1. PICK R, rows, log : R = req[t] /\ rows = pending /\ log = trades OBVIOUS
  <1>2. R \in Request /\ InFlight(R) /\ R.pc = "adjust" /\ Accounted(rows, log, R)
    BY <1>1, ActiveAccounted DEF AdjustSelect, Active
  <1>3. R.todo # <<>> BY <1>2 DEF InFlight, Adjusting
  <1>4. PICK amount : amount = Seen(t, Head(R.todo)[1]) OBVIOUS
  <1>5. amount = rows[Head(R.todo)[1]]
    <2>1. PICK r : r = Head(R.todo)[1] OBVIOUS
    <2>2. r \in Row BY <1>2, <1>3, <2>1, TodoTypes, RowTypes
    <2> QED BY <1>1, <1>4, <2>1, <2>2, AccountsTypes, SeesPending
  <1>6. PICK new : new = [R EXCEPT !.pc = "write", !.seen = amount] OBVIOUS
  <1>7. req' = [req EXCEPT ![t] = new]
    BY <1>1, <1>4, <1>6, AccountsTypes DEF AdjustSelect, TypeOK
  <1>8. /\ new.pc = "write" /\ new.then = R.then /\ new.todo = R.todo /\ new.order = R.order
        /\ new.id = R.id /\ new.known = R.known /\ new.maker = R.maker
        /\ new.fill = R.fill /\ new.traded = R.traded /\ new.seen = amount
    BY <1>2, <1>6 DEF Request
  <1>9. Accounted(rows, log, new) BY <1>2, <1>3, <1>5, <1>8, SelectAccounted
  <1>10. Accounted(pending', trades', new) BY <1>1, <1>9 DEF AdjustSelect
  <1> QED BY <1>7, <1>10, OneAccounted DEF AdjustSelect

\* What a write does to the rows, as the accounts see them.
LEMMA WriteRows ==
  ASSUME AccountsInv, PriorityInv', NEW t \in Txn, NEW r \in Row, NEW v, Write(t, r, v)
  PROVE  /\ store' = store /\ pending'[r] = v
         /\ \A x \in Row : x # r => pending'[x] = pending[x]
         /\ RowsTyped(pending')
  <1>1. TypeOK' BY DEF PriorityInv, IInv
  <1>2. RowsTyped(pending') BY <1>1, RowTypes DEF RowsTyped, TypeOK
  <1>3. pending = [x \in Row |-> pending[x]] BY AccountsTypes DEF TypeOK
  <1> QED BY <1>2, <1>3 DEF Write

LEMMA AdjustUpdateAccounts ==
  ASSUME OneRequest, AccountsInv, PriorityInv', NEW t \in Txn, AdjustUpdate(t)
  PROVE  AccountsInv'
  <1>1. PICK R, rows, log, rows2 :
          R = req[t] /\ rows = pending /\ log = trades /\ rows2 = pending'
    OBVIOUS
  <1>2. R \in Request /\ InFlight(R) /\ R.pc = "write" /\ Accounted(rows, log, R)
    BY <1>1, ActiveAccounted DEF AdjustUpdate, Active
  <1>3. R.todo # <<>> BY <1>2 DEF InFlight, Adjusting
  <1>4. PICK r, v : r = Head(R.todo)[1] /\ v = NotBelowZero(R.seen + Head(R.todo)[2])
    OBVIOUS
  <1>5. r \in Row BY <1>2, <1>3, <1>4, TodoTypes, RowTypes
  <1>6. Write(t, r, v) BY <1>1, <1>4 DEF AdjustUpdate
  <1>7. /\ rows2[r] = v /\ RowsTyped(rows)
        /\ \A x \in Row : x # r => rows2[x] = rows[x]
    BY <1>1, <1>5, <1>6, WriteRows, AccountsTypes
  <1>8. PICK left, pc : left = Tail(R.todo) /\ pc = IF left = <<>> THEN R.then ELSE "adjust"
    OBVIOUS
  <1>9. PICK new : new = [R EXCEPT !.pc = pc, !.todo = left, !.seen = 0] OBVIOUS
  <1>10. req' = [req EXCEPT ![t] = new]
    BY <1>1, <1>8, <1>9, AccountsTypes DEF AdjustUpdate, TypeOK
  <1>11. /\ new.then = R.then /\ new.todo = left /\ new.pc = pc
         /\ new.order = R.order /\ new.id = R.id /\ new.known = R.known
         /\ new.maker = R.maker /\ new.fill = R.fill /\ new.traded = R.traded
    BY <1>2, <1>9 DEF Request
  <1>12. Cancelling(R) => R.id \in OrderId BY <1>2 DEF InFlight
  <1>13. Accounted(rows2, log, new)
    <2>1. Wrote(rows, rows2, r, v) BY <1>7 DEF Wrote
    <2>2. Kept(R, new) BY <1>11 DEF Kept
    <2>3. new.todo = Tail(R.todo) /\ new.pc = IF new.todo = <<>> THEN R.then ELSE "adjust"
      BY <1>8, <1>11
    <2> QED BY <1>2, <1>3, <1>4, <1>7, <1>12, <2>1, <2>2, <2>3, UpdateAccounted
  <1>14. Accounted(pending', trades', new) BY <1>1, <1>13 DEF AdjustUpdate
  <1>15. store' = store BY <1>5, <1>6, WriteRows
  <1> QED BY <1>10, <1>14, <1>15, OneAccounted DEF AdjustUpdate

LEMMA InsertAccounts ==
  ASSUME OneRequest, AccountsInv, PriorityInv', NEW t \in Txn, Insert(t)
  PROVE  AccountsInv'
  <1>1. PICK R, rows, log, rows2, i :
          R = req[t] /\ rows = pending /\ log = trades /\ rows2 = pending' /\ i = nextId
    OBVIOUS
  <1>2. /\ R \in Request /\ InFlight(R) /\ R.pc = "insert" /\ Accounted(rows, log, R)
        /\ R.order.status = "OPEN" /\ R.order.filled = 0
    BY <1>1, ActiveAccounted DEF Insert, Active, InFlight, Before
  <1>3. i \in OrderId /\ i > Len(Book) /\ i \in Nat
    BY <1>1, AccountsTypes DEF Insert, TypeOK, OrderId, AccountsInv
  <1>4. rows[OrderOf(i)] = Absent
    BY <1>1, <1>3, AccountsTypes DEF PriorityInv, Fresh
  <1>5. i \notin DOMAIN Book
    <2>1. DOMAIN Book = 1 .. Len(Book) /\ Len(Book) \in Nat BY BookAssumption
    <2> QED BY <1>3, <2>1
  <1>6. OrderOf(i) \in Row /\ Write(t, OrderOf(i), R.order) BY <1>1, <1>3, RowTypes DEF Insert
  <1>7. /\ rows2[OrderOf(i)] = R.order /\ RowsTyped(rows2) /\ RowsTyped(rows)
        /\ \A x \in Row : x # OrderOf(i) => rows2[x] = rows[x]
    BY <1>1, <1>6, WriteRows, AccountsTypes
  <1>8. PICK new : new = [R EXCEPT !.pc = "snapshot", !.id = i] OBVIOUS
  <1>9. new \in Request BY <1>2, <1>3, <1>8 DEF Request
  <1>10. req' = [req EXCEPT ![t] = new] BY <1>1, <1>8, AccountsTypes DEF Insert, TypeOK
  <1>11. /\ new.pc = "snapshot" /\ new.id = i /\ new.order = R.order /\ new.todo = R.todo
         /\ new.traded = R.traded
    BY <1>2, <1>8 DEF Request
  <1>12. log \in Seq(Trade) BY <1>1, AccountsTypes
  <1>13. Accounted(rows2, log, new)
    BY <1>2, <1>3, <1>4, <1>5, <1>7, <1>9, <1>11, <1>12, InsertAccounted
  <1>14. Accounted(pending', trades', new) BY <1>1, <1>13 DEF Insert
  <1>15. store' = store BY <1>6, WriteRows
  <1> QED BY <1>10, <1>14, <1>15, OneAccounted DEF Insert

LEMMA SnapshotAccounts ==
  ASSUME OneRequest, AccountsInv, PriorityInv', NEW t \in Txn, Snapshot(t)
  PROVE  AccountsInv'
  <1>1. PICK R, rows, log : R = req[t] /\ rows = pending /\ log = trades OBVIOUS
  <1>2. /\ R \in Request /\ InFlight(R) /\ R.pc = "snapshot" /\ Accounted(rows, log, R)
        /\ R.order.status = "OPEN"
    BY <1>1, ActiveAccounted DEF Snapshot, Active, InFlight
  <1>3. PICK makers, known :
          /\ makers = Matching(t)
          /\ known = [i \in OrderId |->
                       IF i \in Matching(t) THEN Seen(t, OrderOf(i)) ELSE Absent]
    OBVIOUS
  <1>4. PICK new : new = [R EXCEPT !.pc = "match", !.makers = makers, !.known = known]
    OBVIOUS
  <1>5. req' = [req EXCEPT ![t] = new]
    BY <1>1, <1>3, <1>4, AccountsTypes DEF Snapshot, TypeOK
  <1>6. /\ new.pc = "match" /\ new.id = R.id /\ new.order = R.order /\ new.todo = R.todo
        /\ new.traded = R.traded
    BY <1>2, <1>4 DEF Request
  <1>7. Accounted(rows, log, new) BY <1>2, <1>6, SnapshotAccounted
  <1>8. Accounted(pending', trades', new) BY <1>1, <1>7 DEF Snapshot
  <1> QED BY <1>5, <1>8, OneAccounted DEF Snapshot

LEMMA SettleAccounts ==
  ASSUME OneRequest, AccountsInv, PriorityInv', NEW t \in Txn, NEW i \in OrderId, Settle(t, i)
  PROVE  AccountsInv'
  <1>1. PICK R, rows, log : R = req[t] /\ rows = pending /\ log = trades OBVIOUS
  <1>2. R.pc = "match" /\ Active(t) /\ InMatch(R) BY <1>1 DEF Settle, Active, InMatch
  <1>3. R \in Request /\ Accounted(rows, log, R) BY <1>1, <1>2, ActiveAccounted
  <1>4. /\ R.order \in Order /\ R.order.quantity \in Nat /\ R.order.filled \in Nat
    BY <1>1, <1>2, MatchFacts, AccountsTypes
  <1>5. /\ i \in R.makers /\ R.order.filled < R.order.quantity
        /\ Compatible(R.order, R.known[i])
    BY <1>1 DEF Settle, IsNext
  <1>6. PICK K : K = R.known[i] OBVIOUS
  <1>7. K \in Order /\ K.quantity \in Nat /\ K.filled \in Nat /\ K.filled <= K.quantity
    BY <1>1, <1>2, <1>5, <1>6, MatchFacts, AccountsTypes
  <1>8. PICK fill : fill = Min2(R.order.quantity - R.order.filled, K.quantity - K.filled)
    OBVIOUS
  <1>9. fill \in Nat BY <1>4, <1>5, <1>7, <1>8 DEF Min2
  <1>10. PICK todo : todo = Payments(R.order, K, fill) OBVIOUS
  <1>11. todo \in Todo BY <1>4, <1>7, <1>9, <1>10, PaymentsType
  <1>12. Len(todo) <= 3 /\ \A n \in DOMAIN todo : todo[n][2] >= 0
    BY <1>4, <1>5, <1>6, <1>7, <1>9, <1>10, PaymentsDue
  <1>13. PICK new : new = [R EXCEPT !.pc = "adjust", !.then = "maker", !.maker = i,
                                    !.fill = fill, !.todo = todo]
    OBVIOUS
  <1>14. req' = [req EXCEPT ![t] = new]
    BY <1>1, <1>6, <1>8, <1>10, <1>13, AccountsTypes DEF Settle, TypeOK
  <1>15. /\ new.pc = "adjust" /\ new.then = "maker" /\ new.id = R.id /\ new.order = R.order
         /\ new.traded = R.traded /\ new.todo = todo /\ new.maker = i /\ new.fill = fill
         /\ new.known = R.known
    BY <1>3, <1>13 DEF Request
  <1>16. new.todo = Bill(new) BY <1>6, <1>10, <1>15 DEF Bill
  <1>17. Compatible(new.order, new.known[new.maker]) BY <1>5, <1>15
  <1>18. Accounted(rows, log, new)
    BY <1>2, <1>3, <1>11, <1>12, <1>15, <1>16, <1>17, SettleAccounted
  <1>19. Accounted(pending', trades', new) BY <1>1, <1>18 DEF Settle
  <1> QED BY <1>14, <1>19, OneAccounted DEF Settle

\* repo.update of a live order that is not filled beyond its quantity.
LEMMA UpdatedFills ==
  ASSUME NEW o \in Order, NEW O \in Order, O.side = o.side, O.country = o.country,
         O.quantity = o.quantity, O.price = o.price, o.status \in Live,
         NEW x \in Nat, o.filled + x <= o.quantity
  PROVE  Updated(O, o.filled + x) \in Order /\ FilledBy(o, Updated(O, o.filled + x), x)
  <1>1. PICK f \in Nat : f = o.filled + x BY PricesOf
  <1>2. PICK s, v : /\ s = StatusOf(f, O.quantity)
                    /\ v = [O EXCEPT !.filled = f, !.status = s]
    OBVIOUS
  <1>3. v = Updated(O, o.filled + x) BY <1>1, <1>2 DEF Updated
  <1>4. s \in Live \/ (s = "FILLED" /\ f >= O.quantity)
    BY <1>2 DEF StatusOf, Live
  <1>5. v \in Order BY <1>1, <1>2, <1>4 DEF Order, Live
  <1>6. /\ v.country = O.country /\ v.side = O.side /\ v.quantity = O.quantity
        /\ v.price = O.price /\ v.filled = f /\ v.status = s
    BY <1>2 DEF Order
  <1>7. v.status \in Live \/ v.filled = v.quantity BY <1>1, <1>4, <1>6, PricesOf
  <1>8. FilledBy(o, v, x) BY <1>1, <1>6, <1>7 DEF FilledBy
  <1> QED BY <1>3, <1>5, <1>8

LEMMA UpdateMakerAccounts ==
  ASSUME OneRequest, AccountsInv, PriorityInv', NEW t \in Txn, UpdateMaker(t)
  PROVE  AccountsInv'
  <1>1. PICK R, rows, log, rows2 :
          R = req[t] /\ rows = pending /\ log = trades /\ rows2 = pending'
    OBVIOUS
  <1>2. R.pc = "maker" /\ Active(t) /\ InMatch(R) /\ Paying(R)
    BY <1>1 DEF UpdateMaker, Active, InMatch, Paying
  <1>3. /\ R \in Request /\ InFlight(R) /\ Inserted(R) /\ Matchmaking(R)
        /\ R.order \in Order /\ R.order.quantity \in Nat /\ R.order.filled \in Nat
        /\ Accounted(rows, log, R)
    BY <1>1, <1>2, MatchFacts, ActiveAccounted, AccountsTypes
  <1>4. Turn(R) /\ R.maker \in R.makers /\ R.id \in OrderId
    BY <1>2, <1>3 DEF InFlight, Turn, Inserted
  <1>5. PICK i, K : i = R.maker /\ K = R.known[i] OBVIOUS
  <1>6. /\ i \in OrderId /\ i # R.id /\ K \in Order /\ K = rows[OrderOf(i)]
        /\ K.quantity \in Nat /\ K.filled \in Nat /\ K.price \in Price
        /\ K.filled <= K.quantity
    BY <1>1, <1>2, <1>3, <1>4, <1>5, MatchFacts, AccountsTypes DEF Matchmaking, Order
  <1>7. K.status \in Live /\ K.side # R.order.side
    BY <1>3, <1>4, <1>5 DEF Matchmaking, Opposes
  <1>8. /\ R.fill \in Nat /\ R.order.filled + R.fill \in Nat
        /\ K.filled + R.fill \in Nat /\ K.filled + R.fill <= K.quantity
        /\ R.order.filled + R.fill <= R.order.quantity
    BY <1>3, <1>4, <1>5, <1>6, TurnFacts
  <1>9. PICK v : v = Updated(K, K.filled + R.fill) OBVIOUS
  <1>10. v \in Order /\ FilledBy(K, v, R.fill) BY <1>6, <1>7, <1>8, <1>9, UpdatedFills
  <1>11. OrderOf(i) \in Row /\ Write(t, OrderOf(i), v)
    <2>1. OrderOf(i) \in Row BY <1>6, RowTypes
    <2>2. Seen(t, OrderOf(i)) = K BY <1>1, <1>6, <2>1, AccountsTypes, SeesPending
    <2> QED BY <1>1, <1>5, <1>9, <2>1, <2>2 DEF UpdateMaker
  <1>12. Wrote(rows, rows2, OrderOf(i), v) /\ RowsTyped(rows2) /\ RowsTyped(rows)
    BY <1>1, <1>11, WriteRows, AccountsTypes DEF Wrote
  <1>13. PICK trade : trade = [buy  |-> IF R.order.side = "BUY" THEN R.id ELSE i,
                               sell |-> IF R.order.side = "BUY" THEN i ELSE R.id,
                               quantity |-> R.fill, price |-> K.price]
    OBVIOUS
  <1>14. trade \in Trade /\ TradeOf(R, trade)
    BY <1>4, <1>5, <1>6, <1>8, <1>13 DEF Trade, TradeOf
  <1>15. PICK order : order = [R.order EXCEPT !.filled = R.order.filled + R.fill] OBVIOUS
  <1>16. R.order.status = "OPEN" BY <1>2, <1>3 DEF Accounted
  <1>17. order \in Order /\ FilledBy(R.order, order, R.fill) /\ order.status = "OPEN"
    BY <1>3, <1>8, <1>15, <1>16 DEF Order, FilledBy, Live
  <1>18. PICK new : new = [R EXCEPT !.pc = "match", !.order = order,
                                    !.makers = R.makers \ {i}, !.traded = Append(R.traded, trade)]
    OBVIOUS
  <1>19. new \in Request
    <2>1. Append(R.traded, trade) \in Seq(Trade) BY <1>3, <1>14 DEF Request
    <2>2. R.makers \ {i} \subseteq OrderId BY <1>3 DEF Request
    <2> QED BY <1>3, <1>17, <1>18, <2>1, <2>2 DEF Request
  <1>20. req' = [req EXCEPT ![t] = new]
    BY <1>1, <1>3, <1>5, <1>13, <1>15, <1>18, AccountsTypes DEF UpdateMaker, TypeOK, Request
  <1>21. /\ new.pc = "match" /\ new.id = R.id /\ new.todo = R.todo /\ new.order = order
         /\ new.traded = Append(R.traded, trade)
    BY <1>3, <1>18 DEF Request
  <1>22. log \in Seq(Trade) BY <1>1, AccountsTypes
  <1>23. FilledBy(R.order, new.order, R.fill) /\ new.order.status = "OPEN" BY <1>17, <1>21
  <1>24. Accounted(rows2, log, new)
    BY <1>2, <1>3, <1>4, <1>5, <1>6, <1>7, <1>10, <1>12, <1>14, <1>19, <1>21, <1>22, <1>23,
       MakerAccounted
  <1>25. Accounted(pending', trades', new) BY <1>1, <1>24 DEF UpdateMaker
  <1>26. store' = store BY <1>11, WriteRows
  <1> QED BY <1>20, <1>25, <1>26, OneAccounted DEF UpdateMaker

LEMMA UpdateTakerAccounts ==
  ASSUME OneRequest, AccountsInv, PriorityInv', NEW t \in Txn, UpdateTaker(t)
  PROVE  AccountsInv'
  <1>1. PICK R, rows, log, rows2 :
          R = req[t] /\ rows = pending /\ log = trades /\ rows2 = pending'
    OBVIOUS
  <1>2. R.pc = "match" /\ Active(t) /\ InMatch(R) BY <1>1 DEF UpdateTaker, Active, InMatch
  <1>3. /\ R \in Request /\ InFlight(R) /\ Inserted(R)
        /\ R.order \in Order /\ R.order.quantity \in Nat /\ R.order.filled \in Nat
        /\ Accounted(rows, log, R)
    BY <1>1, <1>2, MatchFacts, ActiveAccounted, AccountsTypes
  <1>4. PICK i, O : i = R.id /\ O = pending[OrderOf(i)] OBVIOUS
  <1>5. /\ i \in OrderId /\ O \in Order /\ O.country = R.order.country
        /\ O.side = R.order.side /\ O.price = R.order.price /\ O.quantity = R.order.quantity
    BY <1>3, <1>4 DEF Inserted, Order
  <1>6. R.order.status \in Live BY <1>2, <1>3 DEF Accounted, Live
  <1>7. R.order.filled <= R.order.quantity BY <1>3 DEF InFlight
  <1>8. PICK v : v = Updated(O, R.order.filled) OBVIOUS
  <1>9. v \in Order /\ FilledBy(R.order, v, 0)
    <2>1. R.order.filled + 0 = R.order.filled BY <1>3
    <2> QED BY <1>3, <1>5, <1>6, <1>7, <1>8, <2>1, UpdatedFills
  <1>10. OrderOf(i) \in Row /\ Write(t, OrderOf(i), v)
    <2>1. OrderOf(i) \in Row BY <1>5, RowTypes
    <2>2. Seen(t, OrderOf(i)) = O BY <1>4, <2>1, AccountsTypes, SeesPending
    <2> QED BY <1>1, <1>4, <1>8, <2>1, <2>2 DEF UpdateTaker
  <1>11. Wrote(rows, rows2, OrderOf(i), v) /\ RowsTyped(rows2) /\ RowsTyped(rows)
    BY <1>1, <1>10, WriteRows, AccountsTypes DEF Wrote
  <1>12. PICK new : new = [R EXCEPT !.pc = "commit"] OBVIOUS
  <1>13. new \in Request BY <1>3, <1>12 DEF Request
  <1>14. req' = [req EXCEPT ![t] = new]
    BY <1>1, <1>12, AccountsTypes DEF UpdateTaker, Goto, TypeOK
  <1>15. new.pc = "commit" /\ new.todo = R.todo /\ new.traded = R.traded
    BY <1>3, <1>12 DEF Request
  <1>16. log \in Seq(Trade) BY <1>1, AccountsTypes
  <1>17. Accounted(rows2, log, new)
    BY <1>2, <1>3, <1>4, <1>5, <1>9, <1>11, <1>13, <1>15, <1>16, TakerAccounted
  <1>18. Accounted(pending', trades', new) BY <1>1, <1>17 DEF UpdateTaker
  <1>19. store' = store BY <1>10, WriteRows
  <1> QED BY <1>14, <1>18, <1>19, OneAccounted DEF UpdateTaker

LEMMA MarkCancelledAccounts ==
  ASSUME OneRequest, AccountsInv, PriorityInv', NEW t \in Txn, MarkCancelled(t)
  PROVE  AccountsInv'
  <1>1. PICK R, rows, log, rows2 :
          R = req[t] /\ rows = pending /\ log = trades /\ rows2 = pending'
    OBVIOUS
  <1>2. R \in Request /\ InFlight(R) /\ R.pc = "cancel" /\ Accounted(rows, log, R)
    BY <1>1, ActiveAccounted DEF MarkCancelled, Active
  <1>3. PICK i, O : i = R.id /\ O = pending[OrderOf(i)] OBVIOUS
  <1>4. i \in OrderId /\ O \in Order /\ O.status \in Live
    BY <1>2, <1>3 DEF InFlight, Cancelling
  <1>5. R.order = O BY <1>1, <1>2, <1>3 DEF Accounted, Cancelling
  <1>6. PICK v : v = [O EXCEPT !.status = "CANCELLED"] OBVIOUS
  <1>7. /\ v \in Order /\ v.country = R.order.country /\ v.side = R.order.side
        /\ v.filled = R.order.filled /\ v.status = "CANCELLED"
    BY <1>4, <1>5, <1>6 DEF Order
  <1>8. OrderOf(i) \in Row /\ Write(t, OrderOf(i), v)
    <2>1. OrderOf(i) \in Row BY <1>4, RowTypes
    <2>2. Seen(t, OrderOf(i)) = O BY <1>3, <2>1, AccountsTypes, SeesPending
    <2> QED BY <1>1, <1>3, <1>6, <2>1, <2>2 DEF MarkCancelled
  <1>9. Wrote(rows, rows2, OrderOf(i), v) /\ RowsTyped(rows2) /\ RowsTyped(rows)
    BY <1>1, <1>8, WriteRows, AccountsTypes DEF Wrote
  <1>10. PICK new : new = [R EXCEPT !.pc = "commit"] OBVIOUS
  <1>11. new \in Request BY <1>2, <1>10 DEF Request
  <1>12. req' = [req EXCEPT ![t] = new]
    BY <1>1, <1>10, AccountsTypes DEF MarkCancelled, Goto, TypeOK
  <1>13. new.pc = "commit" /\ new.todo = R.todo /\ new.traded = R.traded
    BY <1>2, <1>10 DEF Request
  <1>14. log \in Seq(Trade) /\ rows[OrderOf(i)].status \in Live BY <1>1, <1>3, <1>4, AccountsTypes
  <1>15. Accounted(rows2, log, new)
    BY <1>2, <1>3, <1>4, <1>7, <1>9, <1>11, <1>13, <1>14, MarkAccounted
  <1>16. Accounted(pending', trades', new) BY <1>1, <1>15 DEF MarkCancelled
  <1>17. store' = store BY <1>8, WriteRows
  <1> QED BY <1>12, <1>16, <1>17, OneAccounted DEF MarkCancelled

LEMMA CommitAccounts ==
  ASSUME OneRequest, AccountsInv, PriorityInv', NEW t \in Txn, Commit(t)
  PROVE  AccountsInv'
  <1>1. PICK R, rows, log : R = req[t] /\ rows = pending /\ log = trades OBVIOUS
  <1>2. R.pc = "commit" /\ Accounted(rows, log, R)
    BY <1>1, ActiveAccounted DEF Commit, Active
  <1>3. ~Unwritten(R) /\ ~InMatch(R)
    BY <1>2 DEF Unwritten, Before, Paying, Cancelling, InMatch, Adjusting
  <1>4. \A r \in Stock : StocksOf(rows, R)[r] = rows[r]
    <2>1. \A r \in Stock : rows[r] \in Nat BY <1>1, AccountsTypes DEF RowsTyped
    <2> QED BY <1>3, <2>1 DEF StocksOf, Paid
  <1>5. BookWith(rows, R) = BookOf(rows) BY <1>2, <1>3 DEF BookWith, BookOf
  <1>6. Settled(StocksOf(rows, R), BookOf(rows), log \o R.traded)
    BY <1>2, <1>5 DEF Accounted
  <1>7. Settled(rows, BookOf(rows), log \o R.traded) BY <1>4, <1>6, SameStocksSettled
  <1>8. store' = rows BY <1>1, AccountsTypes, CommittedVersion
  <1>9. trades' = log \o R.traded BY <1>1 DEF Commit
  <1>10. Settled(store', BookOf(store'), trades') BY <1>7, <1>8, <1>9
  <1> QED BY <1>10, EndAccounts DEF Commit

LEMMA FailAccounts ==
  ASSUME OneRequest, AccountsInv, PriorityInv', NEW t \in Txn, Fail(t)
  PROVE  AccountsInv'
  <1>1. store' = store /\ trades' = trades BY DEF Fail, Rollback, ForgetWrites
  <1>2. Settled(store, BookOf(store), trades) BY AccountsTypes
  <1>3. Settled(store', BookOf(store'), trades') BY <1>1, <1>2
  <1> QED BY <1>3, EndAccounts DEF Fail, Rollback

LEMMA InitAccounts == Init => AccountsInv
  <1> SUFFICES ASSUME Init PROVE AccountsInv OBVIOUS
  <1>1. PriorityInv BY InitPriority
  <1>2. nextId > Len(Book)
    <2>1. Len(Book) \in Nat BY BookAssumption
    <2> QED BY <2>1 DEF Init
  <1>3. \A t \in Txn : ~Active(t) BY DEF Init, Active, Idle
  <1>4. trades = <<>> /\ Len(trades) = 0 BY DEF Init
  <1>5. ASSUME NEW i \in OrderId
        PROVE  BookOf(store)[i] = IF i \in DOMAIN Book THEN Book[i] ELSE Absent
    <2>1. store[OrderOf(i)] = IF i \in DOMAIN Book THEN Book[i] ELSE Absent
      BY RowTypes DEF OrderOf, Init
    <2> QED BY <2>1 DEF BookOf
  <1>6. ASSUME NEW i \in OrderId
        PROVE  /\ IsPlaced(BookOf(store), i) <=> IsPlaced(Book, i)
               /\ IsPlaced(Book, i) => BookOf(store)[i] = Book[i]
    <2>1. DOMAIN BookOf(store) = OrderId BY DEF BookOf
    <2> QED BY <1>5, <2>1 DEF IsPlaced
  <1>7. ASSUME NEW kind \in Kinds, NEW c \in Country
        PROVE  store[<<kind, c>>] + LockedBy(kind, c, BookOf(store))
                 = Opening[kind][c] + LockedBy(kind, c, Book)
                     + Gains(kind, c, BookOf(store), trades)
    <2>1. Locks(kind, c, BookOf(store)) = Locks(kind, c, Book)
      <3>1. ASSUME NEW i \in OrderId
            PROVE  (IF Owns(c, BookOf(store), i) /\ BookOf(store)[i].side = Offers(kind)
                    THEN Locked(BookOf(store)[i]) ELSE 0)
                   = (IF Owns(c, Book, i) /\ Book[i].side = Offers(kind)
                      THEN Locked(Book[i]) ELSE 0)
        BY <1>6 DEF Owns
      <3> QED BY <3>1 DEF Locks
    <2>2. PICK locked : locked = LockedBy(kind, c, Book) OBVIOUS
    <2>3. locked \in Int BY <2>2, OpeningLocksType
    <2>4. LockedBy(kind, c, BookOf(store)) = locked BY <2>1, <2>2 DEF LockedBy
    <2>5. Gains(kind, c, BookOf(store), trades) = 0 BY <1>4, SumSteps DEF Gains
    <2>6. PICK x : x = Opening[kind][c] OBVIOUS
    <2>7. x \in Nat /\ store[<<kind, c>>] = x
      <3>1. <<kind, c>> \in Stock /\ <<kind, c>> \in Row BY RowTypes DEF Stock, Kinds
      <3> QED BY <2>6, <3>1 DEF Init, Kinds
    <2> QED BY <2>2, <2>3, <2>4, <2>5, <2>6, <2>7
  <1>8. Even(store, BookOf(store), trades) BY <1>7 DEF Even, Kinds
  <1>9. Explained(BookOf(store), trades)
    <2>1. ASSUME NEW i \in OrderId, IsPlaced(BookOf(store), i)
          PROVE  BookOf(store)[i].filled = FilledBefore(i) + Traded(i, trades)
      <3>1. IsPlaced(Book, i) /\ BookOf(store)[i] = Book[i] BY <1>6, <2>1
      <3>2. Book[i].filled \in Nat
        BY <3>1, BookAssumption, PricesOf DEF IsPlaced
      <3>3. FilledBefore(i) = Book[i].filled BY <3>1 DEF FilledBefore, IsPlaced
      <3>4. Traded(i, trades) = 0 BY <1>4, SumSteps DEF Traded
      <3> QED BY <3>1, <3>2, <3>3, <3>4
    <2> QED BY <2>1 DEF Explained
  <1>10. Named(BookOf(store), trades) BY <1>4 DEF Named
  <1> QED BY <1>1, <1>2, <1>3, <1>8, <1>9, <1>10 DEF AccountsInv, Settled

LEMMA NextAccounts == ASSUME OneRequest, AccountsInv, [Next]_vars PROVE AccountsInv'
  <1>1. PriorityInv' BY AccountsTypes, NextPriority
  <1>2. CASE UNCHANGED vars
    <2>1. (nextId > Len(Book))' BY <1>2 DEF vars, AccountsInv
    <2>2. Settled(store', BookOf(store'), trades')
      <3>1. Settled(store, BookOf(store), trades) BY AccountsTypes
      <3> QED BY <1>2, <3>1 DEF vars
    <2>3. ASSUME NEW t \in Txn, Active(t)' PROVE Accounted(pending', trades', req'[t])
      <3>1. Accounted(pending, trades, req[t])
        BY <1>2, <2>3 DEF vars, AccountsInv, Active
      <3> QED BY <1>2, <3>1 DEF vars
    <2> QED BY <1>1, <2>1, <2>2, <2>3 DEF AccountsInv
  <1>3. ASSUME NEW t \in Txn, Step(t) PROVE AccountsInv'
    BY <1>1, <1>3, AdjustSelectAccounts, AdjustUpdateAccounts, InsertAccounts,
       SnapshotAccounts, SettleAccounts, UpdateMakerAccounts, UpdateTakerAccounts,
       MarkCancelledAccounts, CommitAccounts
    DEF Step
  <1> QED BY <1>1, <1>2, <1>3, PlaceAccounts, CancelAccounts, FailAccounts DEF Next

(* One request at a time: what a country has, with what its live orders lock,  *)
(* is what it started with and its trades, whatever the countries, the prices, *)
(* the quantities and the book at the start.  (market_service.py: place_order, *)
(* _match, cancel_order)                                                       *)
THEOREM AccountsAreBalanced == ASSUME OneRequest PROVE Spec => []AccountsBalance
  <1>1. AccountsInv /\ [Next]_vars => AccountsInv' BY NextAccounts
  <1>2. AccountsInv => AccountsBalance
    BY DEF AccountsInv, Settled, AccountsBalance, BookOf, CurrentBook
  <1> QED BY <1>1, <1>2, InitAccounts, PTL DEF Spec

(* One request at a time: filled_quantity of every order is what it was and    *)
(* the quantities of its logged trades.  (market_service.py: _match;           *)
(* market_repo.py: update, record_trade)                                       *)
THEOREM FillsAreTraded == ASSUME OneRequest PROVE Spec => []TradesExplainFills
  <1>1. AccountsInv /\ [Next]_vars => AccountsInv' BY NextAccounts
  <1>2. AccountsInv => TradesExplainFills
    BY DEF AccountsInv, Settled, TradesExplainFills, BookOf, CurrentBook
  <1> QED BY <1>1, <1>2, InitAccounts, PTL DEF Spec
=============================================================================
