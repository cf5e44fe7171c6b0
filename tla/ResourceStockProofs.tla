------------------------- MODULE ResourceStockProofs ------------------------
(***************************************************************************)
(* The requests on the resource stocks implement the ledger of every       *)
(* country whose requests come one at a time, whatever the number of       *)
(* countries, resources and requests, and whatever the countries that      *)
(* share their stocks do meanwhile.                                        *)
(***************************************************************************)
EXTENDS ResourceStock, TLAPS

-----------------------------------------------------------------------------
(* The inductive invariant.                                                *)

\* What t has taken (or given) of resource k so far.
Paid(t, k) ==
  req[t].done * req[t].cost[k]
    + (IF req[t].pc \in {"select", "update"} /\ k \notin req[t].todo
       THEN req[t].cost[k] ELSE 0)

\* The control of a request: how far it is tells what is left to do.
Control(t) ==
  LET R == req[t] IN
  /\ R.bill \in Bill
  /\ R.count \in 1 .. MaxCount
  /\ R.kind # "spend" => R.count = 1
  /\ R.kind # "upkeep" => R.cost = R.bill
  /\ R.kind = "grant" => R.pc # "covers"
  /\ R.kind = "spend" => R.todo \subseteq Positive(R.cost)
  /\ R.pc = "commit" => R.done = R.count
  /\ R.pc # "commit" => R.done < R.count
  /\ R.pc = "update" => R.key \in R.todo /\ R.seen = Seen(t, RowOf(t, R.key))

\* What t sees of its country is the committed stock and its own account.
Account(t) ==
  \A k \in Key :
    Seen(t, RowOf(t, k)) = stock[RowOf(t, k)]
      + (IF req[t].kind = "grant" THEN Paid(t, k) ELSE -Paid(t, k))

\* What covers() has found to be there is still there.
Covered(t) ==
  \A k \in Key :
    /\ req[t].kind = "spend" =>
         /\ req[t].pc = "covers" /\ k \notin req[t].todo
              => req[t].cost[k] <= Seen(t, RowOf(t, k))
         /\ req[t].pc \in {"select", "update"} /\ k \in req[t].todo
              => req[t].cost[k] <= Seen(t, RowOf(t, k))
    /\ req[t].kind = "upkeep" =>
         req[t].cost[k] = IF req[t].pc = "covers" /\ k \in req[t].todo
                          THEN req[t].bill[k]
                          ELSE Least(req[t].bill[k], stock[RowOf(t, k)])

\* t acts for a country that has no other request in flight.
Exclusive(t) == Active(t) /\ req[t].country \in Alone

TxnInv(t) == Exclusive(t) => Control(t) /\ Account(t) /\ Covered(t)

OnePerCountry ==
  \A t, u \in Txn : Exclusive(t) /\ Active(u) /\ t # u => req[t].country # req[u].country

IInv == TypeOK /\ HoldersAreLive /\ OnePerCountry /\ \A t \in Txn : TxnInv(t)

-----------------------------------------------------------------------------
(* Types.                                                                  *)

USE TxnAssumption, BillAssumption, CountAssumption, OpeningAssumption

LEMMA PositiveType == ASSUME NEW bill PROVE Positive(bill) \subseteq Key
  BY DEF Positive

\* Only an active request has the fields of a request.
LEMMA ActiveType == ASSUME TypeOK, NEW t \in Txn, Active(t) PROVE req[t] \in Request
  BY DEF TypeOK, Active, Idle

LEMMA SeenType ==
  ASSUME TypeOK, NEW t \in Txn, NEW r \in Row PROVE Seen(t, r) \in Nat
  BY DEF TypeOK, Seen

LEMMA RollbackType ==
  ASSUME TypeOK, NEW t \in Txn, Rollback(t) PROVE TypeOK'
  BY DEF TypeOK, Rollback, ForgetWrites, Release, Finish

LEMMA StartType ==
  ASSUME TypeOK, NEW t \in Txn, NEW kind \in Kind, NEW c \in Country,
         NEW bill \in Bill, NEW count \in 1 .. MaxCount, Start(t, kind, c, bill, count)
  PROVE  TypeOK'
  <1>1. (CHOOSE k \in Positive(bill) : TRUE) \in Key
    BY DEF Start, Positive
  <1>2. req'[t] \in Request
    BY <1>1, PositiveType DEF Start, TypeOK, Request, Pc, Kind
  <1>3. QED
    BY <1>2 DEF TypeOK, Start
LEMMA CoversType ==
  ASSUME TypeOK, NEW t \in Txn, NEW k \in Key, Covers(t, k)
  PROVE  TypeOK'
  <1>1. req[t] \in Request
    BY ActiveType DEF Active, Covers
  <1>2. RowOf(t, k) \in Row
    BY <1>1 DEF RowOf, Row, Request
  <1>3. PICK cost \in [Key -> Nat] : AfterCovers(t, k, cost)
    <2>1. CASE AfterCovers(t, k, req[t].cost)
      BY <2>1, <1>1 DEF Request
    <2>2. CASE AfterCovers(t, k, [req[t].cost EXCEPT
                 ![k] = Least(req[t].cost[k], Seen(t, RowOf(t, k)))])
      BY <2>2, <1>1, <1>2, SeenType DEF Request, Least
    <2>3. QED
      BY <2>1, <2>2 DEF Covers
  <1>4. req'[t] \in Request
    <2>1. Positive(cost) \in SUBSET Key /\ req[t].todo \ {k} \in SUBSET Key
      BY <1>1, PositiveType DEF Request
    <2>2. req'[t] = [req[t] EXCEPT !.cost = cost, !.pc = req'[t].pc,
                                   !.done = req'[t].done, !.todo = req'[t].todo]
      BY <1>1, <1>3 DEF AfterCovers, Request, TypeOK
    <2>3. /\ req'[t].pc \in Pc /\ req'[t].done \in Nat
          /\ req'[t].todo \in SUBSET Key
      BY <1>1, <1>3, <2>1 DEF AfterCovers, Request, Pc, TypeOK
    <2>4. QED
      BY <1>1, <1>3, <2>2, <2>3 DEF Request
  <1>5. QED
    BY <1>3, <1>4 DEF TypeOK, AfterCovers, Covers

LEMMA SelectType ==
  ASSUME TypeOK, NEW t \in Txn, NEW k \in Key, Select(t, k)
  PROVE  TypeOK'
  <1>1. req[t] \in Request
    BY ActiveType DEF Active, Select
  <1>2. Seen(t, RowOf(t, k)) \in Nat
    BY <1>1, SeenType DEF RowOf, Row, Request
  <1>3. req'[t] \in Request
    BY <1>1, <1>2 DEF Select, TypeOK, Request, Pc
  <1>4. QED
    BY <1>3 DEF TypeOK, Select

LEMMA UpdateType ==
  ASSUME TypeOK, NEW t \in Txn, Update(t)
  PROVE  TypeOK'
  <1>1. req[t] \in Request
    BY ActiveType DEF Active, Update
  <1>2. Adjusted(t) \in Nat
    BY <1>1 DEF Adjusted, NotBelowZero, Request
  <1>3. RowOf(t, req[t].key) \in Row
    BY <1>1 DEF RowOf, Row, Request
  <1>4. req'[t] \in Request
    <2>1. /\ Positive(req[t].cost) \in SUBSET Key
          /\ req[t].todo \ {req[t].key} \in SUBSET Key
      BY <1>1, PositiveType DEF Request
    <2> DEFINE left == req[t].todo \ {req[t].key}
               bought == req[t].done + 1
               again == left = {} /\ bought < req[t].count
               pc == IF left # {} THEN "select"
                     ELSE IF bought < req[t].count THEN "covers" ELSE "commit"
               done == IF left = {} THEN bought ELSE req[t].done
               todo == IF again THEN Positive(req[t].cost) ELSE left
    <2>2. pc \in Pc /\ done \in Nat /\ todo \in SUBSET Key
      BY <1>1, <2>1 DEF Pc, Request
    <2>3. req'[t] = [req[t] EXCEPT !.seen = 0, !.done = done, !.pc = pc, !.todo = todo]
      BY DEF Update, TypeOK
    <2> HIDE DEF pc, done, todo
    <2>4. [req[t] EXCEPT !.seen = 0] \in Request
      BY <1>1 DEF Request
    <2>5. [[req[t] EXCEPT !.seen = 0] EXCEPT !.done = done, !.pc = pc, !.todo = todo] \in Request
      BY <2>2, <2>4 DEF Request
    <2>6. QED
      BY <1>1, <2>3, <2>5 DEF Request
  <1>5. QED
    BY <1>2, <1>3, <1>4 DEF TypeOK, Update, Write

LEMMA CommitType ==
  ASSUME TypeOK, NEW t \in Txn, Commit(t)
  PROVE  TypeOK'
  BY SeenType DEF TypeOK, Commit, CommitWrites, Release, Finish

(* The state keeps its type: no amount goes below zero, every row has at most *)
(* one holder and every request is idle or complete (ResourceStock!TypeOK).   *)
THEOREM TypeCorrect == Spec => []TypeOK
  <1>1. Init => TypeOK
    BY DEF Init, TypeOK, Row
  <1>2. TypeOK /\ [Next]_vars => TypeOK'
    <2> SUFFICES ASSUME TypeOK, [Next]_vars PROVE TypeOK'
      OBVIOUS
    <2>1. CASE UNCHANGED vars
      BY <2>1 DEF vars, TypeOK
    <2>2. ASSUME NEW t \in Txn, Purchase(t) PROVE TypeOK'
      BY <2>2, StartType DEF Purchase, Kind
    <2>3. ASSUME NEW t \in Txn, Reward(t) PROVE TypeOK'
      BY <2>3, StartType DEF Reward, Kind
    <2>4. ASSUME NEW t \in Txn, Consume(t) PROVE TypeOK'
      BY <2>4, StartType DEF Consume, Kind
    <2>5. ASSUME NEW t \in Txn, Step(t) PROVE TypeOK'
      BY <2>5, CoversType, SelectType, UpdateType, CommitType, RollbackType
         DEF Step, Refuse, DeadlockVictim
    <2>6. ASSUME NEW t \in Txn, Fail(t) PROVE TypeOK'
      BY <2>6, RollbackType DEF Fail
    <2>7. QED
      BY <2>1, <2>2, <2>3, <2>4, <2>5, <2>6 DEF Next
  <1>3. QED
    BY <1>1, <1>2, PTL DEF Spec

-----------------------------------------------------------------------------
(* A step of one request and the others.                                   *)

LEMMA TimesZero == \A x \in Nat : 0 * x = 0
  OBVIOUS

LEMMA TimesNext == \A n, x \in Nat : (n + 1) * x = n * x + x /\ n * x \in Nat
  OBVIOUS

\* A request keeps its invariant while its own state, and what it sees and
\* what is committed in its country, stay.
LEMMA Undisturbed ==
  ASSUME NEW u \in Txn, TxnInv(u), req'[u] = req[u],
         \A k \in Key : /\ Seen(u, RowOf(u, k))' = Seen(u, RowOf(u, k))
                        /\ stock'[RowOf(u, k)] = stock[RowOf(u, k)],
         Active(u) => req[u] \in Request
  PROVE  TxnInv(u)'
  <1> SUFFICES ASSUME Exclusive(u)' PROVE Control(u)' /\ Account(u)' /\ Covered(u)'
    BY DEF TxnInv
  <1>1. Exclusive(u) /\ req[u] \in Request
    BY DEF Exclusive, Active
  <1>2. \A k \in Key : RowOf(u, k)' = RowOf(u, k)
    BY DEF RowOf
  <1>3. \A k \in Key : Paid(u, k)' = Paid(u, k)
    BY DEF Paid
  <1>4. Control(u)'
    BY <1>1, <1>2 DEF TxnInv, Control, Request
  <1>5. Account(u)'
    BY <1>1, <1>2, <1>3 DEF TxnInv, Account
  <1>6. Covered(u)'
    BY <1>1, <1>2 DEF TxnInv, Covered
  <1>7. QED
    BY <1>4, <1>5, <1>6

\* Steps that write nothing.
LEMMA OthersWhenNothingWritten ==
  ASSUME IInv, NEW t \in Txn, UNCHANGED <<stock, holder, pending>>,
         NEW R, req' = [req EXCEPT ![t] = R]
  PROVE  \A u \in Txn \ {t} : TxnInv(u)'
  <1> SUFFICES ASSUME NEW u \in Txn \ {t} PROVE TxnInv(u)'
    OBVIOUS
  <1>1. req'[u] = req[u]
    BY DEF IInv, TypeOK
  <1>2. \A k \in Key : /\ Seen(u, RowOf(u, k))' = Seen(u, RowOf(u, k))
                       /\ stock'[RowOf(u, k)] = stock[RowOf(u, k)]
    BY <1>1 DEF Seen, RowOf
  <1>3. QED
    BY <1>1, <1>2, Undisturbed, ActiveType DEF IInv

\* The rows of an exclusive request's country are not t's.
LEMMA NotMine ==
  ASSUME IInv, NEW t \in Txn, NEW u \in Txn \ {t}, Exclusive(u), NEW k \in Key
  PROVE  RowOf(u, k) \in Row /\ holder[RowOf(u, k)] # t
  <1>1. req[u] \in Request
    BY ActiveType DEF IInv, Exclusive
  <1>2. RowOf(u, k) \in Row /\ RowOf(u, k)[1] = req[u].country
    BY <1>1 DEF RowOf, Row, Request
  <1>3. QED
    BY <1>2, TxnAssumption DEF IInv, HoldersAreLive, OnePerCountry

\* Steps that end t: only the rows t holds change.
LEMMA OthersWhenFinished ==
  ASSUME IInv, NEW t \in Txn, Release(t), Finish(t),
         \A r \in Row : holder[r] # t => stock'[r] = stock[r] /\ pending'[r] = pending[r]
  PROVE  \A u \in Txn \ {t} : TxnInv(u)'
  <1> SUFFICES ASSUME NEW u \in Txn \ {t} PROVE TxnInv(u)'
    OBVIOUS
  <1>1. req'[u] = req[u]
    BY DEF IInv, TypeOK, Finish
  <1>2. CASE ~Exclusive(u)
    BY <1>1, <1>2 DEF TxnInv, Exclusive, Active
  <1>3. CASE Exclusive(u)
    <2>1. \A k \in Key : RowOf(u, k)' = RowOf(u, k)
      BY <1>1 DEF RowOf
    <2>2. \A k \in Key : /\ Seen(u, RowOf(u, k))' = Seen(u, RowOf(u, k))
                         /\ stock'[RowOf(u, k)] = stock[RowOf(u, k)]
      BY <1>3, <2>1, NotMine, TxnAssumption DEF Seen, Release
    <2>3. QED
      BY <1>1, <2>2, Undisturbed, ActiveType DEF IInv
  <1>4. QED
    BY <1>2, <1>3

-----------------------------------------------------------------------------
(* Each kind of step preserves the invariant.                              *)

LEMMA StartInv ==
  ASSUME IInv, NEW t \in Txn, NEW kind \in Kind, NEW c \in Country,
         NEW bill \in Bill, NEW count \in 1 .. MaxCount,
         kind # "spend" => count = 1, Start(t, kind, c, bill, count)
  PROVE  IInv'
  <1> DEFINE R == req'[t]
  <1>1. TypeOK'
    BY StartType DEF IInv
  <1>2. /\ R.pc = IF kind = "grant" THEN "select" ELSE "covers"
        /\ R.kind = kind /\ R.country = c /\ R.bill = bill /\ R.cost = bill
        /\ R.count = count /\ R.done = 0 /\ R.todo = Positive(bill)
        /\ \A u \in Txn \ {t} : req'[u] = req[u]
    BY DEF Start, IInv, TypeOK
  <1>3. \A u \in Txn \ {t} : TxnInv(u)'
    BY OthersWhenNothingWritten DEF Start
  <1>4. TxnInv(t)'
    <2> SUFFICES ASSUME c \in Alone PROVE TxnInv(t)'
      BY <1>2 DEF TxnInv, Exclusive
    <2>1. \A k \in Key : RowOf(t, k)' \in Row /\ holder[RowOf(t, k)'] # t
      BY <1>2 DEF IInv, HoldersAreLive, Start, RowOf, Row, TypeOK
    <2>2. \A k \in Key : Seen(t, RowOf(t, k))' = stock'[RowOf(t, k)']
      BY <2>1 DEF Seen, Start
    <2>3. \A k \in Key : /\ bill[k] \in Nat /\ stock'[RowOf(t, k)'] \in Nat
                         /\ k \notin Positive(bill) => bill[k] = 0
      BY <2>1, BillAssumption DEF Positive, IInv, TypeOK, Start
    <2>4. Control(t)'
      BY <1>2 DEF Control, Kind
    <2>5. \A k \in Key : Paid(t, k)' = 0
      BY <1>2, <2>3, TimesZero DEF Paid
    <2>6. Account(t)'
      BY <2>2, <2>3, <2>5 DEF Account
    <2>7. Covered(t)'
      BY <1>2, <2>2, <2>3 DEF Covered, Least, Kind
    <2>8. QED
      BY <2>4, <2>6, <2>7 DEF TxnInv
  <1>5. HoldersAreLive'
    BY <1>2 DEF IInv, HoldersAreLive, Start, Active, TypeOK
  <1>6. OnePerCountry'
    BY <1>2 DEF IInv, OnePerCountry, Start, MayStart, Exclusive, Active, Alone
  <1>7. QED
    BY <1>1, <1>3, <1>4, <1>5, <1>6 DEF IInv

\* Steps of a live request that stays live, in its country.
LEMMA StaysLive ==
  ASSUME IInv, NEW t \in Txn, Active(t), Active(t)',
         req'[t].country = req[t].country,
         \A u \in Txn \ {t} : req'[u] = req[u],
         \A r \in Row : holder'[r] = holder[r] \/ (holder'[r] = t /\ r[1] = req[t].country)
  PROVE  HoldersAreLive' /\ OnePerCountry'
  <1>1. HoldersAreLive'
    BY DEF IInv, TypeOK, HoldersAreLive, Active
  <1>2. OnePerCountry'
    BY DEF IInv, OnePerCountry, Exclusive, Active
  <1>3. QED
    BY <1>1, <1>2

\* A request that shares its country's stocks has no account to keep.
LEMMA SharedInv ==
  ASSUME IInv, TypeOK', NEW t \in Txn, Active(t), Active(t)', ~Exclusive(t),
         req'[t].country = req[t].country,
         \A u \in Txn \ {t} : req'[u] = req[u] /\ TxnInv(u)',
         \A r \in Row : holder'[r] = holder[r] \/ (holder'[r] = t /\ r[1] = req[t].country)
  PROVE  IInv'
  <1>1. TxnInv(t)'
    BY DEF TxnInv, Exclusive
  <1>2. QED
    BY <1>1, StaysLive DEF IInv

LEMMA FinishInv ==
  ASSUME IInv, TypeOK', NEW t \in Txn, Release(t), Finish(t),
         \A r \in Row : holder[r] # t => stock'[r] = stock[r] /\ pending'[r] = pending[r]
  PROVE  IInv'
  <1>1. ~Active(t)' /\ \A u \in Txn \ {t} : req'[u] = req[u]
    BY DEF Finish, Active, Idle, IInv, TypeOK
  <1>2. TxnInv(t)'
    BY <1>1 DEF TxnInv, Exclusive
  <1>3. HoldersAreLive'
    BY <1>1, TxnAssumption DEF IInv, HoldersAreLive, Release, Active, TypeOK
  <1>4. OnePerCountry'
    BY <1>1 DEF IInv, OnePerCountry, Exclusive, Active
  <1>5. QED
    BY <1>2, <1>3, <1>4, OthersWhenFinished DEF IInv

LEMMA RollbackInv == ASSUME IInv, NEW t \in Txn, Rollback(t) PROVE IInv'
  BY RollbackType, FinishInv DEF Rollback, ForgetWrites, IInv

LEMMA CommitInv == ASSUME IInv, NEW t \in Txn, Commit(t) PROVE IInv'
  BY CommitType, FinishInv DEF Commit, CommitWrites, Seen, IInv

LEMMA SelectInv ==
  ASSUME IInv, NEW t \in Txn, NEW k \in Key, Select(t, k) PROVE IInv'
  <1>1. req[t] \in Request /\ Active(t)
    BY ActiveType DEF Active, Select, IInv
  <1>2. /\ req'[t] = [req[t] EXCEPT !.pc = "update", !.key = k, !.seen = Seen(t, RowOf(t, k))]
        /\ \A u \in Txn \ {t} : req'[u] = req[u]
    BY DEF Select, IInv, TypeOK
  <1>3. /\ req'[t].pc = "update" /\ req'[t].key = k /\ req'[t].seen = Seen(t, RowOf(t, k))
        /\ req'[t].kind = req[t].kind /\ req'[t].country = req[t].country
        /\ req'[t].bill = req[t].bill /\ req'[t].cost = req[t].cost
        /\ req'[t].count = req[t].count /\ req'[t].done = req[t].done
        /\ req'[t].todo = req[t].todo
    BY <1>1, <1>2 DEF Request
  <1>4. \A j \in Key : RowOf(t, j)' = RowOf(t, j) /\ Seen(t, RowOf(t, j))' = Seen(t, RowOf(t, j))
    BY <1>3 DEF RowOf, Seen, Select
  <1>5. Exclusive(t) => Control(t)'
    BY <1>1, <1>3, <1>4 DEF IInv, TxnInv, Control, Select
  <1>6. Exclusive(t) => Account(t)'
    <2>1. \A j \in Key : Paid(t, j)' = Paid(t, j)
      BY <1>3 DEF Paid, Select
    <2>2. QED
      BY <1>1, <1>3, <1>4, <2>1 DEF IInv, TxnInv, Account, Select
  <1>7. Exclusive(t) => Covered(t)'
    BY <1>1, <1>3, <1>4 DEF IInv, TxnInv, Covered, Select
  <1>x. Exclusive(t)' => Exclusive(t)
    BY <1>1, <1>3 DEF Exclusive
  <1>8. HoldersAreLive' /\ OnePerCountry'
    BY <1>1, <1>2, <1>3, StaysLive DEF Select, Active
  <1>9. QED
    BY <1>5, <1>6, <1>7, <1>x, <1>8, SelectType, OthersWhenNothingWritten
       DEF IInv, TxnInv, Select

LEMMA CoversAlone ==
  ASSUME IInv, NEW t \in Txn, NEW k \in Key, Covers(t, k), Exclusive(t) PROVE IInv'
  <1>1. req[t] \in Request /\ Active(t) /\ req[t].pc = "covers" /\ k \in req[t].todo
    BY ActiveType DEF Active, Covers, IInv
  <1>2. Control(t) /\ Account(t) /\ Covered(t)
    BY <1>1 DEF IInv, TxnInv
  <1>3. \A j \in Key : /\ RowOf(t, j) \in Row /\ stock[RowOf(t, j)] \in Nat
                       /\ Seen(t, RowOf(t, j)) \in Nat
    BY <1>1, SeenType DEF RowOf, Row, Request, IInv, TypeOK
  <1>4. PICK cost \in [Key -> Nat] :
          /\ AfterCovers(t, k, cost)
          /\ \A j \in Key \ {k} : cost[j] = req[t].cost[j]
          /\ req[t].kind = "spend" => cost = req[t].cost /\ cost[k] <= Seen(t, RowOf(t, k))
          /\ req[t].kind = "upkeep" => cost[k] = Least(req[t].cost[k], Seen(t, RowOf(t, k)))
          /\ req[t].kind \in {"spend", "upkeep"}
    <2>1. CASE req[t].kind = "spend"
      BY <1>1, <2>1 DEF Covers, Request
    <2>2. CASE req[t].kind = "upkeep"
      <3> DEFINE c == [req[t].cost EXCEPT ![k] = Least(req[t].cost[k], Seen(t, RowOf(t, k)))]
      <3>1. c \in [Key -> Nat]
        BY <1>1, <1>3 DEF Request, Least
      <3>2. AfterCovers(t, k, c) /\ (\A j \in Key \ {k} : c[j] = req[t].cost[j])
        BY <1>1, <2>2 DEF Covers, Request
      <3>3. c[k] = Least(req[t].cost[k], Seen(t, RowOf(t, k)))
        BY <1>1 DEF Request
      <3>4. QED
        BY <2>2, <3>1, <3>2, <3>3
    <2>3. QED
      BY <2>1, <2>2 DEF Covers
  <1> DEFINE left == req[t].todo \ {k}
  <1>5. /\ \A u \in Txn \ {t} : req'[u] = req[u]
        /\ req'[t].kind = req[t].kind /\ req'[t].country = req[t].country
        /\ req'[t].bill = req[t].bill /\ req'[t].count = req[t].count
        /\ req'[t].cost = cost
        /\ left # {} => req'[t].pc = "covers" /\ req'[t].done = req[t].done /\ req'[t].todo = left
        /\ left = {} /\ Positive(cost) # {} =>
             req'[t].pc = "select" /\ req'[t].done = req[t].done /\ req'[t].todo = Positive(cost)
        /\ left = {} /\ Positive(cost) = {} =>
             req'[t].pc = "commit" /\ req'[t].done = req[t].done + 1 /\ req'[t].todo = {}
    BY <1>1, <1>4 DEF AfterCovers, Request, IInv, TypeOK
  <1>6. \A j \in Key : /\ RowOf(t, j)' = RowOf(t, j) /\ Seen(t, RowOf(t, j))' = Seen(t, RowOf(t, j))
                       /\ stock'[RowOf(t, j)] = stock[RowOf(t, j)]
    BY <1>5 DEF RowOf, Seen, Covers
  <1>7. \A j \in Key : cost[j] \in Nat /\ (j \notin Positive(cost) => cost[j] = 0)
    BY DEF Positive
  <1>8. req[t].kind = "upkeep" => req[t].done = 0 /\ req[t].count = 1
    BY <1>1, <1>2 DEF Control, Request
  <1>9. \A j \in Key : Paid(t, j)' = Paid(t, j) /\ Paid(t, j) = req[t].done * req[t].cost[j]
    <2> SUFFICES ASSUME NEW j \in Key
                 PROVE  Paid(t, j)' = Paid(t, j) /\ Paid(t, j) = req[t].done * req[t].cost[j]
      OBVIOUS
    <2>1. Paid(t, j) = req[t].done * req[t].cost[j]
      BY <1>1, TimesNext DEF Paid, Request
    <2>2. req[t].done * cost[j] = req[t].done * req[t].cost[j]
      BY <1>1, <1>4, <1>7, <1>8, TimesZero DEF Request
    <2>3. req'[t].done * cost[j] + (IF req'[t].pc = "select" /\ j \notin req'[t].todo
                                    THEN cost[j] ELSE 0) = req[t].done * cost[j]
      <3>1. CASE left = {} /\ Positive(cost) = {}
        BY <1>1, <1>5, <1>7, <3>1, TimesNext DEF Request
      <3>2. CASE left # {} \/ Positive(cost) # {}
        BY <1>1, <1>5, <1>7, <3>2, TimesNext DEF Request
      <3>3. QED
        BY <3>1, <3>2
    <2>4. QED
      BY <1>5, <2>1, <2>2, <2>3 DEF Paid
  <1>10. Control(t)'
    <2>1. req[t].kind = "spend" => left \subseteq Positive(cost) /\ Positive(cost) # {}
      BY <1>1, <1>2, <1>4 DEF Control
    <2>2. /\ req[t].done \in Nat /\ req[t].count \in Nat /\ req[t].done < req[t].count
      BY <1>1, <1>2 DEF Control, Request
    <2>3. CASE left # {}
      BY <1>1, <1>2, <1>4, <1>5, <2>1, <2>2, <2>3 DEF Control
    <2>4. CASE left = {} /\ Positive(cost) # {}
      BY <1>1, <1>2, <1>4, <1>5, <2>1, <2>2, <2>4 DEF Control
    <2>5. CASE left = {} /\ Positive(cost) = {}
      BY <1>1, <1>2, <1>4, <1>5, <1>8, <2>1, <2>2, <2>5 DEF Control
    <2>6. QED
      BY <2>3, <2>4, <2>5
  <1>11. Account(t)'
    BY <1>2, <1>5, <1>6, <1>9 DEF Account
  <1>12. Covered(t)'
    <2>1. ASSUME req[t].kind = "spend", NEW j \in Key
          PROVE  req[t].cost[j] <= Seen(t, RowOf(t, j)) \/ j \in left
      BY <1>1, <1>2, <1>3, <1>4, <2>1 DEF Covered
    <2>2. ASSUME req[t].kind = "upkeep", NEW j \in Key
          PROVE  cost[j] = IF j \in left THEN req[t].bill[j]
                           ELSE Least(req[t].bill[j], stock[RowOf(t, j)])
      <3>1. Paid(t, j) = 0
        BY <1>1, <1>8, <1>9, <2>2, TimesZero DEF Request
      <3>2. Seen(t, RowOf(t, j)) = stock[RowOf(t, j)]
        BY <1>2, <1>3, <2>2, <3>1 DEF Account
      <3>3. QED
        BY <1>1, <1>2, <1>4, <2>2, <3>2 DEF Covered
    <2>3. CASE left # {}
      BY <1>4, <1>5, <1>6, <2>1, <2>2, <2>3 DEF Covered
    <2>4. CASE left = {}
      BY <1>4, <1>5, <1>6, <1>7, <2>1, <2>2, <2>4 DEF Covered
    <2>5. QED
      BY <2>3, <2>4
  <1>13. HoldersAreLive' /\ OnePerCountry'
    BY <1>1, <1>5, StaysLive DEF Covers, Active
  <1>14. QED
    BY <1>4, <1>10, <1>11, <1>12, <1>13, CoversType, OthersWhenNothingWritten
       DEF IInv, TxnInv, AfterCovers, Covers

LEMMA CoversInv ==
  ASSUME IInv, NEW t \in Txn, NEW k \in Key, Covers(t, k) PROVE IInv'
  <1>1. req[t] \in Request /\ Active(t)
    BY ActiveType DEF Active, Covers, IInv
  <1>2. PICK cost : AfterCovers(t, k, cost)
    BY DEF Covers
  <1>3. /\ \A u \in Txn \ {t} : req'[u] = req[u]
        /\ req'[t].country = req[t].country /\ Active(t)'
    BY <1>1, <1>2 DEF AfterCovers, Request, IInv, TypeOK, Active
  <1>4. \A u \in Txn \ {t} : TxnInv(u)'
    BY <1>2, OthersWhenNothingWritten DEF AfterCovers, Covers
  <1>5. CASE ~Exclusive(t)
    BY <1>1, <1>3, <1>4, <1>5, CoversType, SharedInv DEF IInv, Covers
  <1>6. QED
    BY <1>5, CoversAlone

\* The UPDATE of one request and the others.
LEMMA UpdateEffect ==
  ASSUME IInv, NEW t \in Txn, Update(t)
  PROVE  /\ req[t] \in Request /\ Active(t) /\ Active(t)'
         /\ req'[t].country = req[t].country
         /\ \A u \in Txn \ {t} : req'[u] = req[u] /\ TxnInv(u)'
         /\ \A r \in Row : holder'[r] = holder[r] \/ (holder'[r] = t /\ r[1] = req[t].country)
  <1>1. req[t] \in Request /\ Active(t)
    BY ActiveType DEF Active, Update, IInv
  <1>2. PICK k \in Key : k = req[t].key
    BY <1>1 DEF Request
  <1>3. /\ \A u \in Txn \ {t} : req'[u] = req[u]
        /\ req'[t].country = req[t].country
        /\ req'[t].pc \in {"select", "covers", "commit"}
    BY <1>1 DEF Update, Request, IInv, TypeOK
  <1>4. \A r \in Row : holder'[r] = holder[r] \/ (holder'[r] = t /\ r = RowOf(t, k))
    BY <1>1, <1>2 DEF Update, Write, IInv, TypeOK
  <1>5. RowOf(t, k)[1] = req[t].country
    BY DEF RowOf
  <1>6. ASSUME NEW u \in Txn \ {t} PROVE TxnInv(u)'
    <2>1. CASE ~Exclusive(u)
      BY <1>3, <2>1 DEF TxnInv, Exclusive, Active
    <2>2. CASE Exclusive(u)
      <3>1. \A j \in Key : RowOf(u, j)' = RowOf(u, j) /\ RowOf(u, j) # RowOf(t, k)
        BY <1>1, <1>3, <2>2 DEF RowOf, IInv, OnePerCountry
      <3>2. \A j \in Key : /\ Seen(u, RowOf(u, j))' = Seen(u, RowOf(u, j))
                           /\ stock'[RowOf(u, j)] = stock[RowOf(u, j)]
        BY <2>2, <3>1, NotMine, <1>2 DEF Seen, Update, Write, IInv, TypeOK
      <3>3. QED
        BY <1>3, <3>2, Undisturbed, ActiveType DEF IInv
    <2>3. QED
      BY <2>1, <2>2
  <1>7. Active(t)'
    BY <1>3 DEF Active
  <1>8. QED
    BY <1>1, <1>3, <1>4, <1>5, <1>6, <1>7

LEMMA UpdateAlone ==
  ASSUME IInv, NEW t \in Txn, Update(t), Exclusive(t) PROVE IInv'
  <1>1. req[t] \in Request /\ Active(t) /\ req[t].pc = "update"
    BY ActiveType DEF Active, Update, IInv
  <1>k. PICK k \in Key : k = req[t].key
    BY <1>1 DEF Request
  <1>c. PICK cost \in [Key -> Nat] : cost = req[t].cost
    BY <1>1 DEF Request
  <1> DEFINE left == req[t].todo \ {k}
             again == req[t].done + 1 < req[t].count
  <1>2. Control(t) /\ Account(t) /\ Covered(t)
    BY <1>1 DEF IInv, TxnInv
  <1>3. /\ k \in Key /\ k \in req[t].todo /\ cost \in [Key -> Nat]
        /\ req[t].done \in Nat /\ req[t].count \in Nat
        /\ req[t].seen = Seen(t, RowOf(t, k))
    BY <1>1, <1>2, <1>k DEF Control, Request
  <1>4. \A j \in Key : /\ RowOf(t, j) \in Row /\ stock[RowOf(t, j)] \in Nat
                       /\ Seen(t, RowOf(t, j)) \in Nat /\ cost[j] \in Nat
                       /\ req[t].done * cost[j] \in Nat
    BY <1>1, <1>3, SeenType, TimesNext DEF RowOf, Row, Request, IInv, TypeOK
  <1>5. /\ \A u \in Txn \ {t} : req'[u] = req[u]
        /\ req'[t].kind = req[t].kind /\ req'[t].country = req[t].country
        /\ req'[t].bill = req[t].bill /\ req'[t].count = req[t].count
        /\ req'[t].cost = cost
        /\ left # {} => req'[t].pc = "select" /\ req'[t].done = req[t].done /\ req'[t].todo = left
        /\ left = {} /\ again =>
             req'[t].pc = "covers" /\ req'[t].done = req[t].done + 1 /\ req'[t].todo = Positive(cost)
        /\ left = {} /\ ~again =>
             req'[t].pc = "commit" /\ req'[t].done = req[t].done + 1 /\ req'[t].todo = {}
    BY <1>1, <1>k, <1>c DEF Update, Request, IInv, TypeOK
  <1>6. req[t].kind # "spend" => req[t].done = 0 /\ req[t].count = 1
    BY <1>1, <1>2, <1>3 DEF Control
  <1>7. Paid(t, k) = req[t].done * cost[k]
    BY <1>1, <1>3, <1>4, <1>c DEF Paid
  <1>8. Adjusted(t) = Seen(t, RowOf(t, k)) + (IF req[t].kind = "grant" THEN cost[k] ELSE -cost[k])
    <2>1. CASE req[t].kind = "grant"
      BY <1>3, <1>4, <2>1, <1>k, <1>c DEF Adjusted, NotBelowZero
    <2>2. CASE req[t].kind = "spend"
      BY <1>1, <1>2, <1>3, <1>4, <2>2, <1>k, <1>c DEF Adjusted, NotBelowZero, Covered
    <2>3. CASE req[t].kind = "upkeep"
      <3>1. Seen(t, RowOf(t, k)) = stock[RowOf(t, k)]
        BY <1>2, <1>3, <1>4, <1>6, <1>7, <2>3, TimesZero DEF Account
      <3>2. cost[k] <= stock[RowOf(t, k)]
        BY <1>1, <1>2, <1>3, <1>4, <2>3, <1>c DEF Covered, Least, Request
      <3>3. QED
        BY <1>3, <1>4, <2>3, <3>1, <3>2, <1>k, <1>c DEF Adjusted, NotBelowZero
    <2>4. QED
      BY <1>1, <2>1, <2>2, <2>3 DEF Request, Kind
  <1>9. /\ \A j \in Key : RowOf(t, j)' = RowOf(t, j) /\ stock'[RowOf(t, j)] = stock[RowOf(t, j)]
        /\ Seen(t, RowOf(t, k))' = Adjusted(t)
        /\ \A j \in Key \ {k} : Seen(t, RowOf(t, j))' = Seen(t, RowOf(t, j))
    BY <1>3, <1>4, <1>5, <1>k DEF RowOf, Seen, Update, Write, IInv, TypeOK
  <1>10. \A j \in Key : Paid(t, j)' = IF j = k THEN Paid(t, j) + cost[j] ELSE Paid(t, j)
    <2> SUFFICES ASSUME NEW j \in Key
                 PROVE  Paid(t, j)' = IF j = k THEN Paid(t, j) + cost[j] ELSE Paid(t, j)
      OBVIOUS
    <2>1. (req[t].done + 1) * cost[j] = req[t].done * cost[j] + cost[j]
      BY <1>3, <1>4, TimesNext
    <2>2. Paid(t, j) = req[t].done * cost[j] + (IF j \in req[t].todo THEN 0 ELSE cost[j])
      BY <1>1, <1>4, <1>c DEF Paid
    <2>3. CASE left # {}
      BY <1>3, <1>4, <1>5, <2>2, <2>3 DEF Paid
    <2>4. CASE left = {}
      <3>1. Paid(t, j)' = (req[t].done + 1) * cost[j]
        BY <1>3, <1>4, <1>5, <2>1, <2>4 DEF Paid
      <3>2. QED
        BY <1>3, <1>4, <2>1, <2>2, <2>4, <3>1
    <2>5. QED
      BY <2>3, <2>4
  <1>11. Control(t)'
    <2>1. req[t].kind = "spend" => left \subseteq Positive(cost)
      BY <1>2, <1>c DEF Control
    <2>2. CASE left # {}
      BY <1>1, <1>2, <1>3, <1>5, <2>1, <2>2, <1>c DEF Control
    <2>3. CASE left = {} /\ again
      BY <1>1, <1>2, <1>3, <1>5, <1>6, <2>3, <1>c DEF Control
    <2>4. CASE left = {} /\ ~again
      BY <1>1, <1>2, <1>3, <1>5, <2>4, <1>c DEF Control
    <2>5. QED
      BY <2>2, <2>3, <2>4
  <1>12. Account(t)'
    <2>1. \A j \in Key : Paid(t, j) \in Nat
      BY <1>1, <1>4, <1>c DEF Paid
    <2>2. SUFFICES ASSUME NEW j \in Key
                   PROVE  Seen(t, RowOf(t, j))' = stock[RowOf(t, j)]
                     + (IF req[t].kind = "grant" THEN Paid(t, j)' ELSE -Paid(t, j)')
      BY <1>5, <1>9 DEF Account
    <2>3. Seen(t, RowOf(t, j)) = stock[RowOf(t, j)]
            + (IF req[t].kind = "grant" THEN Paid(t, j) ELSE -Paid(t, j))
      BY <1>2 DEF Account
    <2>4. CASE j = k
      <3>1. Paid(t, j)' = Paid(t, j) + cost[j]
        BY <1>10, <2>4
      <3>2. Seen(t, RowOf(t, j))' = Seen(t, RowOf(t, j))
              + (IF req[t].kind = "grant" THEN cost[j] ELSE -cost[j])
        BY <1>8, <1>9, <2>4
      <3>3. Paid(t, j) \in Nat /\ cost[j] \in Nat /\ stock[RowOf(t, j)] \in Nat
        BY <1>4, <2>1
      <3>4. QED
        BY <2>3, <3>1, <3>2, <3>3
    <2>5. CASE j # k
      BY <1>9, <1>10, <2>3, <2>5
    <2>6. QED
      BY <2>4, <2>5
  <1>13. Covered(t)'
    <2>1. \A j \in Key : Seen(t, RowOf(t, j))' \in Nat /\ (j \notin Positive(cost) => cost[j] = 0)
      <3>1. Adjusted(t) \in Nat
        BY <1>3, <1>4, <1>k, <1>c DEF Adjusted, NotBelowZero
      <3>2. \A j \in Key : Seen(t, RowOf(t, j))' \in Nat
        BY <1>4, <1>9, <3>1
      <3>3. QED
        BY <1>4, <3>2 DEF Positive
    <2>2. ASSUME req[t].kind = "spend", NEW j \in Key
          PROVE  /\ req'[t].pc = "covers" /\ j \notin req'[t].todo => cost[j] <= Seen(t, RowOf(t, j))'
                 /\ req'[t].pc \in {"select", "update"} /\ j \in req'[t].todo
                      => cost[j] <= Seen(t, RowOf(t, j))'
      BY <1>1, <1>2, <1>4, <1>5, <1>9, <2>1, <2>2, <1>c DEF Covered
    <2>3. ASSUME req[t].kind = "upkeep", NEW j \in Key
          PROVE  /\ req'[t].pc # "covers"
                 /\ cost[j] = Least(req[t].bill[j], stock[RowOf(t, j)])
      BY <1>1, <1>2, <1>5, <1>6, <2>3, <1>c DEF Covered
    <2>4. QED
      BY <1>5, <1>9, <2>2, <2>3 DEF Covered
  <1>14. HoldersAreLive' /\ OnePerCountry'
    BY UpdateEffect, StaysLive
  <1>15. \A u \in Txn \ {t} : TxnInv(u)'
    BY UpdateEffect
  <1>16. QED
    BY <1>11, <1>12, <1>13, <1>14, <1>15, UpdateType DEF IInv, TxnInv

LEMMA UpdateInv ==
  ASSUME IInv, NEW t \in Txn, Update(t) PROVE IInv'
  <1>1. TypeOK'
    BY UpdateType DEF IInv
  <1>2. CASE ~Exclusive(t)
    BY <1>1, <1>2, UpdateEffect, SharedInv
  <1>3. QED
    BY <1>2, UpdateAlone

-----------------------------------------------------------------------------
(* The theorems.                                                           *)

LEMMA KindMembers == "spend" \in Kind /\ "grant" \in Kind /\ "upkeep" \in Kind
  BY DEF Kind

LEMMA InitInv == Init => IInv
  <1> SUFFICES ASSUME Init PROVE IInv
    OBVIOUS
  <1>1. TypeOK
    BY DEF Init, TypeOK, Row
  <1>2. \A t \in Txn : ~Active(t)
    BY DEF Init, Active, Idle
  <1>3. QED
    BY <1>1, <1>2 DEF Init, IInv, HoldersAreLive, OnePerCountry, TxnInv, Exclusive

LEMMA StepInv == IInv /\ [Next]_vars => IInv'
  <1> SUFFICES ASSUME IInv, [Next]_vars PROVE IInv'
    OBVIOUS
  <1>1. CASE UNCHANGED vars
    BY <1>1 DEF vars, IInv, TypeOK, HoldersAreLive, OnePerCountry, TxnInv, Exclusive,
                Active, Control, Account, Covered, Paid, Seen, RowOf
  <1>2. ASSUME NEW t \in Txn, Purchase(t) PROVE IInv'
    BY <1>2, KindMembers, StartInv DEF Purchase
  <1>3. ASSUME NEW t \in Txn, Reward(t) PROVE IInv'
    BY <1>3, CountAssumption, 1 \in 1 .. MaxCount, KindMembers, StartInv DEF Reward
  <1>4. ASSUME NEW t \in Txn, Consume(t) PROVE IInv'
    BY <1>4, CountAssumption, 1 \in 1 .. MaxCount, KindMembers, StartInv DEF Consume
  <1>5. ASSUME NEW t \in Txn, Step(t) PROVE IInv'
    BY <1>5, CoversInv, SelectInv, UpdateInv, CommitInv, RollbackInv
       DEF Step, Refuse, DeadlockVictim
  <1>6. ASSUME NEW t \in Txn, Fail(t) PROVE IInv'
    BY <1>6, RollbackInv DEF Fail
  <1>7. QED
    BY <1>1, <1>2, <1>3, <1>4, <1>5, <1>6 DEF Next

(* A row that was written belongs to a live request for its country: a request  *)
(* that ended, whichever way, leaves nothing locked (ResourceStock!             *)
(* HoldersAreLive; session commit and rollback).                                *)
THEOREM NoRowLeftBehind == Spec => []HoldersAreLive
  <1>1. Spec => []IInv
    BY InitInv, StepInv, PTL DEF Spec
  <1>2. IInv => HoldersAreLive
    BY DEF IInv
  <1>3. QED
    BY <1>1, <1>2, PTL

\* What a commit has to do to the stocks to be a step of the ledger.
LEMMA SpendIsLedgerStep ==
  ASSUME NEW c \in Alone, NEW bill \in Bill, NEW n \in 1 .. MaxCount,
         \A k \in Key : n * bill[k] <= stock[<<c, k>>],
         stock' = [r \in Row |-> IF r[1] = c THEN stock[r] - n * bill[r[2]]
                              ELSE stock[r]]
  PROVE  Ledger!LedgerNext
  <1> DEFINE balance == [r \in Alone \X Key |-> stock[r]]
  <1>1. \A r \in Alone \X Key : r \in Row /\ balance[r] = stock[r]
    BY DEF Alone, Row
  <1>2. balance' = [r \in Alone \X Key |-> IF r[1] = c THEN balance[r] - n * bill[r[2]]
                                          ELSE balance[r]]
    BY <1>1
  <1>3. Ledger!Spend(c, bill, n)
    BY <1>1, <1>2 DEF Ledger!Spend, Ledger!Book, Ledger!Row
  <1>4. QED
    BY <1>3 DEF Ledger!LedgerNext

LEMMA GrantIsLedgerStep ==
  ASSUME NEW c \in Alone, NEW bill \in Bill,
         stock' = [r \in Row |-> IF r[1] = c THEN stock[r] + bill[r[2]]
                              ELSE stock[r]]
  PROVE  Ledger!LedgerNext
  <1> DEFINE balance == [r \in Alone \X Key |-> stock[r]]
  <1>1. \A r \in Alone \X Key : r \in Row /\ balance[r] = stock[r]
    BY DEF Alone, Row
  <1>2. balance' = [r \in Alone \X Key |-> IF r[1] = c THEN balance[r] + bill[r[2]]
                                          ELSE balance[r]]
    BY <1>1
  <1>3. Ledger!Grant(c, bill)
    BY <1>1, <1>2 DEF Ledger!Grant, Ledger!Book, Ledger!Row
  <1>4. QED
    BY <1>3, CountAssumption DEF Ledger!LedgerNext

LEMMA UpkeepIsLedgerStep ==
  ASSUME NEW c \in Alone, NEW bill \in Bill,
         stock' = [r \in Row |-> IF r[1] = c THEN stock[r] - Least(bill[r[2]], stock[r])
                              ELSE stock[r]]
  PROVE  Ledger!LedgerNext
  <1> DEFINE balance == [r \in Alone \X Key |-> stock[r]]
  <1>1. \A r \in Alone \X Key : r \in Row /\ balance[r] = stock[r]
    BY DEF Alone, Row
  <1>2. balance' = [r \in Alone \X Key |-> IF r[1] = c THEN balance[r] - Least(bill[r[2]], balance[r])
                                          ELSE balance[r]]
    BY <1>1
  <1>3. Ledger!Upkeep(c, bill)
    BY <1>1, <1>2 DEF Ledger!Upkeep, Ledger!Book, Ledger!Row, Ledger!Least, Least
  <1>4. QED
    BY <1>3, CountAssumption DEF Ledger!LedgerNext

\* A commit is one step of the ledger.
LEMMA CommitIsLedgerStep ==
  ASSUME IInv, NEW t \in Txn, Commit(t), Exclusive(t) PROVE Ledger!LedgerNext
  <1> DEFINE c == req[t].country
             bill == req[t].bill
  <1>1. req[t] \in Request /\ Active(t) /\ req[t].pc = "commit"
    BY ActiveType DEF Active, Commit, IInv
  <1>2. Control(t) /\ Account(t) /\ Covered(t)
    BY <1>1 DEF IInv, TxnInv
  <1>3. /\ c \in Country /\ c \in Alone /\ bill \in Bill /\ bill \in [Key -> Nat]
        /\ req[t].count \in 1 .. MaxCount /\ req[t].done = req[t].count
        /\ req[t].count \in Nat
    BY <1>1, <1>2 DEF Control, Request, Exclusive
  <1>4. \A k \in Key : /\ <<c, k>> \in Row /\ stock[<<c, k>>] \in Nat
                       /\ Seen(t, <<c, k>>) \in Nat
                       /\ req[t].cost[k] \in Nat /\ bill[k] \in Nat
    BY <1>1, <1>3, SeenType DEF Row, Request, IInv, TypeOK
  <1>5. \A k \in Key : req[t].count * req[t].cost[k] \in Nat
    BY <1>3, <1>4, TimesNext
  <1>6. \A k \in Key : Paid(t, k) = req[t].count * req[t].cost[k]
    BY <1>1, <1>3, <1>5 DEF Paid
  <1>7. \A k \in Key : Seen(t, <<c, k>>) = stock[<<c, k>>]
          + (IF req[t].kind = "grant" THEN req[t].count * req[t].cost[k]
             ELSE -(req[t].count * req[t].cost[k]))
    BY <1>2, <1>6 DEF Account, RowOf
  <1>8. \A r \in Row : r = <<r[1], r[2]>> /\ r[2] \in Key /\ (r[1] # c => Seen(t, r) = stock[r])
    BY DEF Row, Seen, IInv, HoldersAreLive
  <1>9. stock' = [r \in Row |-> Seen(t, r)]
    BY DEF Commit, CommitWrites
  <1>10. CASE req[t].kind = "spend"
    <2>1. req[t].cost = bill
      BY <1>2, <1>10 DEF Control
    <2>2. \A k \in Key : req[t].count * bill[k] <= stock[<<c, k>>]
      BY <1>4, <1>5, <1>7, <1>10, <2>1
    <2>3. stock' = [r \in Row |-> IF r[1] = c THEN stock[r] - req[t].count * bill[r[2]]
                                 ELSE stock[r]]
      BY <1>4, <1>5, <1>7, <1>8, <1>9, <1>10, <2>1
    <2>4. QED
      BY <1>3, <2>2, <2>3, SpendIsLedgerStep
  <1>11. CASE req[t].kind = "grant"
    <2>1. req[t].cost = bill /\ req[t].count = 1
      BY <1>2, <1>11 DEF Control
    <2>2. \A k \in Key : Seen(t, <<c, k>>) = stock[<<c, k>>] + bill[k]
      BY <1>4, <1>7, <1>11, <2>1
    <2>3. stock' = [r \in Row |-> IF r[1] = c THEN stock[r] + bill[r[2]] ELSE stock[r]]
      BY <1>8, <1>9, <2>2
    <2>4. QED
      BY <1>3, <2>3, GrantIsLedgerStep
  <1>12. CASE req[t].kind = "upkeep"
    <2>1. req[t].count = 1
      BY <1>2, <1>12 DEF Control
    <2>2. \A k \in Key : req[t].cost[k] = Least(bill[k], stock[<<c, k>>])
      BY <1>1, <1>2, <1>12 DEF Covered, RowOf
    <2>3. \A k \in Key : Seen(t, <<c, k>>) = stock[<<c, k>>] - Least(bill[k], stock[<<c, k>>])
      BY <1>4, <1>7, <1>12, <2>1, <2>2
    <2>4. stock' = [r \in Row |-> IF r[1] = c THEN stock[r] - Least(bill[r[2]], stock[r])
                                 ELSE stock[r]]
      BY <1>8, <1>9, <2>3
    <2>5. QED
      BY <1>3, <2>4, UpkeepIsLedgerStep
  <1>13. QED
    BY <1>1, <1>10, <1>11, <1>12 DEF Request, Kind

\* A commit for a country that shares its stocks leaves the other stocks alone.
LEMMA CommitElsewhere ==
  ASSUME IInv, NEW t \in Txn, Commit(t), ~Exclusive(t)
  PROVE  \A r \in Alone \X Key : stock'[r] = stock[r]
  <1> SUFFICES ASSUME NEW r \in Alone \X Key PROVE stock'[r] = stock[r]
    OBVIOUS
  <1>1. r \in Row /\ r[1] \in Alone
    BY DEF Alone, Row
  <1>2. holder[r] # t
    BY <1>1, TxnAssumption DEF IInv, HoldersAreLive, Exclusive
  <1>3. QED
    BY <1>1, <1>2 DEF Commit, CommitWrites, Seen

(* Every commit for a country whose requests come one at a time is a spending,  *)
(* a grant or an upkeep of the ledger, at that instant, and nothing else        *)
(* changes one of its stocks: no amount is lost or used twice and a purchase is *)
(* all or nothing.  Of the countries that share their stocks it is false: two   *)
(* requests can both read an amount before either writes it.                    *)
THEOREM StockImplementsLedger == Spec => ImplementsLedger
  <1>1. Init => Ledger!LedgerInit
    BY OpeningAssumption DEF Init, Ledger!LedgerInit, Ledger!Row, Row, Alone
  <1>2. IInv /\ [Next]_vars => [Ledger!LedgerNext]_([r \in Alone \X Key |-> stock[r]])
    <2> SUFFICES ASSUME IInv, [Next]_vars,
                        [r \in Alone \X Key |-> stock'[r]] # [r \in Alone \X Key |-> stock[r]]
                 PROVE  Ledger!LedgerNext
      OBVIOUS
    <2>1. stock' # stock
      OBVIOUS
    <2>2. PICK t \in Txn : Commit(t)
      BY <2>1 DEF vars, Next, Purchase, Reward, Consume, Start, Step, Fail, Covers, Refuse,
             Rollback, ForgetWrites, Select, Update, Write, DeadlockVictim
    <2>3. Exclusive(t)
      BY <2>2, CommitElsewhere
    <2>4. QED
      BY <2>2, <2>3, CommitIsLedgerStep
  <1>3. Spec => []IInv
    BY InitInv, StepInv, PTL DEF Spec
  <1>4. QED
    BY <1>1, <1>2, <1>3, PTL DEF Spec, ImplementsLedger, Ledger!LedgerSpec
=============================================================================
