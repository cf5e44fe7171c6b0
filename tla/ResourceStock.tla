---------------------------- MODULE ResourceStock ---------------------------
(***************************************************************************)
(* ResourceRepository and the sessions it runs in.  A request (an API call *)
(* or one phase of the tick worker) is a transaction of its own: it reads  *)
(* with SELECT, writes a new amount with UPDATE, and commits at its end.   *)
(* Other requests run between any two of its statements.                   *)
(***************************************************************************)
EXTENDS Integers, FiniteSets

CONSTANTS
  Country,    \* countries
  Key,        \* resource keys
  Bill,       \* costs, rewards and needs: SUBSET [Key -> Nat]
  MaxCount,   \* bound on the count of a purchase
  MaxStock,   \* bound: a country's grants start only while its stocks stay within
  Opening,    \* amounts a country may start with: SUBSET Nat
  Txn,        \* the requests in flight (database connections)
  NoTxn,      \* the holder of a free row
  Shared      \* the countries that may have several requests in flight at once

ASSUME BillAssumption == Bill \subseteq [Key -> Nat]
ASSUME CountAssumption == MaxCount \in Nat \ {0} /\ MaxStock \in [Country -> Nat]
ASSUME OpeningAssumption == Opening \subseteq Nat
ASSUME TxnAssumption == NoTxn \notin Txn
ASSUME SharedAssumption == Shared \subseteq Country

VARIABLES
  stock,      \* committed resource_stocks.amount, by row
  holder,     \* the transaction that has written a row and not ended, or NoTxn
  pending,    \* the amount the holder wrote (the committed one in a free row)
  req         \* the local state of each request

vars == <<stock, holder, pending, req>>

Row == Country \X Key

INSTANCE Session WITH store <- stock

Kind == {"spend", "grant", "upkeep"}

\* Next in a request: get_amount of the keys in todo; adjust's SELECT of one of
\* them; adjust's UPDATE of key, whose amount was seen; the session's commit.
Pc == {"covers", "select", "update", "commit"}

Request ==
  [pc : Pc, kind : Kind, country : Country,
   bill : [Key -> Nat],   \* what was asked for
   cost : [Key -> Nat],   \* what is taken or given for one unit
   count : Nat, done : Nat, todo : SUBSET Key, key : Key, seen : Nat]

Idle == [pc |-> "idle"]

Least(a, b) == IF a <= b THEN a ELSE b
NotBelowZero(a) == IF a < 0 THEN 0 ELSE a

Positive(bill) == {k \in Key : bill[k] > 0}
Active(t) == req[t].pc # "idle"
RowOf(t, k) == <<req[t].country, k>>

Finish(t) == req' = [req EXCEPT ![t] = Idle]

Commit(t) ==
  /\ req[t].pc = "commit"
  /\ CommitWrites(t)
  /\ Finish(t)

\* What get_session does on an exception: the writes of t are forgotten.
Rollback(t) == ForgetWrites(t) /\ Finish(t)

(***************************************************************************)
(* The services' requests.  A purchase of count units asks covers() and    *)
(* calls deduct() once for each unit; a grant only adjusts; the upkeep     *)
(* reads its amounts first and takes no more than it saw.                  *)
(***************************************************************************)
MayStart(c) == c \in Shared \/ \A t \in Txn : Active(t) => req[t].country # c

Start(t, kind, c, bill, count) ==
  /\ ~Active(t)
  /\ MayStart(c)
  /\ Positive(bill) # {}
  /\ req' = [req EXCEPT ![t] =
       [pc |-> IF kind = "grant" THEN "select" ELSE "covers",
        kind |-> kind, country |-> c, bill |-> bill, cost |-> bill,
        count |-> count, done |-> 0, todo |-> Positive(bill),
        key |-> CHOOSE k \in Positive(bill) : TRUE, seen |-> 0]]
  /\ UNCHANGED <<stock, holder, pending>>

Purchase(t) ==
  \E c \in Country, bill \in Bill, count \in 1 .. MaxCount :
    Start(t, "spend", c, bill, count)

Reward(t) ==
  \E c \in Country, bill \in Bill :
    /\ \A k \in Key : stock[<<c, k>>] + bill[k] <= MaxStock[c]
    /\ Start(t, "grant", c, bill, 1)

Consume(t) == \E c \in Country, bill \in Bill : Start(t, "upkeep", c, bill, 1)

(***************************************************************************)
(* get_amount of one more key.  When all are read, a purchase deducts      *)
(* every positive amount, the upkeep those it found something of.          *)
(***************************************************************************)
AfterCovers(t, k, cost) ==
  LET R == req[t]
      left == R.todo \ {k}
      nothing == left = {} /\ Positive(cost) = {}
  IN
  req' = [req EXCEPT ![t] = [R EXCEPT
    !.cost = cost,
    !.pc = IF left # {} THEN "covers" ELSE IF nothing THEN "commit" ELSE "select",
    !.done = IF nothing THEN R.done + 1 ELSE R.done,
    !.todo = IF left # {} THEN left ELSE Positive(cost)]]

\* mutant: covers() only before the first unit of a purchase
CoversOnce(t, k) ==
  /\ req[t].pc = "covers"
  /\ k \in req[t].todo
  /\ req[t].done > 0 \/ Seen(t, RowOf(t, k)) >= req[t].cost[k]
  /\ AfterCovers(t, k, req[t].cost)
  /\ UNCHANGED <<stock, holder, pending>>

Covers(t, k) ==
  /\ req[t].pc = "covers"
  /\ k \in req[t].todo
  /\ \/ /\ req[t].kind = "spend"
        /\ Seen(t, RowOf(t, k)) >= req[t].cost[k]
        /\ AfterCovers(t, k, req[t].cost)
     \/ /\ req[t].kind = "upkeep"
        /\ AfterCovers(t, k, [req[t].cost EXCEPT
             ![k] = Least(req[t].cost[k], Seen(t, RowOf(t, k)))])
  /\ UNCHANGED <<stock, holder, pending>>

\* covers() is false: InsufficientResourcesError, also after earlier units.
Refuse(t, k) ==
  /\ req[t].pc = "covers"
  /\ k \in req[t].todo
  /\ req[t].kind = "spend"
  /\ Seen(t, RowOf(t, k)) < req[t].cost[k]
  /\ Rollback(t)

\* adjust: the SELECT of the row ...
Select(t, k) ==
  /\ req[t].pc = "select"
  /\ k \in req[t].todo
  /\ req' = [req EXCEPT ![t] = [req[t] EXCEPT
       !.pc = "update", !.key = k, !.seen = Seen(t, RowOf(t, k))]]
  /\ UNCHANGED <<stock, holder, pending>>

Adjusted(t) ==
  LET delta == req[t].cost[req[t].key]
  IN  NotBelowZero(req[t].seen + (IF req[t].kind = "grant" THEN delta ELSE -delta))

\* ... and the flush, which writes the amount computed from what it saw.
Update(t) ==
  LET R == req[t]
      left == R.todo \ {R.key}
      bought == R.done + 1
  IN
  /\ req[t].pc = "update"
  /\ Write(t, RowOf(t, R.key), Adjusted(t))
  /\ req' = [req EXCEPT ![t] = [R EXCEPT
       !.seen = 0,
       !.done = IF left = {} THEN bought ELSE R.done,
       !.pc = IF left # {} THEN "select"
              ELSE IF bought < R.count THEN "covers" ELSE "commit",
       !.todo = IF left = {} /\ bought < R.count THEN Positive(R.cost) ELSE left]]

\* The request fails in its service, or its connection is lost.
Fail(t) == Active(t) /\ Rollback(t)

WaitsFor(t, u) ==
  /\ t # u
  /\ req[t].pc = "update"
  /\ holder[RowOf(t, req[t].key)] = u

DeadlockVictim(t) == Deadlocked(t, WaitsFor) /\ Rollback(t)

Init ==
  /\ stock \in [Row -> Opening]
  /\ pending = stock
  /\ holder = [r \in Row |-> NoTxn]
  /\ req = [t \in Txn |-> Idle]

Step(t) ==
  \/ \E k \in Key : Covers(t, k) \/ Refuse(t, k) \/ Select(t, k)
  \/ Update(t) \/ Commit(t) \/ DeadlockVictim(t)

Next == \E t \in Txn : Purchase(t) \/ Reward(t) \/ Consume(t) \/ Step(t) \/ Fail(t)

(***************************************************************************)
(* The event loop resumes every request; PostgreSQL grants a row's lock in *)
(* the order it was asked for, so a waiting UPDATE gets its turn; deadlock *)
(* detection runs after deadlock_timeout.                                  *)
(***************************************************************************)
Fairness == \A t \in Txn : WF_vars(Step(t)) /\ SF_vars(Update(t))

Spec == Init /\ [][Next]_vars /\ Fairness

-----------------------------------------------------------------------------
(* Properties. *)

TypeOK ==
  /\ stock \in [Row -> Nat]
  /\ pending \in [Row -> Nat]
  /\ holder \in [Row -> Txn \cup {NoTxn}]
  /\ req \in [Txn -> Request \cup {Idle}]

Alone == Country \ Shared
Ledger == INSTANCE ResourceLedger
            WITH Country <- Alone, balance <- [r \in Alone \X Key |-> stock[r]]
Ledgers == INSTANCE ResourceLedger WITH balance <- stock

(* A country whose requests come one at a time: every committed request has    *)
(* the effect, and the precondition, of one step of the ledger at the moment   *)
(* of its commit, whatever the other countries do: nothing is spent twice,     *)
(* nothing is lost, a purchase of several units is all or nothing, and the     *)
(* clamp of adjust at zero never forgives a debt.                              *)
(* (resource_repo.py: covers, deduct, adjust; dependencies: get_session)       *)
ImplementsLedger == Ledger!LedgerSpec

(* "Atomic, race-safe resource stock operations" (resource_repo.py:12): the    *)
(* same of every country.                                                      *)
RaceSafe == Ledgers!LedgerSpec

(* Whoever waits for a row is served or aborted: every request ends.           *)
RequestsEnd == \A t \in Txn : Active(t) ~> ~Active(t)

(* Only a live request holds rows, and only rows of its own country: a request *)
(* that ended, committed or not, blocks nobody.                                *)
HoldersAreLive ==
  \A r \in Row : holder[r] # NoTxn =>
    Active(holder[r]) /\ req[holder[r]].country = r[1]
=============================================================================
