--------------------------- MODULE ResourceLedger ---------------------------
(***************************************************************************)
(* What the services expect of the resource stocks: every spending, grant  *)
(* and upkeep of a country happens at one instant, on the balance of that  *)
(* instant.  A spending is paid in full, for every unit bought, or not at  *)
(* all.  ResourceStock.tla is the code; this module is its promise.        *)
(***************************************************************************)
EXTENDS Integers

CONSTANTS
  Country,    \* the countries of the worlds
  Key,        \* the resources, money among them
  Bill,       \* the costs, rewards and needs of the game data: SUBSET [Key -> Nat]
  MaxCount    \* most units one request may buy

VARIABLE balance    \* balance[<<c, k>>]: what country c owns of resource k

Row == Country \X Key

Least(a, b) == IF a <= b THEN a ELSE b

LedgerInit == balance \in [Row -> Nat]

(***************************************************************************)
(* Only the rows of country c change, each by its own amount.              *)
(***************************************************************************)
Book(c, New(_)) ==
  balance' = [r \in Row |-> IF r[1] = c THEN New(r) ELSE balance[r]]

\* count buildings, units, technologies or one market lock, bought at once.
Spend(c, bill, count) ==
  /\ \A k \in Key : count * bill[k] <= balance[<<c, k>>]
  /\ Book(c, LAMBDA r : balance[r] - count * bill[r[2]])

\* A mission reward, a trade's proceeds, a refund, an event or an output.
Grant(c, bill) == Book(c, LAMBDA r : balance[r] + bill[r[2]])

\* The population eats what it needs, or what there is.
Upkeep(c, bill) == Book(c, LAMBDA r : balance[r] - Least(bill[r[2]], balance[r]))

LedgerNext ==
  \E c \in Country, bill \in Bill :
    \/ \E count \in 1 .. MaxCount : Spend(c, bill, count)
    \/ Grant(c, bill)
    \/ Upkeep(c, bill)

LedgerSpec == LedgerInit /\ [][LedgerNext]_balance
=============================================================================
