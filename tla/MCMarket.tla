------------------------------ MODULE MCMarket ------------------------------
(* Small instances of Market. *)
EXTENDS MarketAccounts

\* Both countries have a little of both.
MCOpening == [kind \in {"money", "goods"} |-> [c \in Country |-> IF kind = "money" THEN 4 ELSE 2]]

NoBook == <<>>
=============================================================================
