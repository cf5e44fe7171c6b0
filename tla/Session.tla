------------------------------- MODULE Session ------------------------------
(***************************************************************************)
(* The database session of a request (db/session.py, get_session): every   *)
(* API call and every phase of the tick worker is one transaction, which   *)
(* commits at its end and rolls back on an exception.                      *)
(*                                                                         *)
(* The database is PostgreSQL at READ COMMITTED: a SELECT sees what is     *)
(* committed and the transaction's own writes; an UPDATE takes the row's   *)
(* lock, waits while another transaction has it, and keeps it until its    *)
(* transaction ends.  A row has therefore at most one uncommitted version, *)
(* that of the lock's holder.                                              *)
(***************************************************************************)
CONSTANTS
  Row,        \* the rows of the tables
  Txn,        \* the transactions that may be open (database connections)
  NoTxn       \* the holder of a free row

VARIABLES
  store,      \* the committed rows
  holder,     \* the transaction that has written a row and not ended, or NoTxn
  pending     \* the row the holder wrote (the committed one in a free row)

Seen(t, r) == IF holder[r] = t THEN pending[r] ELSE store[r]

Write(t, r, value) ==
  /\ holder[r] \in {t, NoTxn}
  /\ holder' = [holder EXCEPT ![r] = t]
  /\ pending' = [pending EXCEPT ![r] = value]
  /\ UNCHANGED store

KeepLocks(t) == UNCHANGED holder    \* mutant: the session is never closed
Release(t) == holder' = [r \in Row |-> IF holder[r] = t THEN NoTxn ELSE holder[r]]

CommitWrites(t) ==
  /\ store' = [r \in Row |-> Seen(t, r)]
  /\ UNCHANGED pending
  /\ Release(t)

ForgetWrites(t) ==
  /\ pending' = [r \in Row |-> IF holder[r] = t THEN store[r] ELSE pending[r]]
  /\ UNCHANGED store
  /\ Release(t)

(***************************************************************************)
(* PostgreSQL breaks a cycle of waiting transactions by aborting one.      *)
(***************************************************************************)
Deadlocked(t, WaitsFor(_, _)) ==
  \E S \in SUBSET Txn : t \in S /\ \A u \in S : \E v \in S : WaitsFor(u, v)
=============================================================================
