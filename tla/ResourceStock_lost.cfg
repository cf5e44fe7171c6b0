\* Two requests in flight for one country and one resource: a reward fits in
\* once at the opening amount.
CONSTANTS
  Country = {c1}
  Shared = {c1}
  Key = {money}
  Txn = {t1, t2}
  NoTxn = NoTxn
  Bill <- MCBill
  Opening = {1}
  MaxCount = 1
  MaxStock <- OneGrant
SPECIFICATION Spec
PROPERTY RaceSafe
