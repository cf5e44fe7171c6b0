\* Two requests in flight, also for the country that shares its stocks.
CONSTANTS
  Country = {c1, c2}
  Shared = {c2}
  Key = {money, oil}
  Txn = {t1, t2}
  NoTxn = NoTxn
  Bill <- MCBill
  Opening = {1}
  MaxCount = 2
  MaxStock <- FewGrants
SPECIFICATION Spec
INVARIANT HoldersAreLive
PROPERTIES ImplementsLedger RequestsEnd
