\* Three players, two requests at once, none of them of the same player.
CONSTANTS
  Player = {p1, p2, p3}
  Code = {k1, k2}
  Capacity = 2
  AutoCreate = TRUE
  MaxWorlds = 3
  Txn = {t1, t2}
  NoTxn = NoTxn
  Nobody = Nobody
  Overlap = FALSE
SPECIFICATION Spec
SYMMETRY Symmetry
INVARIANTS RulerRules FullHasSuccessor
PROPERTY VacatedFirst
