SPECIFICATION Spec
CONSTANTS
  Country = {1, 2}
  WorldOf <- OneWorld
  Txn = {t1, t2}
  NoTxn = NoTxn
  Army = 1
  MaxLoss = 1
  MaxWars = 2
  MaxBattles = 2
  Relation = {"neutral", "allied"}
  MaxAlliances = 2
CONSTRAINT OneAffair
SYMMETRY Symmetry
INVARIANTS OneOpenWar ScoresAreBattles OneAlliance OneRelation
CHECK_DEADLOCK FALSE
