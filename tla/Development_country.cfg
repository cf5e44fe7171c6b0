\* One API request at a time next to the tick worker, two reigns.
CONSTANTS
  Tech <- MCTech
  Requires <- MCRequires
  Building <- MCBuilding
  Unit <- MCUnit
  NeedsTech <- MCNeedsTech
  NeedsBuilding <- MCNeedsBuilding
  Mission = {m1}
  StartTech = {"steel"}
  StartBuilding <- MCStart
  MaxLevel = 2
  MaxCount = 1
  MaxBuildings = 3
  MaxUnits = 1
  MaxReigns = 2
  Client = {api}
  Worker = tick
  NoTxn = NoTxn
SPECIFICATION Spec
INVARIANTS PrerequisitesHeld RewardedOncePerReign
PROPERTIES CompletedIsFinal WorkTakesItsTime
\* Nothing can be started any more once the reigns are over.
CHECK_DEADLOCK FALSE
