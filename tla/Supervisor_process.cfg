\* Two worlds, a worker of two phases, one failure of the environment and one cut tick.
CONSTANTS
  World <- TwoWorlds
  Phases = 2
  BuiltIn = {1}
  MaxTick = 1
  MaxFailures = 2
SPECIFICATION SupSpec
INVARIANTS CountedTicksWereWalked RepeatsNeedFailures
PROPERTIES WorkerAsInTicks ShutdownEnds WorldsTickWithoutBot
\* A process that ended need not be started again.
CHECK_DEADLOCK FALSE
