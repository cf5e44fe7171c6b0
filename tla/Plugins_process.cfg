SPECIFICATION PluginSpec
CONSTANTS
  space_race = space_race
  greeter = greeter
  hardcore_economy = hardcore_economy
  Plugin = {space_race, greeter}
  Extension = {hardcore_economy}
  Program <- ProgramVal
  LoadOrder <- LoadOrderVal
  Flawed = {greeter}
  Event = {"country.selected"}
  HookName = {"production.output"}
  Run = {r1, r2}
  MaxLoads = 3
INVARIANTS RegisteredOnce DisabledHasNoHooks RemovedIsNotCalled
PROPERTY AllAreCalled
CHECK_DEADLOCK FALSE
