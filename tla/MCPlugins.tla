------------------------------ MODULE MCPlugins -----------------------------
EXTENDS Plugins, TLC
CONSTANTS space_race, greeter, hardcore_economy
\* The programs: a technology and the subscription of space_race.
ProgramVal ==
  (space_race :> SubSeq(SpaceRace, 3, 4)) @@ (hardcore_economy :> HardcoreEconomy) @@
  (greeter :> <<OnEvent(Wildcard, Normal, TRUE, FALSE), OnHook("production.output", Low, FALSE)>>)

LoadOrderVal == <<greeter, space_race>>
=============================================================================
