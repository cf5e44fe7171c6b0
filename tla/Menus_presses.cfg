\* Two presses under way together, three at will; pages of two entries,
\* one failure of Telegram.
CONSTANTS
  MenuPress = {a, b}
  PageSize = 2
  Buildings = 4
  Units = 3
  Techs = 2
  MaxWorlds = 3
  MaxFree = 3
  MaxPresses = 3
  MaxFailures = 1
SPECIFICATION MenuSpec
INVARIANT PagesCoverTheList
PROPERTIES EveryPressAnswered BackLeadsHome
