\* Two locales, three changes, one lost answer; up to three refreshes together.
CONSTANTS
  Locales = {en, fa}
  Fallback = en
  Task = {t1, t2, t3}
  Choice = {p}
  NoTask = NoTask
  MaxChanges = 3
  MaxUnheard = 1
SPECIFICATION LocaleSpec
INVARIANT StaleIsExplained
PROPERTY LocaleHeals
