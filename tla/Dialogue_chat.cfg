\* Two updates under way together, seven updates at will, two answers lost.
CONSTANTS
  Handler = {h1, h2}
  Password = {p1, p2}
  Short = Short
  Nothing = Nothing
  MaxUpdates = 7
  MaxLost = 2
SPECIFICATION Spec
INVARIANT OldPasswordOnlyForReset
PROPERTIES  OnlyResetsChangeIt NobodyLockedOut
\* A user without an account may stop.
CHECK_DEADLOCK FALSE
