\* A handler's calls, logins and logouts next to the task that fetches the
\* locale; two answers may be lost or two tasks cancelled.
CONSTANTS
  Call = {handler, locale}
  Auth = {handler}
  Background = {locale}
  Nobody = Nobody
  MaxPairs = 4
  MaxLost = 2
SPECIFICATION Spec
INVARIANTS OneRefreshAtATime HeldSessionIsLive
PROPERTIES CallsEnd
\* The bound on the tokens ends every behaviour.
CHECK_DEADLOCK FALSE
