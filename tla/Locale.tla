------------------------------- MODULE Locale -------------------------------
(***************************************************************************)
(* The locale of a user in the bot: the middleware's cache                 *)
(* (middleware/auth.py), the background tasks that fill it from the API,   *)
(* and the handler of the language buttons, which changes the locale at    *)
(* the API and drops the cache.                                            *)
(*                                                                         *)
(* Everything runs on one event loop: a step is what happens between two   *)
(* awaits.  The cache's lifetime (300 s) is an action that lets an entry   *)
(* expire; what the API client does about a refused access token is Tokens *)
(* and Dialogue, here the token comes and goes.                            *)
(***************************************************************************)
EXTENDS Integers, FiniteSets

CONSTANTS
  Locales,      \* the supported ones
  Fallback,     \* that of the Telegram client
  Task,         \* refresh tasks that may exist together
  Choice,       \* presses of a language button that may be under way together
  NoTask,
  MaxChanges,   \* bound on the presses of language buttons
  MaxUnheard    \* bound on the changes whose answer is lost

ASSUME FallbackAssumption == Fallback \in Locales
ASSUME TaskAssumption == NoTask \notin Task
ASSUME ChangeAssumption == {MaxChanges, MaxUnheard} \subseteq Nat

VARIABLES
  loggedIn,  \* whether the bot holds an access token of the user
  locale,    \* the player's, at the API
  cache,     \* _locale_cache[user]
  entry,     \* _refresh_tasks[user]
  task,      \* the coroutines of _refresh_locale_task
  choice,    \* the handlers of language buttons
  changes, unheard,
  excused    \* history: the cache may be stale (see StaleIsExplained)

botVars == <<cache, entry, task>>
localeVars == <<loggedIn, locale, cache, entry, task, choice, changes, unheard, excused>>

NoCache == [locale |-> Fallback, real |-> FALSE, fresh |-> FALSE]
Cached(l, real) == [locale |-> l, real |-> real, fresh |-> TRUE]
NoWork == [at |-> "idle"]
Created == [at |-> "created"]

-----------------------------------------------------------------------------
(***************************************************************************)
(* An update of the user: the middleware's part of it.                     *)
(***************************************************************************)
\* mutant: the fallback is stored as a real lookup
FallbackAsReal == Cached(Fallback, TRUE)
FallbackEntry == Cached(Fallback, FALSE)

\* _resolve_locale_fast
Resolved == IF cache.fresh THEN cache ELSE FallbackEntry

\* _maybe_refresh_locale
NeedsRefresh == loggedIn /\ ~Resolved.real /\ entry = NoTask

CreateTask(t) == task' = [task EXCEPT ![t] = Created] /\ entry' = t

AnyUpdate ==
  /\ cache' = Resolved
  /\ \/ ~NeedsRefresh /\ UNCHANGED <<entry, task>>
     \/ NeedsRefresh /\ \E t \in Task : task[t] = NoWork /\ CreateTask(t)
  /\ UNCHANGED <<loggedIn, locale, choice, changes, unheard, excused>>

CacheExpires ==
  /\ cache.fresh /\ cache' = [cache EXCEPT !.fresh = FALSE]
  /\ UNCHANGED <<loggedIn, locale, entry, task, choice, changes, unheard, excused>>

-----------------------------------------------------------------------------
(***************************************************************************)
(* _refresh_locale_task.                                                   *)
(***************************************************************************)
\* The task's first step sends the request.
AsksApi(t) ==
  /\ task[t] = Created
  /\ task' = [task EXCEPT ![t] = [at |-> "asked", cancelled |-> FALSE]]
  /\ UNCHANGED <<loggedIn, locale, cache, entry, choice, changes, unheard, excused>>

\* AuthService.get_player
ApiReads(t) ==
  /\ task[t].at = "asked"
  /\ task' = [task EXCEPT ![t] = [at |-> "read", cancelled |-> @.cancelled, locale |-> locale]]
  /\ UNCHANGED <<loggedIn, locale, cache, entry, choice, changes, unheard, excused>>

Running(t) == task[t].at \in {"asked", "read"}
Cancelled(t) == Running(t) /\ task[t].cancelled

\* The finally clause: whatever task the entry names.
Finally(t) == task' = [task EXCEPT ![t] = NoWork] /\ entry' = NoTask

StoresLocale(t) ==
  /\ task[t].at = "read" /\ ~Cancelled(t)
  /\ cache' = Cached(task[t].locale, TRUE)
  /\ Finally(t)
  /\ UNCHANGED <<loggedIn, locale, choice, changes, unheard, excused>>

\* get_me returns None: the network, or a refused token.
GetMeFails(t) ==
  /\ Running(t) /\ ~Cancelled(t)
  /\ Finally(t)
  /\ UNCHANGED <<loggedIn, locale, cache, choice, changes, unheard, excused>>

\* CancelledError reaches the coroutine some turns of the loop after cancel().
CancelledEnds(t) ==
  /\ Cancelled(t)
  /\ Finally(t)
  /\ excused' = (excused \/ entry # NoTask)
  /\ UNCHANGED <<loggedIn, locale, cache, choice, changes, unheard>>

-----------------------------------------------------------------------------
(***************************************************************************)
(* cb_language.                                                            *)
(***************************************************************************)
LeaveTask == UNCHANGED task   \* mutant
\* A task that has not begun ends without its finally clause.
CancelTask ==
  task' = IF entry = NoTask THEN task
          ELSE [task EXCEPT ![entry] = IF Running(entry) THEN [@ EXCEPT !.cancelled = TRUE] ELSE NoWork]

\* invalidate_locale
Invalidate == cache' = NoCache /\ entry' = NoTask /\ CancelTask

\* Without a token the choice is stored nowhere.
PressLanguage(p, l) ==
  /\ choice[p] = NoWork /\ changes < MaxChanges
  /\ changes' = changes + 1
  /\ \/ loggedIn /\ choice' = [choice EXCEPT ![p] = [at |-> "asked", locale |-> l]] /\ UNCHANGED botVars
     \/ ~loggedIn /\ Invalidate /\ UNCHANGED choice
  /\ UNCHANGED <<loggedIn, locale, unheard, excused>>

\* AuthService.set_locale and its commit
ApiSets(p) ==
  /\ choice[p].at = "asked"
  /\ locale' = choice[p].locale
  /\ choice' = [choice EXCEPT ![p] = [at |-> "set"]]
  /\ UNCHANGED <<loggedIn, cache, entry, task, changes, unheard, excused>>

Succeeds(p) ==
  /\ choice[p].at = "set"
  /\ choice' = [choice EXCEPT ![p] = NoWork]
  /\ Invalidate
  /\ UNCHANGED <<loggedIn, locale, changes, unheard, excused>>

\* A NationCraftError, those of the network among them: an alert, and return.
Fails(p) ==
  /\ choice[p].at \in {"asked", "set"}
  /\ choice[p].at = "set" => unheard < MaxUnheard
  /\ choice' = [choice EXCEPT ![p] = NoWork]
  /\ unheard' = IF choice[p].at = "set" THEN unheard + 1 ELSE unheard
  /\ excused' = (excused \/ choice[p].at = "set")
  /\ UNCHANGED <<loggedIn, locale, cache, entry, task, changes>>

-----------------------------------------------------------------------------
Elsewhere == UNCHANGED <<locale, cache, entry, task, choice, changes, unheard, excused>>
TokenComes == loggedIn' = TRUE /\ Elsewhere
TokenGoes == loggedIn' = FALSE /\ Elsewhere

LocaleInit ==
  /\ loggedIn = FALSE
  /\ locale \in Locales
  /\ cache = NoCache
  /\ entry = NoTask
  /\ task = [t \in Task |-> NoWork]
  /\ choice = [p \in Choice |-> NoWork]
  /\ changes = 0 /\ unheard = 0
  /\ excused = FALSE

TaskEnds(t) == StoresLocale(t) \/ GetMeFails(t) \/ CancelledEnds(t)

LocaleNext ==
  \/ AnyUpdate \/ CacheExpires
  \/ \E t \in Task : AsksApi(t) \/ ApiReads(t) \/ TaskEnds(t)
  \/ \E p \in Choice : (\E l \in Locales : PressLanguage(p, l)) \/ ApiSets(p) \/ Succeeds(p) \/ Fails(p)
  \/ TokenComes \/ TokenGoes

(* The loop runs its tasks and the client gives every request up after a time; *)
(* entries expire; the user goes on sending updates, and the API does not fail *)
(* every refresh for ever.                                                     *)
LocaleFairness ==
  /\ WF_localeVars(AnyUpdate) /\ WF_localeVars(CacheExpires)
  /\ \A t \in Task : /\ WF_localeVars(AsksApi(t)) /\ WF_localeVars(TaskEnds(t))
                     /\ SF_localeVars(ApiReads(t)) /\ SF_localeVars(StoresLocale(t))
  /\ \A p \in Choice : WF_localeVars(Succeeds(p) \/ Fails(p))

LocaleSpec == LocaleInit /\ [][LocaleNext]_localeVars /\ LocaleFairness

-----------------------------------------------------------------------------
(* Properties. *)

Stale == cache.real /\ cache.locale # locale

(* The bot speaks another language than the one the user chose only while a    *)
(* change is under way, or after its answer was lost, or after a cancelled     *)
(* refresh removed the entry of the one that followed it: a refresh that read  *)
(* the old locale never stores it behind the change.                           *)
(* (invalidate_locale, _refresh_locale_task)                                   *)
StaleIsExplained == Stale => excused \/ \E p \in Choice : choice[p].at = "set"

(* Whatever went wrong before, the user who stays logged in and goes on        *)
(* sending updates is spoken to in the chosen language again and again, and a  *)
(* wrong one is never kept for good.                                           *)
(* (_maybe_refresh_locale, the cache's lifetime)                               *)
LocaleHeals ==
  /\ <>[]loggedIn => []<>(cache.real /\ cache.locale = locale)
  /\ []<>~Stale
=============================================================================
