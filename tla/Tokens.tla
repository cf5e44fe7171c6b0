------------------------------- MODULE Tokens -------------------------------
(***************************************************************************)
(* The tokens of one Telegram user in the bot: ApiClient sends the calls   *)
(* of several coroutines, refreshes an access token that the API refuses   *)
(* and retries once; AuthService rotates the sessions.  The coroutines     *)
(* share an event loop: a step runs from one await to the next.            *)
(*                                                                         *)
(* The access token and the refresh token issued together have one number. *)
(* A request, or its answer, may be lost, and one the bot gave up on may   *)
(* still be at the server.  Not modelled: reset_password, bans, the expiry *)
(* of refresh tokens.                                                      *)
(***************************************************************************)
EXTENDS Integers, Sequences, SequencesExt, FiniteSets

CONSTANTS
  Call,       \* the coroutines: handlers and background tasks ...
  Auth,       \* ... the handlers that also log in and out ...
  Background, \* ... and the tasks that fetch the locale: they may be cancelled
  Nobody,     \* the sender of a request that the bot gave up on
  MaxPairs,   \* bound on the pairs of tokens issued
  MaxLost     \* bound on the answers lost or too late

ASSUME CallAssumption == 
  /\ IsFiniteSet(Call) /\ Nobody \notin Call
  /\ Auth \subseteq Call /\ Background \subseteq Call \ Auth
ASSUME BoundAssumption == MaxPairs \in Nat \ {0} /\ MaxLost \in Nat

VARIABLES
  access,    \* ApiClient._tokens[telegram_id], 0 when absent
  refresh,   \* ApiClient._refresh_tokens[telegram_id], 0 when absent
  locked,    \* the user's asyncio.Lock ...
  waiters,   \* ... and the coroutines waiting for it, in order
  call,      \* where each coroutine is, and what it holds
  requests,  \* at the server
  answers,   \* on their way to the bot
  live,      \* the sessions that are not revoked, by the number of their token
  expired,   \* the access tokens whose time is over
  issued,    \* the last pair issued
  lost,      \* answers lost so far
  cancelled  \* refresh tokens that a coroutine was rotating when it was cancelled

client == <<access, refresh, locked, waiters, call>>
server == <<live, expired, issued>>
vars == <<client, requests, answers, server, lost, cancelled>>

None == 0
Pair == 1 .. MaxPairs
Idle == [at |-> "idle"]
Active(c) == call[c] # Idle

Request(c, kind, token) == [from |-> c, kind |-> kind, token |-> token, found |-> FALSE]
Answer(c, ok, pair) == [to |-> c, ok |-> ok, pair |-> pair]

\* Bound: a call starts only while a pair is left for every request under way.
Room ==
  issued + Cardinality({c \in Call : Active(c)}) + Cardinality({r \in requests : r.from = Nobody})
    < MaxPairs

-----------------------------------------------------------------------------
(***************************************************************************)
(* The bot.  Each of these writes the coroutine's state.                   *)
(***************************************************************************)
Ends(c) == call' = [call EXCEPT ![c] = Idle]
Asks(c, kind, token, local) ==
  /\ requests' = requests \cup {Request(c, kind, token)}
  /\ call' = [call EXCEPT ![c] = local]

\* An ordinary call sends the access token there is, if any.
Start(c) ==
  /\ ~Active(c) /\ Room
  /\ Asks(c, "play", access, [at |-> "play", first |-> access])
  /\ UNCHANGED <<access, refresh, locked, waiters, answers, server, lost, cancelled>>

Login(c) ==
  /\ c \in Auth /\ ~Active(c) /\ Room
  /\ Asks(c, "login", None, [at |-> "login"])
  /\ UNCHANGED <<access, refresh, locked, waiters, answers, server, lost, cancelled>>

Logout(c) ==
  /\ c \in Auth /\ ~Active(c)
  /\ access # None
  /\ Asks(c, "logout", refresh, [at |-> "logout"])
  /\ UNCHANGED <<access, refresh, locked, waiters, answers, server, lost, cancelled>>

OnlyAccess(pair) == access' = pair /\ refresh' = refresh \* mutant: the new refresh token is dropped
SetTokens(pair) == access' = pair /\ refresh' = pair
StoreRotated(pair) == SetTokens(pair)
ClearToken == access' = None /\ refresh' = None

\* The second request of the same call, with the token that is there now.
Retry(c, token) ==
  Asks(c, "retry", token, [at |-> "retry", first |-> call[c].first, token |-> token])

\* Inside the lock, after the test for a token that somebody else fetched.
Rotate(c, token) ==
  /\ locked' = TRUE
  /\ Asks(c, "refresh", token, [at |-> "refresh", first |-> call[c].first, token |-> token])

Queue(c, at) ==
  /\ waiters' = Append(waiters, c)
  /\ call' = [call EXCEPT ![c] = [at |-> at, first |-> call[c].first, token |-> refresh]]
  /\ UNCHANGED <<refresh, locked, requests>>

NoLock == TRUE \* mutant: every coroutine has a lock of its own
Free == ~locked /\ waiters = <<>>

Evicted == None

\* _request after a 401, and _try_refresh up to its first await.
Refused(c) ==
  /\ access' = Evicted
  /\ \/ refresh = None /\ Ends(c) /\ UNCHANGED <<refresh, locked, waiters, requests>>
     \/ /\ refresh # None /\ Free
        /\ IF access' # None THEN Retry(c, access') /\ UNCHANGED locked ELSE Rotate(c, refresh)
        /\ UNCHANGED <<refresh, waiters>>
     \/ refresh # None /\ ~Free /\ locked /\ Queue(c, "waiting")
     \/ refresh # None /\ ~Free /\ ~locked /\ Queue(c, "queued")

\* The lock is free again: a coroutine that had seen it taken only looks
\* whether there is a token, another one takes it and refreshes if there is none.
Wake(c) ==
  /\ ~locked /\ waiters # <<>> /\ Head(waiters) = c
  /\ call[c].at \in {"waiting", "queued"}
  /\ waiters' = Tail(waiters)
  /\ \/ access # None /\ Retry(c, access) /\ UNCHANGED <<access, refresh, locked>>
     \/ /\ access = None /\ call[c].at = "waiting"
        /\ ClearToken /\ Ends(c) /\ UNCHANGED <<locked, requests>>
     \/ /\ access = None /\ call[c].at = "queued"
        /\ Rotate(c, call[c].token) /\ UNCHANGED <<access, refresh>>
  /\ UNCHANGED <<answers, server, lost, cancelled>>

StillLocked == TRUE \* mutant: the lock is not released when a refresh fails
Unlocked == FALSE

\* The refresh failed, or the logout is over, whatever came back.
GivesUp(c) ==
  /\ Ends(c)
  /\ \/ call[c].at \in {"play", "retry", "login"} /\ UNCHANGED <<access, refresh, locked>>
     \/ call[c].at = "refresh" /\ locked' = Unlocked /\ ClearToken
     \/ call[c].at = "logout" /\ ClearToken /\ UNCHANGED locked

Receive(c) ==
  \E a \in answers :
    /\ a.to = c
    /\ answers' = answers \ {a}
    /\ \/ call[c].at = "play" /\ ~a.ok /\ Refused(c)
       \/ /\ call[c].at = "login" /\ SetTokens(a.pair) /\ Ends(c)
          /\ UNCHANGED <<locked, waiters, requests>>
       \/ /\ call[c].at = "refresh" /\ a.ok
          /\ StoreRotated(a.pair) /\ locked' = FALSE /\ Retry(c, a.pair) /\ UNCHANGED waiters
       \/ /\ call[c].at = "refresh" => ~a.ok
          /\ call[c].at = "play" => a.ok
          /\ call[c].at # "login"
          /\ GivesUp(c) /\ UNCHANGED <<waiters, requests>>
    /\ UNCHANGED <<server, lost, cancelled>>

\* What the server may still do for a call that is over.
Outlives(r) == r.kind \in {"refresh", "login", "logout"}
Abandon(c) ==
  /\ answers' = {a \in answers : a.to # c}
  /\ \/ requests' = {r \in requests : r.from # c}
     \/ requests' = {r \in requests : r.from # c}
          \cup {[r EXCEPT !.from = Nobody] : r \in {s \in requests : s.from = c /\ Outlives(s)}}

\* A timeout or a connection error.
Lose(c) ==
  /\ Active(c) /\ call[c].at \notin {"waiting", "queued"}
  /\ lost < MaxLost /\ lost' = lost + 1
  /\ Abandon(c) /\ GivesUp(c)
  /\ UNCHANGED <<waiters, server, cancelled>>

\* AuthMiddleware.invalidate_locale cancels the task that asks for the locale.
Cancel(c) ==
  /\ c \in Background /\ Active(c)
  /\ lost < MaxLost /\ lost' = lost + 1
  /\ Abandon(c) /\ Ends(c)
  /\ waiters' = SelectSeq(waiters, LAMBDA d : d # c)
  /\ \/ /\ call[c].at = "refresh"
        /\ locked' = FALSE /\ cancelled' = cancelled \cup {call[c].token}
     \/ call[c].at # "refresh" /\ UNCHANGED <<locked, cancelled>>
  /\ UNCHANGED <<access, refresh, server>>

-----------------------------------------------------------------------------
(***************************************************************************)
(* The server.                                                             *)
(***************************************************************************)
Reply(r, ok, pair) ==
  answers' = IF r.from = Nobody THEN answers ELSE answers \cup {Answer(r.from, ok, pair)}
Replies(r, ok, pair) == requests' = requests \ {r} /\ Reply(r, ok, pair)

Valid(token) == token \in Pair \ expired

\* current_player_id looks at the access token only.
Play(r) ==
  /\ r.kind \in {"play", "retry"}
  /\ Replies(r, Valid(r.token), r.token)
  /\ UNCHANGED server

\* AuthService.refresh: the SELECT of the session ...
FindSession(r) ==
  /\ r.kind = "refresh" /\ ~r.found
  /\ \/ r.token \notin live /\ Replies(r, FALSE, None)
     \/ /\ r.token \in live
        /\ requests' = (requests \ {r}) \cup {[r EXCEPT !.found = TRUE]}
        /\ UNCHANGED answers
  /\ UNCHANGED server

\* ... and the UPDATE and the INSERT, with the commit.
RotateSession(r) ==
  /\ r.kind = "refresh" /\ r.found
  /\ issued' = issued + 1
  /\ live' = (live \ {r.token}) \cup {issued + 1}
  /\ Replies(r, TRUE, issued + 1)
  /\ UNCHANGED expired

NewSession(r) ==
  /\ r.kind = "login"
  /\ issued' = issued + 1
  /\ live' = live \cup {issued + 1}
  /\ Replies(r, TRUE, issued + 1)
  /\ UNCHANGED expired

RevokeSession(r) ==
  /\ r.kind = "logout"
  /\ live' = live \ {r.token}
  /\ Replies(r, TRUE, None)
  /\ UNCHANGED <<expired, issued>>

Serve(c) ==
  /\ \E r \in requests :
       r.from = c /\ (Play(r) \/ FindSession(r) \/ RotateSession(r) \/ NewSession(r) \/ RevokeSession(r))
  /\ UNCHANGED <<client, lost, cancelled>>

Expire(pair) ==
  /\ pair \in 1 .. issued \ expired
  /\ expired' = expired \cup {pair}
  /\ UNCHANGED <<client, requests, answers, live, issued, lost, cancelled>>

\* The player has just registered.
Init ==
  /\ access = 1 /\ refresh = 1
  /\ locked = FALSE /\ waiters = <<>>
  /\ call = [c \in Call |-> Idle]
  /\ requests = {} /\ answers = {}
  /\ live = {1} /\ expired = {} /\ issued = 1
  /\ lost = 0 /\ cancelled = {}

Next ==
  \/ \E c \in Call : \/ Start(c) \/ Login(c) \/ Logout(c)
                     \/ Receive(c) \/ Wake(c) \/ Lose(c) \/ Cancel(c)
  \/ \E c \in Call \cup {Nobody} : Serve(c)
  \/ \E pair \in Pair : Expire(pair)

\* The event loop runs every coroutine that can go on; the server answers.
Fairness == \A c \in Call : WF_vars(Receive(c)) /\ WF_vars(Wake(c)) /\ WF_vars(Serve(c))

Spec == Init /\ [][Next]_vars /\ Fairness

-----------------------------------------------------------------------------
(* Properties. *)

(* The lock of a user keeps two coroutines from refreshing at once, also       *)
(* while it is passed on and when its holder is cancelled.                     *)
(* (_get_refresh_lock, _try_refresh)                                           *)
OneRefreshAtATime ==
  \A c, d \in Call : call[c].at = "refresh" /\ call[d].at = "refresh" => c = d

(* With no call under way, the refresh token the bot holds belongs to a        *)
(* session that is not revoked, over any lost, late or failed rotation, login  *)
(* and logout, unless the coroutine that rotated it was cancelled.             *)
(* (_try_refresh, login, logout, clear_token; AuthService.refresh)             *)
HeldSessionIsLive ==
  (\A c \in Call : ~Active(c)) => refresh \in live \cup cancelled \cup {None}

(* Every call ends: no coroutine waits for ever for the lock.  (_try_refresh)  *)
CallsEnd == \A c \in Call : Active(c) ~> ~Active(c)
=============================================================================
