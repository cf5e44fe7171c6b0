------------------------------- MODULE Dialogue ------------------------------
(***************************************************************************)
(* The chat of one Telegram user: the commands and the password dialogues  *)
(* of the bot, the state they keep (FSMContext), the tokens they obtain    *)
(* and the account at the API.  aiogram runs a task for every update: a    *)
(* handler goes on, from its call of the API, after other updates changed  *)
(* the state.                                                              *)
(*                                                                         *)
(* The refresh of a token is one step here (Tokens has its steps).  What a *)
(* message says is left out; sending one comes last in every handler.      *)
(***************************************************************************)
EXTENDS Integers, FiniteSets

CONSTANTS
  Handler,    \* the updates that may be under way together
  Password,   \* what the user types that is long enough ...
  Short,      \* ... and what is not
  Nothing,    \* no password, no account
  MaxUpdates, \* bound on the updates a user sends at will
  MaxLost     \* bound on the answers that do not arrive

ASSUME PasswordAssumption == Short \notin Password /\ Nothing \notin Password \cup {Short}
ASSUME BoundAssumption == MaxUpdates \in Nat /\ MaxLost \in Nat

VARIABLES
  state,    \* FSMContext: what the bot waits for
  old,      \* FSMContext's data: the old password of a reset
  access,   \* the access token the bot holds: "none", "valid", "expired"
  session,  \* the session of its refresh token: "none", "live", "revoked"
  account,  \* the password of the account at the API, Nothing before it exists
  handler,  \* the updates under way
  updates,  \* sent at will so far
  lost      \* answers lost so far

bot == <<state, old, access, session>>
vars == <<bot, account, handler, updates, lost>>

Idle == [kind |-> "idle"]
Active(h) == handler[h] # Idle
Sent(kind, text, previous) ==
  [kind |-> kind, text |-> text, previous |-> previous, at |-> "sent",
   again |-> FALSE, given |-> "none", gone |-> FALSE]
At(h, kind, at) == Active(h) /\ handler[h].kind = kind /\ handler[h].at = at

-----------------------------------------------------------------------------
(***************************************************************************)
(* The updates.  Each runs up to its call of the API.                      *)
(***************************************************************************)
NotCleared == state' = "none" /\ UNCHANGED old    \* mutant: set_state(None)
Clear == state' = "none" /\ old' = Nothing
WaitFor(s) == state' = s /\ old' = Nothing
Calls(h, kind, text, previous) == handler' = [handler EXCEPT ![h] = Sent(kind, text, previous)]
NoCall == UNCHANGED handler

DropTokens == access' = "none" /\ session' = "none"
KeepTokens == UNCHANGED <<access, session>>

\* /start, /help, /cancel, /play, /status, /language
Simple == Clear /\ NoCall /\ KeepTokens

Register ==
  /\ IF access # "none" THEN Clear ELSE WaitFor("new_password")
  /\ NoCall /\ KeepTokens

\* mutant: /login evicts the token to start afresh
LoginAfresh == WaitFor("password") /\ NoCall /\ DropTokens
Login ==
  /\ IF access # "none" THEN Clear ELSE WaitFor("password")
  /\ NoCall /\ KeepTokens

ResetPassword ==
  /\ IF access # "none" THEN WaitFor("old_password") ELSE Clear
  /\ NoCall /\ KeepTokens

\* The button of the panel: the data of an earlier reset stay.
PanelReset ==
  /\ IF access # "none" THEN state' = "old_password" ELSE UNCHANGED state
  /\ UNCHANGED old
  /\ NoCall /\ KeepTokens

Panel(h) ==
  /\ Clear /\ KeepTokens
  /\ IF access # "none" THEN Calls(h, "call", Nothing, Nothing) ELSE NoCall

Logout(h) ==
  /\ Clear /\ KeepTokens
  /\ IF access # "none" THEN Calls(h, "logout", Nothing, Nothing) ELSE NoCall

\* A button of the game.
Press(h) ==
  /\ access # "none"
  /\ UNCHANGED bot
  /\ Calls(h, "call", Nothing, Nothing)

TypeNewPassword(h, text) ==
  /\ state = "new_password" /\ text # Short
  /\ UNCHANGED bot /\ Calls(h, "register", text, Nothing)

TypePassword(h, text) ==
  /\ state = "password"
  /\ UNCHANGED bot /\ Calls(h, "login", text, Nothing)

TypeOldPassword(text) ==
  /\ state = "old_password"
  /\ old' = text /\ state' = "new_password_reset"
  /\ KeepTokens /\ NoCall

TypeResetPassword(h, text) ==
  /\ state = "new_password_reset" /\ text # Short
  /\ UNCHANGED bot /\ Calls(h, "reset", text, old)

Types(h, text) ==
  \/ TypeNewPassword(h, text) \/ TypePassword(h, text)
  \/ TypeOldPassword(text) \/ TypeResetPassword(h, text)

Update(h) ==
  /\ ~Active(h)
  /\ updates < MaxUpdates /\ updates' = updates + 1
  /\ \/ Simple \/ Register \/ Login \/ ResetPassword \/ PanelReset
     \/ Panel(h) \/ Logout(h) \/ Press(h)
     \/ \E text \in Password \cup {Short} : Types(h, text)
  /\ UNCHANGED <<account, lost>>

\* A user who wants to play: asks to log in, types the password, presses buttons.
Insist(h) ==
  /\ \A g \in Handler : ~Active(g)
  /\ account # Nothing
  /\ \/ access = "none" /\ state # "password" /\ Login
     \/ access = "none" /\ TypePassword(h, account)
     \/ Press(h)
  /\ UNCHANGED <<account, updates, lost>>

-----------------------------------------------------------------------------
(***************************************************************************)
(* The API.  register, login and reset_password suspend between the SELECT *)
(* and the write, to hash or to verify; a request whose caller gave up     *)
(* goes on.                                                                *)
(***************************************************************************)
Goto(h, at) == handler' = [handler EXCEPT ![h].at = at]
Answer(h, answer, given) ==
  IF handler[h].gone THEN handler' = [handler EXCEPT ![h] = Idle]
  ELSE handler' = [handler EXCEPT ![h].at = answer, ![h].given = given]

InsertAnyway(h) == TRUE    \* mutant: telegram_id is not unique
Unique(h) == account = Nothing

ServeRegister(h) ==
  \/ At(h, "register", "sent") /\ account = Nothing /\ Goto(h, "checked") /\ UNCHANGED account
  \/ At(h, "register", "sent") /\ account # Nothing /\ Answer(h, "failed", "none") /\ UNCHANGED account
  \/ /\ At(h, "register", "checked")
     /\ IF Unique(h) THEN account' = handler[h].text /\ Answer(h, "ok", "live")
        ELSE Answer(h, "failed", "none") /\ UNCHANGED account

\* The hash that verify_async checks is the one the SELECT read, whatever a reset
\* writes meanwhile; the session is inserted after that.
ServeLogin(h) ==
  /\ \/ /\ At(h, "login", "sent")
        /\ IF account = handler[h].text THEN Goto(h, "checked") ELSE Answer(h, "failed", "none")
     \/ At(h, "login", "checked") /\ Answer(h, "ok", "live")
  /\ UNCHANGED account

\* The access token alone decides who calls.
Refuses == access # "valid"

ServeCall(h) ==
  /\ At(h, "call", "sent")
  /\ IF Refuses THEN Answer(h, "refused", "none") ELSE Answer(h, "ok", "none")
  /\ UNCHANGED account

ServeLogout(h) ==
  /\ At(h, "logout", "sent")
  /\ Answer(h, "ok", "none")
  /\ UNCHANGED account

\* A wrong old password is answered as an unknown caller is: 401.
CheckOld(h) ==
  /\ At(h, "reset", "sent")
  /\ IF Refuses \/ account # handler[h].previous THEN Answer(h, "refused", "none")
     ELSE Goto(h, "checked")
  /\ UNCHANGED <<account, session>>

\* revoke_all_sessions reaches the tokens that are on their way to the bot too.
WriteNew(h) ==
  /\ At(h, "reset", "checked")
  /\ account' = handler[h].text
  /\ session' = IF session = "live" THEN "revoked" ELSE session
  /\ handler' = [g \in Handler |->
       IF g = h THEN IF handler[h].gone THEN Idle ELSE [handler[h] EXCEPT !.at = "ok"]
       ELSE IF Active(g) /\ handler[g].given = "live" THEN [handler[g] EXCEPT !.given = "revoked"]
       ELSE handler[g]]

Serve(h) ==
  /\ \/ (ServeRegister(h) \/ ServeLogin(h) \/ ServeCall(h) \/ ServeLogout(h)) /\ UNCHANGED session
     \/ CheckOld(h) \/ WriteNew(h)
  /\ UNCHANGED <<state, old, access, updates, lost>>

Expire ==
  /\ access = "valid" /\ access' = "expired"
  /\ UNCHANGED <<state, old, session, account, handler, updates, lost>>

-----------------------------------------------------------------------------
(***************************************************************************)
(* The rest of a handler.                                                  *)
(***************************************************************************)
Ends(h) == handler' = [handler EXCEPT ![h] = Idle]

\* process_register, process_login
SignedIn(h) ==
  /\ handler[h].kind \in {"register", "login"} /\ handler[h].at = "ok"
  /\ access' = "valid" /\ session' = handler[h].given
  /\ Clear /\ Ends(h)

\* player_exists, wrong password, another definitive error
Rejected(h) ==
  /\ handler[h].kind \in {"register", "login"} /\ handler[h].at = "failed"
  /\ Clear /\ KeepTokens /\ Ends(h)

LoggedOut(h) ==
  /\ handler[h].kind = "logout" /\ handler[h].at = "ok"
  /\ DropTokens /\ UNCHANGED <<state, old>> /\ Ends(h)

Shown(h) ==
  /\ handler[h].kind = "call" /\ handler[h].at = "ok"
  /\ UNCHANGED bot /\ Ends(h)

\* process_new_password
WasReset(h) ==
  /\ handler[h].kind = "reset" /\ handler[h].at = "ok"
  /\ Clear /\ DropTokens /\ Ends(h)

\* What a definitive error does to the dialogue of the call.
Gives(h) ==
  /\ Ends(h)
  /\ IF handler[h].kind = "reset" THEN Clear ELSE UNCHANGED <<state, old>>

NotEvicted == access    \* mutant: the refused token stays
Evicted == "none"

\* _request: the first 401 evicts the token and asks for another one, with the
\* refresh token there is; the second one is an error.
Refused(h) ==
  /\ handler[h].at = "refused"
  /\ \/ handler[h].again /\ Gives(h) /\ KeepTokens
     \/ /\ ~handler[h].again /\ session = "none"
        /\ access' = Evicted /\ Gives(h) /\ UNCHANGED session
     \/ /\ ~handler[h].again /\ session # "none"
        /\ access' = Evicted /\ Goto(h, "refresh") /\ UNCHANGED <<state, old, session>>

Receive(h) ==
  /\ Active(h) /\ ~handler[h].gone
  /\ SignedIn(h) \/ Rejected(h) \/ LoggedOut(h) \/ Shown(h) \/ WasReset(h) \/ Refused(h)
  /\ UNCHANGED <<account, updates, lost>>

\* _try_refresh: the call is repeated with the new token, or with the one
\* somebody else fetched.
Refresh(h) ==
  /\ Active(h) /\ handler[h].at = "refresh"
  /\ \/ /\ access # "none" \/ session = "live"
        /\ access' = IF access # "none" THEN access ELSE "valid"
        /\ handler' = [handler EXCEPT ![h].at = "sent", ![h].again = TRUE]
        /\ UNCHANGED <<state, old, session, lost>>
     \/ /\ access = "none" /\ session # "live"
        /\ DropTokens /\ Gives(h) /\ UNCHANGED lost
     \/ /\ access = "none" /\ lost < MaxLost /\ lost' = lost + 1
        /\ DropTokens /\ Gives(h)
  /\ UNCHANGED <<account, updates>>

\* A timeout or a connection error: transient, the dialogue stays as it is so
\* that the user can send the text again; a logout drops the tokens all the same.
Lose(h) ==
  /\ Active(h) /\ ~handler[h].gone /\ handler[h].at # "refresh"
  /\ lost < MaxLost /\ lost' = lost + 1
  /\ IF handler[h].kind = "logout" THEN DropTokens ELSE KeepTokens
  /\ \/ Ends(h) /\ handler[h].at # "checked"
     \/ handler[h].at \in {"sent", "checked"} /\ handler' = [handler EXCEPT ![h].gone = TRUE]
  /\ UNCHANGED <<state, old, account, updates>>

Init ==
  /\ state = "none" /\ old = Nothing
  /\ access = "none" /\ session = "none"
  /\ account = Nothing
  /\ handler = [h \in Handler |-> Idle]
  /\ updates = 0 /\ lost = 0

Next ==
  \/ \E h \in Handler : \/ Update(h) \/ Insist(h)
                        \/ Serve(h) \/ Receive(h) \/ Refresh(h) \/ Lose(h)
  \/ Expire

(***************************************************************************)
(* The API answers, the event loop and the user go on, tokens expire.      *)
(***************************************************************************)
Fairness ==
  /\ WF_vars(Expire)
  /\ \A h \in Handler :
       WF_vars(Insist(h)) /\ WF_vars(Serve(h)) /\ WF_vars(Receive(h) \/ Refresh(h))

Spec == Init /\ [][Next]_vars /\ Fairness

-----------------------------------------------------------------------------
(* Properties. *)

(* The old password a user typed is kept only while a reset may need it, and a *)
(* reset has one whenever it asks for the new password, over any order of      *)
(* handlers that clear the state late.  (process_old_password, state.clear)    *)
OldPasswordOnlyForReset ==
  /\ old # Nothing => state \in {"old_password", "new_password_reset"}
  /\ state = "new_password_reset" => old # Nothing

(* Which handlers may take a token from the user: a logout, a reset that       *)
(* succeeded, or a call of the API that is refused for the first time.  No     *)
(* other command, no login, no wrong password, no refresh and no lost answer   *)
(* does.  The refused call removes whatever token there is then, also one that *)
(* was fetched after the call was sent.  (cmd_login, process_login, _request)  *)
Evicts(h) ==
  /\ Active(h)
  /\ \/ handler[h].kind = "logout"
     \/ handler[h].kind = "reset" /\ handler[h].at = "ok"
     \/ handler[h].at = "refused" /\ ~handler[h].again
TokenIsKept ==
  [][access # "none" /\ access' = "none" => \E h \in Handler : Evicts(h) /\ handler'[h] # handler[h]]_vars

(* An account keeps the password it was registered with until a reset that     *)
(* knew its password writes another one: repeated and overlapping              *)
(* registrations change nothing.  (AuthService.register, reset_password)       *)
OnlyResetsChangeIt ==
  [][account' # account =>
       \/ account = Nothing
       \/ \E h \in Handler : At(h, "reset", "checked") /\ account' = handler[h].text]_vars

(* Nobody is locked out: with an account, whatever answers were lost and       *)
(* whatever was sent before, a user who goes on holds a token the API accepts. *)
(* A token of a revoked session must be refused and evicted before /login      *)
(* asks for the password again.  (cmd_login, _request, process_new_password)   *)
NobodyLockedOut == account # Nothing ~> access = "valid" /\ session = "live"
=============================================================================
