------------------------------ MODULE BotProofs -----------------------------
(***************************************************************************)
(* The chat of a user, for any number of handlers, refreshes, presses and  *)
(* entries: no token is evicted and no password changed or kept by the     *)
(* way, a wrong locale has an explanation, and the pages of a list, from   *)
(* whichever count their buttons were drawn, cover it.                     *)
(***************************************************************************)
EXTENDS Dialogue, Locale, Menus, TLAPS

-----------------------------------------------------------------------------
(***************************************************************************)
(* The dialogues with passwords.                                           *)
(***************************************************************************)
Texts == Password \cup {Short, Nothing}
Kinds == {"call", "logout", "register", "login", "reset"}
Places == {"sent", "checked", "ok", "failed", "refused", "refresh"}
Sessions == {"none", "live", "revoked"}
Handled == [kind : Kinds, text : Texts, previous : Texts, at : Places,
            again : BOOLEAN, given : Sessions, gone : BOOLEAN]

DialogueTypes ==
  /\ old \in Texts /\ account \in Texts
  /\ session \in Sessions
  /\ handler \in [Handler -> {Idle} \cup Handled]

LEMMA IdleIsNoHandler == Idle \notin Handled /\ Idle.kind \notin Kinds
  BY DEF Idle, Handled, Kinds

LEMMA ActiveIsHandled ==
  ASSUME DialogueTypes, NEW h \in Handler, Active(h) PROVE handler[h] \in Handled
  BY DEF DialogueTypes, Active

LEMMA KindIsHandled ==
  ASSUME DialogueTypes, NEW h \in Handler, handler[h].kind \in Kinds PROVE handler[h] \in Handled
  BY IdleIsNoHandler DEF DialogueTypes

LEMMA SentIsHandled ==
  ASSUME NEW kind \in Kinds, NEW text \in Texts, NEW previous \in Texts
  PROVE  Sent(kind, text, previous) \in Handled
  BY DEF Sent, Handled, Places, Sessions

LEMMA OneHandler ==
  ASSUME DialogueTypes, NEW h \in Handler, NEW r \in {Idle} \cup Handled,
         handler' = [handler EXCEPT ![h] = r],
         old' \in Texts, account' \in Texts, session' \in Sessions
  PROVE  DialogueTypes' /\ handler'[h] = r
  BY DEF DialogueTypes

LEMMA CallsTypes ==
  ASSUME DialogueTypes, NEW h \in Handler, NEW kind \in Kinds, NEW text \in Texts,
         NEW previous \in Texts, Calls(h, kind, text, previous),
         old' \in Texts, UNCHANGED <<account, session>>
  PROVE  DialogueTypes'
  <1>1. Sent(kind, text, previous) \in Handled BY SentIsHandled
  <1> QED BY <1>1, OneHandler DEF Calls, DialogueTypes

LEMMA GotoTypes ==
  ASSUME DialogueTypes, NEW h \in Handler, NEW at \in Places, Active(h), Goto(h, at),
         old' \in Texts, UNCHANGED <<account, session>>
  PROVE  DialogueTypes' /\ handler'[h].at = at
  <1>1. PICK r : r = [handler[h] EXCEPT !.at = at] OBVIOUS
  <1>2. handler[h] \in Handled BY ActiveIsHandled
  <1>3. r \in Handled /\ r.at = at BY <1>1, <1>2 DEF Handled
  <1>4. handler' = [handler EXCEPT ![h] = r] BY <1>1 DEF Goto, DialogueTypes
  <1> QED BY <1>3, <1>4, OneHandler DEF DialogueTypes

LEMMA EndsTypes ==
  ASSUME DialogueTypes, NEW h \in Handler, Active(h), Ends(h),
         old' \in Texts, account' \in Texts, session' \in Sessions
  PROVE  DialogueTypes' /\ handler'[h] # handler[h]
  <1>1. DialogueTypes' /\ handler'[h] = Idle BY OneHandler DEF Ends
  <1> QED BY <1>1 DEF Active

LEMMA AnswerTypes ==
  ASSUME DialogueTypes, NEW h \in Handler, NEW answer \in Places, NEW given \in Sessions,
         Active(h), Answer(h, answer, given),
         old' \in Texts, account' \in Texts, session' \in Sessions
  PROVE  DialogueTypes'
  <1>1. CASE handler[h].gone BY <1>1, OneHandler DEF Answer
  <1>2. CASE ~handler[h].gone
    <2>1. PICK r : r = [handler[h] EXCEPT !.at = answer, !.given = given] OBVIOUS
    <2>2. handler[h] \in Handled BY ActiveIsHandled
    <2>3. r \in Handled BY <2>1, <2>2 DEF Handled
    <2>4. handler' = [handler EXCEPT ![h] = r] BY <1>2, <2>1 DEF Answer, DialogueTypes
    <2> QED BY <2>3, <2>4, OneHandler DEF DialogueTypes
  <1> QED BY <1>1, <1>2

\* The updates that call nothing at once, and the dialogue's own steps.
LEMMA UpdateTypes ==
  ASSUME DialogueTypes, NEW h \in Handler, Update(h) PROVE DialogueTypes'
  <1> USE DEF Texts
  <1>1. UNCHANGED <<account, lost>> BY DEF Update
  <1>2. CASE Simple \/ Register \/ Login \/ ResetPassword \/ PanelReset
    BY <1>1, <1>2 DEF Simple, Register, Login, ResetPassword, PanelReset, Clear, WaitFor, NoCall,
                      KeepTokens, DialogueTypes
  <1>3. CASE Panel(h) \/ Logout(h) \/ Press(h)
    <2>1. {"call", "logout"} \subseteq Kinds /\ Nothing \in Texts BY DEF Kinds
    <2>2. old' \in Texts /\ UNCHANGED <<account, session>>
      BY <1>1, <1>3 DEF Panel, Logout, Press, Clear, KeepTokens, bot, DialogueTypes
    <2>3. (\E kind \in Kinds : Calls(h, kind, Nothing, Nothing)) \/ UNCHANGED handler
      BY <1>3, <2>1 DEF Panel, Logout, Press, NoCall
    <2>4. CASE UNCHANGED handler BY <2>2, <2>4 DEF DialogueTypes
    <2> QED BY <2>1, <2>2, <2>3, <2>4, CallsTypes
  <1>4. ASSUME NEW text \in Password \cup {Short}, Types(h, text) PROVE DialogueTypes'
    <2>1. {"register", "login", "reset"} \subseteq Kinds /\ text \in Texts /\ Nothing \in Texts
      BY DEF Kinds
    <2>2. old' \in Texts /\ UNCHANGED <<account, session>>
      BY <1>1, <1>4 DEF Types, TypeNewPassword, TypePassword, TypeOldPassword, TypeResetPassword,
                        KeepTokens, bot, DialogueTypes
    <2>3. \/ \E kind \in Kinds, previous \in Texts : Calls(h, kind, text, previous)
          \/ UNCHANGED handler
      BY <1>4, <2>1 DEF Types, TypeNewPassword, TypePassword, TypeOldPassword, TypeResetPassword,
                        NoCall, DialogueTypes
    <2>4. CASE UNCHANGED handler BY <2>2, <2>4 DEF DialogueTypes
    <2> QED BY <2>1, <2>2, <2>3, <2>4, CallsTypes
  <1> QED BY <1>2, <1>3, <1>4 DEF Update

LEMMA InsistTypes ==
  ASSUME DialogueTypes, NEW h \in Handler, Insist(h) PROVE DialogueTypes'
  <1>1. {"call", "login"} \subseteq Kinds /\ Nothing \in Texts BY DEF Kinds, Texts
  <1>2. UNCHANGED <<account, session>> /\ old' \in Texts
    BY <1>1 DEF Insist, Login, Clear, WaitFor, KeepTokens, TypePassword, Press, bot, DialogueTypes
  <1>3. \/ Calls(h, "login", account, Nothing) \/ Calls(h, "call", Nothing, Nothing)
        \/ UNCHANGED handler
    BY DEF Insist, Login, NoCall, TypePassword, Press
  <1>4. CASE UNCHANGED handler BY <1>2, <1>4 DEF DialogueTypes
  <1> QED BY <1>1, <1>2, <1>3, <1>4, CallsTypes DEF DialogueTypes

LEMMA ServeTypes ==
  ASSUME DialogueTypes, NEW h \in Handler, Serve(h) PROVE DialogueTypes'
  <1>1. {"none", "live", "revoked"} \subseteq Sessions
        /\ {"checked", "ok", "failed", "refused"} \subseteq Places
    BY DEF Sessions, Places
  <1>2. Active(h) /\ old' \in Texts
    BY DEF Serve, ServeRegister, ServeLogin, ServeCall, ServeLogout, CheckOld, WriteNew, At, DialogueTypes
  <1>3. handler[h] \in Handled BY <1>2, ActiveIsHandled
  <1>4. handler[h].text \in Texts BY <1>3 DEF Handled
  <1>5. CASE WriteNew(h)
    <2>1. account' \in Texts /\ session' \in Sessions BY <1>4, <1>5 DEF WriteNew, Sessions, DialogueTypes
    <2>2. PICK r : r = IF handler[h].gone THEN Idle ELSE [handler[h] EXCEPT !.at = "ok"] OBVIOUS
    <2>3. r \in {Idle} \cup Handled BY <1>3, <2>2 DEF Handled, Places
    <2>4. ASSUME NEW g \in Handler PROVE handler'[g] \in {Idle} \cup Handled
      <3>1. CASE g = h BY <1>5, <2>2, <2>3, <3>1 DEF WriteNew
      <3>2. CASE g # h /\ Active(g) /\ handler[g].given = "live"
        <4>1. handler'[g] = [handler[g] EXCEPT !.given = "revoked"] BY <1>5, <3>2 DEF WriteNew
        <4>2. handler[g] \in Handled BY <3>2, ActiveIsHandled
        <4> QED BY <4>1, <4>2 DEF Handled, Sessions
      <3>3. CASE g # h /\ ~(Active(g) /\ handler[g].given = "live")
        <4>1. handler'[g] = handler[g] BY <1>5, <3>3 DEF WriteNew
        <4> QED BY <4>1 DEF DialogueTypes
      <3> QED BY <3>1, <3>2, <3>3
    <2>5. handler' = [g \in Handler |-> handler'[g]] BY <1>5 DEF WriteNew
    <2> QED BY <1>2, <2>1, <2>4, <2>5 DEF DialogueTypes
  <1>6. CASE ~WriteNew(h)
    <2>1. account' \in Texts /\ session' \in Sessions
      BY <1>4, <1>6 DEF Serve, ServeRegister, ServeLogin, ServeCall, ServeLogout, CheckOld, DialogueTypes
    <2>2. \/ Goto(h, "checked") /\ UNCHANGED <<account, session>>
          \/ \E answer \in Places, given \in Sessions : Answer(h, answer, given)
      BY <1>1, <1>6 DEF Serve, ServeRegister, ServeLogin, ServeCall, ServeLogout, CheckOld
    <2> QED BY <1>1, <1>2, <2>1, <2>2, GotoTypes, AnswerTypes
  <1> QED BY <1>5, <1>6

LEMMA ReceiveSteps ==
  ASSUME DialogueTypes, NEW h \in Handler, Receive(h)
  PROVE  DialogueTypes' /\ UNCHANGED account
         /\ (access # "none" /\ access' = "none" => Evicts(h) /\ handler'[h] # handler[h])
  <1> USE DEF Texts
  <1>1. Active(h) /\ UNCHANGED account BY DEF Receive
  <1>2. handler[h] \in Handled BY <1>1, ActiveIsHandled
  <1>3. handler[h].given \in Sessions /\ {"none"} \subseteq Sessions /\ {"refresh"} \subseteq Places
    BY <1>2 DEF Handled, Sessions, Places
  <1>4. CASE SignedIn(h) \/ Rejected(h) \/ Shown(h)
    <2>1. Ends(h) /\ old' \in Texts /\ session' \in Sessions
      BY <1>3, <1>4 DEF SignedIn, Rejected, Shown, Clear, KeepTokens, bot, DialogueTypes
    <2>2. access' \in {access, "valid"}
      BY <1>4 DEF SignedIn, Rejected, Shown, KeepTokens, bot
    <2> QED BY <1>1, <2>1, <2>2, EndsTypes DEF DialogueTypes
  <1>5. CASE LoggedOut(h) \/ WasReset(h)
    <2>1. Ends(h) /\ old' \in Texts /\ session' \in Sessions
      BY <1>3, <1>5 DEF LoggedOut, WasReset, Clear, DropTokens, DialogueTypes
    <2>2. Evicts(h) BY <1>1, <1>5 DEF LoggedOut, WasReset, Evicts
    <2> QED BY <1>1, <2>1, <2>2, EndsTypes DEF DialogueTypes
  <1>6. CASE Refused(h)
    <2>1. old' \in Texts /\ session' \in Sessions /\ UNCHANGED session
      BY <1>6 DEF Refused, Gives, Clear, KeepTokens, DialogueTypes
    <2>2. /\ access # "none" /\ access' = "none" => Evicts(h)
          /\ handler[h].at = "refused"
      BY <1>1, <1>6 DEF Refused, KeepTokens, Evicts
    <2>3. CASE Ends(h) BY <1>1, <2>1, <2>2, <2>3, EndsTypes DEF DialogueTypes
    <2>4. CASE Goto(h, "refresh") BY <1>1, <1>3, <2>1, <2>2, <2>4, GotoTypes DEF DialogueTypes
    <2> QED BY <1>6, <2>3, <2>4 DEF Refused, Gives
  <1> QED BY <1>4, <1>5, <1>6 DEF Receive

LEMMA RefreshSteps ==
  ASSUME DialogueTypes, NEW h \in Handler, Refresh(h)
  PROVE  DialogueTypes' /\ UNCHANGED account /\ (access # "none" => access' # "none")
  <1> USE DEF Texts
  <1>1. Active(h) /\ UNCHANGED account BY DEF Refresh
  <1>2. handler[h] \in Handled BY <1>1, ActiveIsHandled
  <1>3. CASE UNCHANGED <<old, session>> /\ access' # "none"
             /\ handler' = [handler EXCEPT ![h].at = "sent", ![h].again = TRUE]
    <2>1. PICK r : r = [handler[h] EXCEPT !.at = "sent", !.again = TRUE] OBVIOUS
    <2>2. r \in Handled BY <1>2, <2>1 DEF Handled, Places
    <2>3. handler' = [handler EXCEPT ![h] = r] BY <1>3, <2>1 DEF DialogueTypes
    <2> QED BY <1>1, <1>3, <2>2, <2>3, OneHandler DEF DialogueTypes
  <1>4. CASE access = "none" /\ DropTokens /\ Gives(h)
    <2>1. Ends(h) /\ old' \in Texts /\ session' \in Sessions
      BY <1>4 DEF Gives, Clear, DropTokens, Sessions, DialogueTypes
    <2> QED BY <1>1, <1>4, <2>1, EndsTypes DEF DialogueTypes
  <1> QED BY <1>3, <1>4 DEF Refresh

LEMMA LoseSteps ==
  ASSUME DialogueTypes, NEW h \in Handler, Lose(h)
  PROVE  DialogueTypes' /\ UNCHANGED account
         /\ (access # "none" /\ access' = "none" => Evicts(h) /\ handler'[h] # handler[h])
  <1>1. Active(h) /\ UNCHANGED account /\ ~handler[h].gone /\ old' \in Texts
    BY DEF Lose, DialogueTypes
  <1>2. handler[h] \in Handled BY <1>1, ActiveIsHandled
  <1>3. session' \in Sessions /\ (access # "none" /\ access' = "none" => Evicts(h))
    BY <1>1 DEF Lose, DropTokens, KeepTokens, Sessions, DialogueTypes, Evicts
  <1>4. CASE Ends(h) BY <1>1, <1>3, <1>4, EndsTypes DEF DialogueTypes
  <1>5. CASE handler' = [handler EXCEPT ![h].gone = TRUE]
    <2>1. PICK r : r = [handler[h] EXCEPT !.gone = TRUE] OBVIOUS
    <2>2. r \in Handled /\ r.gone BY <1>2, <2>1 DEF Handled
    <2>3. handler' = [handler EXCEPT ![h] = r] BY <1>5, <2>1 DEF DialogueTypes
    <2> QED BY <1>1, <1>3, <2>2, <2>3, OneHandler DEF DialogueTypes
  <1> QED BY <1>4, <1>5 DEF Lose

LEMMA KeepsTokens ==
  ASSUME NEW h \in Handler, Update(h) \/ Insist(h) \/ Serve(h)
  PROVE  access' = access
  <1>1. CASE Update(h)
    BY <1>1 DEF Update, Simple, Register, Login, ResetPassword, PanelReset, Panel, Logout, Press, Types,
             TypeNewPassword, TypePassword, TypeOldPassword, TypeResetPassword, KeepTokens, bot
  <1>2. CASE Insist(h) BY <1>2 DEF Insist, Login, TypePassword, Press, KeepTokens, bot
  <1>3. CASE Serve(h) BY <1>3 DEF Serve
  <1> QED BY <1>1, <1>2, <1>3

LEMMA DialogueStarts == Init => DialogueTypes
  BY DEF Init, DialogueTypes, Texts, Sessions

LEMMA DialogueSteps == DialogueTypes /\ [Next]_vars => DialogueTypes'
  <1> SUFFICES ASSUME DialogueTypes, [Next]_vars PROVE DialogueTypes' OBVIOUS
  <1>1. CASE UNCHANGED vars BY <1>1 DEF vars, bot, DialogueTypes
  <1>2. CASE Expire BY <1>2 DEF Expire, DialogueTypes
  <1> QED BY <1>1, <1>2, UpdateTypes, InsistTypes, ServeTypes, ReceiveSteps, RefreshSteps, LoseSteps
          DEF Next

(***************************************************************************)
(* A handler keeps the shape its update gave it (aiogram's task, and the   *)
(* call of the API it makes), whatever order the updates come in.          *)
(***************************************************************************)
THEOREM DialogueIsTyped == Spec => []DialogueTypes
  BY DialogueStarts, DialogueSteps, PTL DEF Spec

(***************************************************************************)
(* When a token goes, the handler that moved is a logout, a reset that     *)
(* succeeded, or one whose call was refused for the first time: no other   *)
(* command, no login and no lost answer takes it, whatever else is under   *)
(* way.  (cmd_login, process_login, _request)                              *)
(***************************************************************************)
THEOREM TokensAreKept == Spec => TokenIsKept
  <1>1. ASSUME DialogueTypes, [Next]_vars, access # "none", access' = "none"
        PROVE  \E h \in Handler : Evicts(h) /\ handler'[h] # handler[h]
    <2>1. ~(UNCHANGED vars) BY <1>1 DEF vars, bot
    <2>2. ~Expire BY <1>1 DEF Expire
    <2> QED BY <1>1, <2>1, <2>2, KeepsTokens, ReceiveSteps, RefreshSteps, LoseSteps DEF Next
  <1> QED BY <1>1, DialogueIsTyped, PTL DEF Spec, TokenIsKept

(***************************************************************************)
(* Only a reset that knew the password writes another one: a registration  *)
(* that finds an account changes nothing, also one that looked before      *)
(* there was any.  (AuthService.register, reset_password)                  *)
(***************************************************************************)
THEOREM PasswordsAreKept == Spec => OnlyResetsChangeIt
  <1>1. ASSUME DialogueTypes, [Next]_vars, account' # account
        PROVE  \/ account = Nothing
               \/ \E h \in Handler : At(h, "reset", "checked") /\ account' = handler[h].text
    <2>1. ~(UNCHANGED vars) /\ ~Expire BY <1>1 DEF vars, Expire
    <2>2. PICK h \in Handler : Serve(h)
      BY <1>1, <2>1, ReceiveSteps, RefreshSteps, LoseSteps DEF Next, Update, Insist
    <2> QED
      BY <1>1, <2>2 DEF Serve, ServeRegister, ServeLogin, ServeCall, ServeLogout, CheckOld, WriteNew, Unique
  <1> QED BY <1>1, DialogueIsTyped, PTL DEF Spec, OnlyResetsChangeIt

(***************************************************************************)
(* The old password is kept only while a reset may need it, and a reset    *)
(* that asks for the new one has it, whoever clears the state late.        *)
(* (process_old_password, state.clear)                                     *)
(***************************************************************************)
THEOREM OldPasswordIsDropped == Spec => []OldPasswordOnlyForReset
  <1> USE PasswordAssumption DEF OldPasswordOnlyForReset
  <1>1. Init => OldPasswordOnlyForReset BY DEF Init
  <1>2. OldPasswordOnlyForReset /\ [Next]_vars => OldPasswordOnlyForReset'
    <2> SUFFICES ASSUME OldPasswordOnlyForReset, [Next]_vars PROVE OldPasswordOnlyForReset' OBVIOUS
    <2>1. ASSUME UNCHANGED <<state, old>> PROVE OldPasswordOnlyForReset' BY <2>1
    <2>2. ASSUME Clear PROVE OldPasswordOnlyForReset' BY <2>2 DEF Clear
    <2>3. ASSUME NEW h \in Handler, Update(h) PROVE OldPasswordOnlyForReset'
      <3>1. CASE Simple \/ Register \/ Login \/ ResetPassword \/ PanelReset
        BY <2>3, <3>1 DEF Simple, Register, Login, ResetPassword, PanelReset, Clear, WaitFor
      <3>2. CASE Panel(h) \/ Logout(h) \/ Press(h)
        BY <2>1, <2>2, <3>2 DEF Panel, Logout, Press, bot
      <3>3. ASSUME NEW text \in Password \cup {Short}, Types(h, text) PROVE OldPasswordOnlyForReset'
        BY <3>3 DEF Types, TypeNewPassword, TypePassword, TypeOldPassword, TypeResetPassword, bot
      <3> QED BY <2>3, <3>1, <3>2, <3>3 DEF Update
    <2>4. ASSUME NEW h \in Handler, Insist(h) PROVE OldPasswordOnlyForReset'
      BY <2>4 DEF Insist, Login, TypePassword, Press, Clear, WaitFor, bot
    <2>5. ASSUME NEW h \in Handler, Serve(h) \/ Lose(h) \/ Expire PROVE OldPasswordOnlyForReset'
      BY <2>1, <2>5 DEF Serve, Lose, Expire
    <2>6. ASSUME NEW h \in Handler, Receive(h) \/ Refresh(h) PROVE OldPasswordOnlyForReset'
      BY <2>1, <2>2, <2>6 DEF Receive, Refresh, SignedIn, Rejected, LoggedOut, Shown, WasReset, Refused,
                              Gives, bot
    <2> QED BY <2>1, <2>3, <2>4, <2>5, <2>6 DEF Next, Expire, vars, bot
  <1> QED BY <1>1, <1>2, PTL DEF Spec

-----------------------------------------------------------------------------
(***************************************************************************)
(* The locale.                                                             *)
(***************************************************************************)
Asked == [at : {"asked"}, cancelled : BOOLEAN]
Read == [at : {"read"}, cancelled : BOOLEAN, locale : Locales]
Forms == {NoWork, Created} \cup Asked \cup Read

Set == [at |-> "set"]
Choices == {NoWork, Set} \cup [at : {"asked"}, locale : Locales]

LocaleTypes ==
  /\ entry \in Task \cup {NoTask} /\ excused \in BOOLEAN
  /\ task \in [Task -> Forms]
  /\ locale \in Locales /\ choice \in [Choice -> Choices]

Explained == excused \/ \E p \in Choice : choice[p].at = "set"

\* A refresh that may still store its result is the one the entry names.
Named == \A t \in Task : task[t] # NoWork /\ ~Cancelled(t) => entry = t \/ excused

\* It has read the present locale.
ReadsPresent ==
  \A t \in Task : task[t].at = "read" /\ ~Cancelled(t) => task[t].locale = locale \/ Explained

LocaleInv == LocaleTypes /\ Named /\ ReadsPresent /\ StaleIsExplained

LEMMA TaskForms ==
  ASSUME LocaleTypes, NEW t \in Task
  PROVE  /\ task[t] = NoWork \/ task[t] = Created \/ task[t] \in Asked \/ task[t] \in Read
         /\ task[t] = NoWork => task[t].at = "idle"
         /\ task[t] = Created => task[t].at = "created"
         /\ task[t].at = "asked" => task[t] \in Asked
         /\ task[t].at = "read" => task[t] \in Read
  BY DEF LocaleTypes, Forms, NoWork, Created, Asked, Read

\* Dropping the cache cancels the task that the entry names.
LEMMA InvalidateFacts ==
  ASSUME LocaleInv, Invalidate
  PROVE  /\ entry' = NoTask /\ ~Stale'
         /\ task' \in [Task -> Forms]
         /\ \A t \in Task : \/ task'[t] = task[t] /\ t # entry
                            \/ task'[t] = NoWork
                            \/ task'[t].at \in {"asked", "read"} /\ task'[t].cancelled
  <1>1. entry' = NoTask /\ cache' = NoCache /\ CancelTask BY DEF Invalidate
  <1>2. ~Stale' BY <1>1 DEF Stale, NoCache
  <1>3. CASE entry = NoTask
    <2>1. task' = task BY <1>1, <1>3 DEF CancelTask
    <2> QED BY <1>1, <1>2, <1>3, <2>1, TaskAssumption DEF LocaleInv, LocaleTypes, Forms
  <1>4. CASE entry # NoTask
    <2>1. entry \in Task BY <1>4 DEF LocaleInv, LocaleTypes
    <2>2. PICK new : new = IF Running(entry) THEN [task[entry] EXCEPT !.cancelled = TRUE] ELSE NoWork
      OBVIOUS
    <2>3. task' = [task EXCEPT ![entry] = new]
      BY <1>1, <1>4, <2>1, <2>2 DEF CancelTask, LocaleInv, LocaleTypes
    <2>4. new \in Forms /\ (new = NoWork \/ (new.at \in {"asked", "read"} /\ new.cancelled))
      BY <2>1, <2>2, TaskForms DEF LocaleInv, Running, Asked, Read, Forms
    <2>5. task' \in [Task -> Forms]
      BY <2>3, <2>4 DEF LocaleInv, LocaleTypes, Forms
    <2>6. task'[entry] = new /\ \A t \in Task \ {entry} : task'[t] = task[t]
      BY <2>1, <2>3 DEF LocaleInv, LocaleTypes
    <2> QED BY <1>1, <1>2, <2>4, <2>5, <2>6
  <1> QED BY <1>3, <1>4

\* What one task does, the others and the choices aside.
LEMMA OneTask ==
  ASSUME LocaleInv, NEW t \in Task, NEW new \in Forms,
         task' = [task EXCEPT ![t] = new],
         entry' \in {entry, NoTask, t}, excused' \in BOOLEAN, excused => excused',
         UNCHANGED <<locale, choice>>, Stale' => Stale \/ Explained,
         entry' = entry \/ entry \in {t, NoTask} \/ excused',
         new = NoWork \/ (new.at \in {"asked", "read"} /\ new.cancelled) \/ entry' = t \/ excused',
         new.at = "read" => new.cancelled \/ new.locale = locale \/ Explained
  PROVE  LocaleInv'
  <1>1. task' \in [Task -> Forms] BY DEF LocaleInv, LocaleTypes
  <1>2. task'[t] = new /\ \A u \in Task \ {t} : task'[u] = task[u] BY DEF LocaleInv, LocaleTypes
  <1>3. LocaleTypes' BY <1>1 DEF LocaleInv, LocaleTypes
  <1>4. Explained => Explained' BY DEF Explained
  <1>5. Named'
    <2> SUFFICES ASSUME NEW u \in Task, task'[u] # NoWork, ~Cancelled(u)'
                 PROVE  entry' = u \/ excused'
      BY DEF Named
    <2>1. CASE u = t BY <1>2, <2>1 DEF Cancelled, Running
    <2>2. CASE u # t
      <3>1. task[u] # NoWork /\ ~Cancelled(u) BY <1>2, <2>2 DEF Cancelled, Running
      <3> QED BY <2>2, <3>1, TaskAssumption DEF LocaleInv, Named
    <2> QED BY <2>1, <2>2
  <1>6. ReadsPresent'
    <2> SUFFICES ASSUME NEW u \in Task, task'[u].at = "read", ~Cancelled(u)'
                 PROVE  task'[u].locale = locale' \/ Explained'
      BY DEF ReadsPresent
    <2>1. CASE u = t BY <1>2, <1>4, <2>1 DEF Cancelled, Running
    <2>2. CASE u # t
      <3>1. task[u].at = "read" /\ ~Cancelled(u) BY <1>2, <2>2 DEF Cancelled, Running
      <3> QED BY <1>2, <1>4, <2>2, <3>1 DEF LocaleInv, ReadsPresent
    <2> QED BY <2>1, <2>2
  <1>7. StaleIsExplained' BY <1>4 DEF LocaleInv, StaleIsExplained, Explained
  <1> QED BY <1>3, <1>5, <1>6, <1>7 DEF LocaleInv

\* What leaves the tasks and the entry alone.
LEMMA NoTaskMoves ==
  ASSUME LocaleInv, UNCHANGED <<task, entry>>, excused' \in BOOLEAN, excused => excused',
         locale' \in Locales, choice' \in [Choice -> Choices],
         Explained' \/ (~Explained /\ locale' = locale /\ (Stale' => Stale))
  PROVE  LocaleInv'
  <1>1. LocaleTypes' BY DEF LocaleInv, LocaleTypes
  <1>2. Named' BY DEF LocaleInv, Named, Cancelled, Running
  <1>3. ReadsPresent' BY DEF LocaleInv, ReadsPresent, Cancelled, Running
  <1>4. StaleIsExplained' BY DEF LocaleInv, StaleIsExplained, Explained
  <1> QED BY <1>1, <1>2, <1>3, <1>4 DEF LocaleInv

\* The language button's end, or a change of nothing that is stored.
LEMMA Invalidates ==
  ASSUME LocaleInv, Invalidate, UNCHANGED <<locale, excused>>,
         choice' \in [Choice -> Choices]
  PROVE  LocaleInv'
  <1>1. LocaleTypes' BY InvalidateFacts DEF LocaleInv, LocaleTypes
  <1>2. Named'
    <2> SUFFICES ASSUME NEW u \in Task, task'[u] # NoWork, ~Cancelled(u)'
                 PROVE  excused
      BY DEF Named
    <2>1. task'[u] = task[u] /\ u # entry BY InvalidateFacts DEF Cancelled, Running
    <2> QED BY <2>1 DEF LocaleInv, Named, Cancelled, Running
  <1>3. ReadsPresent'
    <2> SUFFICES ASSUME NEW u \in Task, task'[u].at = "read", ~Cancelled(u)'
                 PROVE  excused'
      BY DEF ReadsPresent, Explained
    <2>1. task'[u] # NoWork BY DEF NoWork
    <2>2. entry' # u BY InvalidateFacts, TaskAssumption
    <2> QED BY <1>2, <2>1, <2>2 DEF Named
  <1>4. StaleIsExplained' BY InvalidateFacts DEF StaleIsExplained
  <1> QED BY <1>1, <1>2, <1>3, <1>4 DEF LocaleInv

LEMMA LocaleStarts == LocaleInit => LocaleInv
  <1> SUFFICES ASSUME LocaleInit PROVE LocaleInv OBVIOUS
  <1> USE DEF LocaleInit
  <1>1. LocaleTypes BY DEF LocaleTypes, Forms, Choices
  <1>2. \A t \in Task : task[t] = NoWork /\ task[t].at # "read" BY DEF NoWork
  <1>3. ~Stale BY DEF Stale, NoCache
  <1> QED BY <1>1, <1>2, <1>3 DEF LocaleInv, Named, ReadsPresent, StaleIsExplained

LEMMA LocaleSteps == LocaleInv /\ [LocaleNext]_localeVars => LocaleInv'
  <1> SUFFICES ASSUME LocaleInv, [LocaleNext]_localeVars PROVE LocaleInv' OBVIOUS
  <1> USE DEF Explained, StaleIsExplained
  <1>1. ASSUME UNCHANGED localeVars PROVE LocaleInv'
    BY <1>1, NoTaskMoves DEF localeVars, LocaleInv, LocaleTypes, Stale
  <1>2. ASSUME AnyUpdate PROVE LocaleInv'
    <2>1. Stale' => Stale
      BY <1>2 DEF AnyUpdate, Resolved, FallbackEntry, Cached, Stale
    <2>2. CASE UNCHANGED <<entry, task>>
      BY <1>2, <2>1, <2>2, NoTaskMoves DEF AnyUpdate, LocaleInv, LocaleTypes
    <2>3. CASE NeedsRefresh /\ \E t \in Task : task[t] = NoWork /\ CreateTask(t)
      <3>1. PICK t \in Task : CreateTask(t) BY <2>3
      <3>2. entry = NoTask /\ entry' = t /\ task' = [task EXCEPT ![t] = Created]
        BY <2>3, <3>1 DEF NeedsRefresh, CreateTask
      <3>3. Created \in Forms /\ Created.at # "read" BY DEF Forms, Created
      <3> QED BY <1>2, <2>1, <3>2, <3>3, OneTask DEF AnyUpdate, LocaleInv, LocaleTypes
    <2> QED BY <1>2, <2>2, <2>3 DEF AnyUpdate
  <1>3. ASSUME CacheExpires PROVE LocaleInv'
    <2>1. cache'.real = cache.real /\ cache'.locale = cache.locale
      BY <1>3 DEF CacheExpires
    <2> QED BY <1>3, <2>1, NoTaskMoves DEF CacheExpires, LocaleInv, LocaleTypes, Stale
  <1>4. ASSUME NEW t \in Task, AsksApi(t) PROVE LocaleInv'
    <2>1. PICK new : new = [at |-> "asked", cancelled |-> FALSE] OBVIOUS
    <2>2. new \in Forms /\ new.at = "asked" BY <2>1 DEF Forms, Asked
    <2>3. entry = t \/ excused
      BY <1>4 DEF AsksApi, Created, NoWork, LocaleInv, Named, Cancelled, Running
    <2> QED BY <1>4, <2>1, <2>2, <2>3, OneTask DEF AsksApi, LocaleInv, LocaleTypes, Stale
  <1>5. ASSUME NEW t \in Task, ApiReads(t) PROVE LocaleInv'
    <2>1. PICK new : new = [at |-> "read", cancelled |-> task[t].cancelled, locale |-> locale]
      OBVIOUS
    <2>2. task[t] \in Asked /\ task' = [task EXCEPT ![t] = new]
      BY <1>5, <2>1, TaskForms DEF ApiReads, LocaleInv, LocaleTypes
    <2>3. new \in Forms /\ new.at = "read" BY <2>1, <2>2 DEF Forms, Asked, Read, LocaleInv, LocaleTypes
    <2>4. entry = t \/ excused \/ new.cancelled
      BY <1>5, <2>1 DEF ApiReads, NoWork, LocaleInv, Named, Cancelled, Running
    <2> QED BY <1>5, <2>1, <2>2, <2>3, <2>4, OneTask DEF ApiReads, LocaleInv, LocaleTypes, Stale
  <1>6. ASSUME NEW t \in Task, TaskEnds(t) PROVE LocaleInv'
    <2>1. NoWork \in Forms /\ NoWork.at # "read" BY DEF Forms, NoWork
    <2>2. CASE StoresLocale(t)
      <3>1. entry = t \/ excused BY <2>2 DEF StoresLocale, NoWork, LocaleInv, Named
      <3>2. task[t].locale = locale \/ Explained BY <2>2 DEF StoresLocale, LocaleInv, ReadsPresent
      <3>3. Stale' => Explained BY <2>2, <3>2 DEF StoresLocale, Stale, Cached
      <3> QED BY <2>1, <2>2, <3>1, <3>3, OneTask DEF StoresLocale, Finally, LocaleInv, LocaleTypes
    <2>3. CASE GetMeFails(t)
      <3>1. entry = t \/ excused BY <2>3 DEF GetMeFails, Running, NoWork, LocaleInv, Named
      <3> QED BY <2>1, <2>3, <3>1, OneTask DEF GetMeFails, Finally, LocaleInv, LocaleTypes, Stale
    <2>4. CASE CancelledEnds(t)
      BY <2>1, <2>4, OneTask DEF CancelledEnds, Finally, LocaleInv, LocaleTypes, Stale
    <2> QED BY <1>6, <2>2, <2>3, <2>4 DEF TaskEnds
  <1>7. ASSUME NEW p \in Choice, NEW l \in Locales, PressLanguage(p, l) PROVE LocaleInv'
    <2>1. CASE Invalidate /\ UNCHANGED choice
      BY <1>7, <2>1, Invalidates DEF PressLanguage, LocaleInv, LocaleTypes
    <2>2. CASE choice' = [choice EXCEPT ![p] = [at |-> "asked", locale |-> l]] /\ UNCHANGED botVars
      <3>1. choice' \in [Choice -> Choices] BY <2>2 DEF LocaleInv, LocaleTypes, Choices
      <3>2. \A q \in Choice : choice[q].at = "set" => choice'[q].at = "set"
        BY <1>7, <2>2 DEF PressLanguage, NoWork, LocaleInv, LocaleTypes
      <3> QED BY <1>7, <2>2, <3>1, <3>2, NoTaskMoves DEF PressLanguage, botVars, LocaleInv, LocaleTypes, Stale
    <2> QED BY <1>7, <2>1, <2>2 DEF PressLanguage
  <1>8. ASSUME NEW p \in Choice, ApiSets(p) PROVE LocaleInv'
    <2>1. choice' \in [Choice -> Choices] /\ choice'[p].at = "set"
      BY <1>8 DEF ApiSets, LocaleInv, LocaleTypes, Choices, Set, NoWork
    <2> QED BY <1>8, <2>1, NoTaskMoves DEF ApiSets, LocaleInv, LocaleTypes, Choices, Set, NoWork
  <1>9. ASSUME NEW p \in Choice, Succeeds(p) PROVE LocaleInv'
    <2>1. choice' \in [Choice -> Choices] BY <1>9 DEF Succeeds, LocaleInv, LocaleTypes, Choices, Set, NoWork
    <2> QED BY <1>9, <2>1, Invalidates DEF Succeeds
  <1>10. ASSUME NEW p \in Choice, Fails(p) PROVE LocaleInv'
    <2>1. choice' \in [Choice -> Choices] BY <1>10 DEF Fails, LocaleInv, LocaleTypes, Choices, Set, NoWork
    <2>2. \A q \in Choice : choice[q].at = "set" => choice'[q].at = "set" \/ excused'
      BY <1>10 DEF Fails, LocaleInv, LocaleTypes, Choices, Set, NoWork
    <2> QED BY <1>10, <2>1, <2>2, NoTaskMoves DEF Fails, LocaleInv, LocaleTypes, Stale
  <1>11. ASSUME TokenComes \/ TokenGoes PROVE LocaleInv'
    BY <1>11, NoTaskMoves DEF TokenComes, TokenGoes, Elsewhere, LocaleInv, LocaleTypes, Stale
  <1> QED
    BY <1>1, <1>2, <1>3, <1>4, <1>5, <1>6, <1>7, <1>8, <1>9, <1>10, <1>11 DEF LocaleNext

(***************************************************************************)
(* A refresh that read the old locale never stores it behind the change:   *)
(* the bot speaks a wrong language only during a change, after a lost      *)
(* answer, or after a cancelled refresh took its successor's entry.        *)
(* (invalidate_locale, _refresh_locale_task)                               *)
(***************************************************************************)
THEOREM StaleOnlyWhenExplained == LocaleSpec => []StaleIsExplained
  <1>1. LocaleInv => StaleIsExplained BY DEF LocaleInv
  <1> QED BY <1>1, LocaleStarts, LocaleSteps, PTL DEF LocaleSpec

-----------------------------------------------------------------------------
(***************************************************************************)
(* The pages of a list.                                                    *)
(***************************************************************************)
LEMMA DivFacts ==
  ASSUME NEW n \in Nat, NEW d \in Nat \ {0}
  PROVE  n \div d \in Nat /\ (n \div d) * d <= n /\ n < (n \div d + 1) * d
  OBVIOUS

LEMMA TimesGrows ==
  ASSUME NEW a \in Nat, NEW b \in Nat, a <= b, NEW d \in Nat \ {0}
  PROVE  a * d <= b * d /\ a * d \in Nat
  OBVIOUS

\* A page below TotalPages has an entry, and the entry k is on the page k \div PageSize.
LEMMA PagesOfAList ==
  ASSUME NEW total \in Nat
  PROVE  /\ TotalPages(total) \in Nat \ {0}
         /\ \A page \in Nat : page # 0 /\ page < TotalPages(total) => page * PageSize < total
         /\ \A k \in 0 .. total - 1 : \E page \in Nat :
              page < TotalPages(total) /\ page * PageSize <= k /\ k < (page + 1) * PageSize
  <1> DEFINE m == (total + PageSize - 1) \div PageSize
  <1>1. PageSize \in Nat /\ PageSize >= 1 /\ total + PageSize - 1 \in Nat BY PageAssumption
  <1>2. m \in Nat /\ m * PageSize <= total + PageSize - 1 /\ total + PageSize - 1 < (m + 1) * PageSize
    BY <1>1, DivFacts
  <1> HIDE DEF m
  <1>3. TotalPages(total) = IF m > 1 THEN m ELSE 1 BY DEF TotalPages, m
  <1>4. TotalPages(total) \in Nat \ {0} BY <1>2, <1>3
  <1>5. ASSUME NEW page \in Nat, page # 0, page < TotalPages(total)
        PROVE  page * PageSize < total
    <2>1. page + 1 <= m BY <1>2, <1>3, <1>5
    <2>2. (page + 1) * PageSize <= m * PageSize BY <1>1, <1>2, <2>1, TimesGrows
    <2>3. (page + 1) * PageSize = page * PageSize + PageSize /\ page * PageSize \in Nat BY <1>1
    <2>4. m * PageSize \in Nat BY <1>1, <1>2
    <2> QED BY <1>1, <1>2, <2>2, <2>3, <2>4
  <1>6. ASSUME NEW k \in 0 .. total - 1
        PROVE  \E page \in Nat :
                 page < TotalPages(total) /\ page * PageSize <= k /\ k < (page + 1) * PageSize
    <2>1. k \in Nat /\ k < total OBVIOUS
    <2>2. PICK q \in Nat : q * PageSize <= k /\ k < (q + 1) * PageSize
      <3>1. k \div PageSize \in Nat /\ (k \div PageSize) * PageSize <= k
            /\ k < (k \div PageSize + 1) * PageSize
        BY <2>1, PageAssumption, DivFacts
      <3> QED BY <3>1
    <2>3. q < TotalPages(total)
      <3> SUFFICES ASSUME q >= TotalPages(total) PROVE FALSE BY <1>4
      <3>1. m + 1 <= q + 1 BY <1>2, <1>3
      <3>2. (m + 1) * PageSize <= (q + 1) * PageSize BY <1>1, <1>2, <3>1, TimesGrows
      <3>3. (q + 1) * PageSize = q * PageSize + PageSize /\ q * PageSize \in Nat BY <1>1
      <3>4. (m + 1) * PageSize \in Nat BY <1>1, <1>2
      <3> QED BY <1>1, <1>2, <2>1, <2>2, <3>2, <3>3, <3>4
    <2> QED BY <2>2, <2>3
  <1> QED BY <1>4, <1>5, <1>6

\* A screen shows a page that its list has, unless it is the list of the worlds,
\* which may have shrunk.
ShowsAPage(s) ==
  /\ s = List(s.name, s.page, s.total) /\ s.page \in Nat /\ s.total \in Nat
  /\ s.page # 0 /\ s.name # "worlds" => s.page * PageSize < s.total
  /\ s.name = "build" => s.total <= Buildings
  /\ s.name = "train" => s.total <= Units

\* A button leads to a page of the list, also of one that is drawn anew.
LeadsToAPage(b) ==
  /\ b = To(b.to, b.page) /\ b.page \in Nat
  /\ b.page # 0 => \/ b.to = "worlds"
                   \/ b.to = "build" /\ b.page * PageSize < Buildings
                   \/ b.to = "train" /\ b.page * PageSize < Units

MenuInv ==
  /\ worlds \in Nat
  /\ ShowsAPage(screen)
  /\ press = [h \in MenuPress |-> press[h]]
  /\ \A h \in MenuPress : Pressed(h) =>
       LeadsToAPage(press[h].button) /\ ShowsAPage(press[h].next)

LEMMA DataAreNumbers ==
  /\ Buildings \in Nat /\ Units \in Nat /\ Techs \in Nat /\ MaxFree \in Nat
  /\ PageSize \in Nat /\ PageSize >= 1
  BY DataAssumption, PageAssumption

LEMMA PlainScreens ==
  ASSUME NEW name
  PROVE  ShowsAPage(Screen(name))
  BY DataAreNumbers DEF ShowsAPage, Screen, List

LEMMA PlainButtons ==
  ASSUME NEW to
  PROVE  LeadsToAPage(Button(to))
  BY DEF Button, To, LeadsToAPage

LEMMA ButtonsLead ==
  ASSUME NEW s, ShowsAPage(s), NEW b \in Buttons(s), b.to \notin Dead
  PROVE  LeadsToAPage(b)
  <1>1. s.page \in Nat /\ s.total \in Nat BY DEF ShowsAPage
  <1>2. CASE \E to : b = Button(to) BY <1>2, PlainButtons
  <1>3. ASSUME NEW prefix, NEW page \in Int, b = To(prefix, page),
               \/ HasPrev(s) /\ page = s.page - 1
               \/ HasNext(s) /\ page = s.page + 1,
               prefix = s.name, s.name \in {"worlds", "build", "train"}
        PROVE  LeadsToAPage(b)
    <2>1. page \in Nat BY <1>1, <1>3 DEF HasPrev, HasNext
    <2>2. page # 0 /\ s.name # "worlds" => page * PageSize < s.total
      <3> SUFFICES ASSUME s.name # "worlds" PROVE page # 0 => page * PageSize < s.total OBVIOUS
      <3>1. CASE HasNext(s) /\ page = s.page + 1
        BY <1>1, <2>1, <3>1, PagesOfAList DEF HasNext
      <3>2. CASE HasPrev(s) /\ page = s.page - 1
        <4>1. s.page * PageSize < s.total BY <1>1, <3>2 DEF HasPrev, ShowsAPage
        <4>2. page * PageSize <= s.page * PageSize /\ page * PageSize \in Nat
          BY <1>1, <2>1, <3>2, PageAssumption, TimesGrows
        <4>3. s.page * PageSize \in Nat BY <1>1, DataAreNumbers
        <4> QED BY <1>1, <4>1, <4>2, <4>3
      <3> QED BY <1>3, <3>1, <3>2
    <2>3. page * PageSize \in Nat BY <2>1, DataAreNumbers
    <2> QED BY <1>1, <1>3, <2>1, <2>2, <2>3, DataAreNumbers DEF LeadsToAPage, ShowsAPage, To
  <1>4. CASE b = Back(s) BY <1>2, <1>4 DEF Back
  <1>5. CASE b \in Forward(s)
    <2>1. ASSUME NEW prefix, NEW to, b \in Paginated(s, prefix, to)
          PROVE  \/ b = Button(to) \/ b = Button("noop")
                 \/ b = To(prefix, s.page - 1) /\ HasPrev(s)
                 \/ b = To(prefix, s.page + 1) /\ HasNext(s)
      BY <2>1 DEF Paginated
    <2>2. ASSUME NEW to, b \in Paginated(s, s.name, to), s.name \in {"worlds", "build", "train"}
          PROVE  LeadsToAPage(b)
      <3>1. s.page - 1 \in Int /\ s.page + 1 \in Int BY <1>1
      <3>2. CASE b = To(s.name, s.page - 1) /\ HasPrev(s) BY <1>3, <2>2, <3>1, <3>2
      <3>3. CASE b = To(s.name, s.page + 1) /\ HasNext(s) BY <1>3, <2>2, <3>1, <3>3
      <3>4. CASE b = Button(to) \/ b = Button("noop") BY <1>2, <3>4
      <3> QED BY <2>1, <2>2, <3>2, <3>3, <3>4
    <2>3. ASSUME NEW prefix \in Dead, NEW to, b \in Paginated(s, prefix, to)
          PROVE  LeadsToAPage(b)
      <3>1. b.to = prefix \/ b = Button(to) \/ b = Button("noop")
        <4>1. CASE b = To(prefix, s.page - 1) BY <4>1 DEF To
        <4>2. CASE b = To(prefix, s.page + 1) BY <4>2 DEF To
        <4> QED BY <2>1, <2>3, <4>1, <4>2
      <3>2. CASE b = Button(to) \/ b = Button("noop") BY <1>2, <3>2
      <3> QED BY <2>3, <3>1, <3>2
    <2>4. CASE s.name = "worlds" BY <1>5, <2>2, <2>4 DEF Forward
    <2>5. CASE s.name = "build" BY <1>5, <2>2, <2>5 DEF Forward
    <2>6. CASE s.name = "train" BY <1>5, <2>2, <2>6 DEF Forward
    <2>7. CASE s.name = "countries" BY <1>5, <2>3, <2>7 DEF Forward, Dead
    <2>8. CASE s.name = "research" BY <1>5, <2>3, <2>8 DEF Forward, Dead
    <2>9. CASE s.name \notin {"worlds", "build", "train", "countries", "research"}
      <3>1. CASE s.name = "home" BY <1>2, <1>5, <3>1 DEF Forward, MainMenu
      <3>2. CASE s.name # "home" BY <1>2, <1>5, <2>9, <3>2 DEF Forward
      <3> QED BY <3>1, <3>2
    <2> QED BY <2>4, <2>5, <2>6, <2>7, <2>8, <2>9
  <1> QED BY <1>4, <1>5 DEF Buttons

LEMMA LocalShows ==
  ASSUME NEW b, LeadsToAPage(b) PROVE ShowsAPage(Local(b))
  <1> USE DEF Local
  <1>1. CASE b.to = "build" BY <1>1, DataAreNumbers DEF LeadsToAPage, ShowsAPage, List
  <1>2. CASE b.to = "train" BY <1>2, DataAreNumbers DEF LeadsToAPage, ShowsAPage, List
  <1>3. CASE b.to = "menu:research" BY <1>3, DataAreNumbers DEF ShowsAPage, List
  <1>4. CASE b.to \notin {"build", "train", "menu:research"} BY <1>4, PlainScreens DEF Same, Home
  <1> QED BY <1>1, <1>2, <1>3, <1>4

LEMMA ResultsShow ==
  ASSUME worlds \in Nat, NEW b, LeadsToAPage(b), NEW r \in Results(b) PROVE ShowsAPage(r)
  <1> USE DEF Results, Home
  <1>1. CASE b.to = "worlds" BY <1>1, DataAreNumbers DEF LeadsToAPage, ShowsAPage, List
  <1>2. CASE b.to = "world"
    <2>1. CASE r = Home BY <2>1, PlainScreens
    <2>2. CASE \E n \in 1 .. MaxFree : r = List("countries", 0, n) BY <2>2, DataAreNumbers DEF ShowsAPage, List
    <2> QED BY <1>2, <2>1, <2>2
  <1>3. CASE b.to \in {"menu:country", "menu:production", "menu:military", "menu:market"}
    BY <1>3, PlainScreens
  <1>4. CASE b.to \in {"menu:missions", "menu:rankings", "menu:notifications"} BY <1>4, PlainScreens
  <1>5. CASE b.to \notin {"worlds", "world", "menu:country", "menu:production", "menu:military", "menu:market",
                          "menu:missions", "menu:rankings", "menu:notifications"}
    BY <1>5, PlainScreens
  <1> QED BY <1>1, <1>2, <1>3, <1>4, <1>5

LEMMA ErrorShows ==
  ASSUME NEW b PROVE ShowsAPage(ErrorScreen(b))
  BY PlainScreens DEF ErrorScreen, NoKeyboard, Same, Home

\* A step of one press.
LEMMA OnePress ==
  ASSUME MenuInv, NEW h \in MenuPress, NEW b, NEW at, NEW next,
         Goes(h, Handling(b, at, next)), LeadsToAPage(b), ShowsAPage(next),
         ShowsAPage(screen'), UNCHANGED worlds
  PROVE  MenuInv'
  <1>1. press' = [press EXCEPT ![h] = Handling(b, at, next)] BY DEF Goes
  <1>2. press'[h] = Handling(b, at, next) /\ \A g \in MenuPress \ {h} : press'[g] = press[g]
    BY <1>1 DEF MenuInv
  <1>3. press' = [g \in MenuPress |-> press'[g]] BY <1>1 DEF MenuInv
  <1>4. Handling(b, at, next).button = b /\ Handling(b, at, next).at = at
        /\ Handling(b, at, next).next = next
    BY DEF Handling
  <1>5. worlds' \in Nat BY DEF MenuInv
  <1>6. ASSUME NEW g \in MenuPress, Pressed(g)'
        PROVE  LeadsToAPage(press'[g].button) /\ ShowsAPage(press'[g].next)
    <2>1. CASE g = h BY <1>2, <1>4, <2>1
    <2>2. CASE g # h
      <3>1. Pressed(g) /\ press'[g] = press[g] BY <1>2, <1>6, <2>2 DEF Pressed
      <3> QED BY <3>1 DEF MenuInv
    <2> QED BY <2>1, <2>2
  <1> QED BY <1>3, <1>5, <1>6 DEF MenuInv, LeadsToAPage, ShowsAPage

LEMMA StartsSteps ==
  ASSUME MenuInv, NEW h \in MenuPress, NEW b \in Buttons(screen), b.to \notin Dead, Starts(h, b),
         UNCHANGED <<screen, worlds>>
  PROVE  MenuInv'
  <1>1. LeadsToAPage(b) BY ButtonsLead DEF MenuInv
  <1>2. ShowsAPage(Home) /\ ShowsAPage(Same) /\ ShowsAPage(Local(b))
    BY <1>1, PlainScreens, LocalShows DEF MenuInv, Home, Same
  <1>3. \E at, next : Goes(h, Handling(b, at, next)) /\ ShowsAPage(next) BY <1>2 DEF Starts
  <1> QED BY <1>1, <1>3, OnePress DEF MenuInv

\* The end of a press, or a step that leaves the presses alone.
LEMMA PressesStay ==
  ASSUME MenuInv, worlds' \in Nat, ShowsAPage(screen'),
         press' = [h \in MenuPress |-> press'[h]],
         \A h \in MenuPress : press'[h] = press[h] \/ press'[h] = NotPressed
  PROVE  MenuInv'
  <1>1. ASSUME NEW g \in MenuPress, Pressed(g)'
        PROVE  LeadsToAPage(press'[g].button) /\ ShowsAPage(press'[g].next)
    <2>1. Pressed(g) /\ press'[g] = press[g] BY <1>1 DEF Pressed
    <2> QED BY <2>1 DEF MenuInv
  <1> QED BY <1>1 DEF MenuInv, LeadsToAPage, ShowsAPage

LEMMA MenuStarts == MenuInit => MenuInv
  <1> SUFFICES ASSUME MenuInit PROVE MenuInv OBVIOUS
  <1> USE DEF MenuInit
  <1>1. worlds \in Nat OBVIOUS
  <1>2. ShowsAPage(screen) BY <1>1, PlainScreens DEF Home
  <1> QED BY <1>1, <1>2 DEF MenuInv, Pressed

LEMMA HandleSteps ==
  ASSUME MenuInv, NEW h \in MenuPress, Handle(h) PROVE MenuInv'
  <1>1. Pressed(h) /\ UNCHANGED worlds
    BY DEF Handle, ApiAnswers, ApiFails, Edit, EditFails, Send, SafeAnswer, Done
  <1> DEFINE b == press[h].button
  <1>2. worlds \in Nat /\ LeadsToAPage(b) /\ ShowsAPage(press[h].next) /\ ShowsAPage(screen)
    BY <1>1 DEF MenuInv
  <1>3. LeadsToAPage(Button("noop")) /\ ShowsAPage(Same) BY PlainButtons, PlainScreens DEF Same
  <1>4. ASSUME NEW at, Finishes(h, at), ShowsAPage(screen') PROVE MenuInv'
    BY <1>1, <1>3, <1>4, OnePress DEF Finishes
  <1>5. CASE ApiAnswers(h)
    <2>1. PICK next \in Results(b) : Goes(h, Handling(b, "edit", next))
      BY <1>5 DEF ApiAnswers, Moves
    <2> QED BY <1>1, <1>2, <1>5, <2>1, ResultsShow, OnePress DEF ApiAnswers
  <1>6. CASE ApiFails(h)
    <2>1. Goes(h, Handling(b, "edit_error", ErrorScreen(b))) BY <1>6 DEF ApiFails, Moves
    <2> QED BY <1>1, <1>2, <1>6, <2>1, ErrorShows, OnePress DEF ApiFails
  <1>7. CASE Edit(h)
    <2>1. ShowsAPage(screen') BY <1>2, <1>7 DEF Edit
    <2> QED BY <1>4, <1>7, <2>1 DEF Edit, ThenAnswers
  <1>8. CASE EditFails(h) BY <1>2, <1>4, <1>8 DEF EditFails
  <1>9. CASE Send(h) BY <1>2, <1>4, <1>9 DEF Send
  <1>10. CASE SafeAnswer(h) BY <1>2, <1>4, <1>10 DEF SafeAnswer
  <1>11. CASE Done(h)
    <2>1. press' = [press EXCEPT ![h] = NotPressed] BY <1>11 DEF Done, Goes
    <2>2. press' = [g \in MenuPress |-> press'[g]]
          /\ \A g \in MenuPress : press'[g] = press[g] \/ press'[g] = NotPressed
      BY <2>1 DEF MenuInv
    <2>3. worlds' \in Nat /\ ShowsAPage(screen') BY <1>1, <1>2, <1>11 DEF Done, MenuInv
    <2> QED BY <2>2, <2>3, PressesStay
  <1> QED BY <1>5, <1>6, <1>7, <1>8, <1>9, <1>10, <1>11 DEF Handle

LEMMA MenuSteps == MenuInv /\ [MenuNext]_menuVars => MenuInv'
  <1> SUFFICES ASSUME MenuInv, [MenuNext]_menuVars PROVE MenuInv' OBVIOUS
  <1>1. worlds \in Nat /\ ShowsAPage(screen) BY DEF MenuInv
  <1>2. ASSUME UNCHANGED press, worlds' \in Nat, ShowsAPage(screen')
        PROVE  MenuInv'
    BY <1>2, PressesStay DEF MenuInv
  <1>3. ASSUME UNCHANGED menuVars \/ LogIn \/ LogOut PROVE MenuInv'
    BY <1>1, <1>2, <1>3 DEF menuVars, LogIn, LogOut
  <1>4. ASSUME WorldOpens \/ WorldCloses PROVE MenuInv'
    BY <1>1, <1>2, <1>4 DEF WorldOpens, WorldCloses
  <1>5. ASSUME NEW name \in {"home", "panel", "language"}, Command(name) PROVE MenuInv'
    BY <1>1, <1>2, <1>5, PlainScreens DEF Command
  <1>6. ASSUME NEW h \in MenuPress, PressButton(h) PROVE MenuInv'
    BY <1>6, StartsSteps DEF PressButton
  <1>7. ASSUME NEW h \in MenuPress, PressBack(h) PROVE MenuInv'
    <2>1. Back(screen) \in Buttons(screen) BY <1>7 DEF PressBack, Buttons
    <2>2. Back(screen).to \notin Dead BY DEF Back, Button, BackTarget, Dead
    <2> QED BY <1>7, <2>1, <2>2, StartsSteps DEF PressBack
  <1> QED BY <1>3, <1>4, <1>5, <1>6, <1>7, HandleSteps DEF MenuNext

\* What Prev and Next reach, with the entries that are shown, is the list.
LEMMA PageCovers ==
  ASSUME MenuInv PROVE PagesCoverTheList
  <1> DEFINE s == screen
             Turns(page) == To(s.name, page) \in {b \in Buttons(s) : b.to \notin Dead}
             Reached(pages) == UNION {Entries([s EXCEPT !.page = p]) : p \in pages}
  <1>1. s = List(s.name, s.page, s.total) /\ s.page \in Nat /\ s.total \in Nat
        /\ (s.page # 0 /\ s.name # "worlds" => s.page * PageSize < s.total)
    BY DEF MenuInv, ShowsAPage
  <1>2. \A p : [s EXCEPT !.page = p] = List(s.name, p, s.total) BY <1>1 DEF List
  <1>3. \A p, k : k \in Entries(List(s.name, p, s.total)) <=>
                    k \in 0 .. s.total - 1 /\ p * PageSize <= k /\ k < (p + 1) * PageSize
    BY DEF Entries, List
  <1>4. ASSUME NEW k \in 0 .. s.total - 1
        PROVE  \/ k \in Entries(s)
               \/ HasPrev(s) /\ k \in Reached(0 .. s.page - 1)
               \/ HasNext(s) /\ k \in Reached(s.page + 1 .. TotalPages(s.total) - 1)
    <2>1. PICK page \in Nat : page < TotalPages(s.total) /\ page * PageSize <= k /\ k < (page + 1) * PageSize
      BY <1>1, PagesOfAList
    <2>2. k \in Entries(List(s.name, page, s.total)) BY <1>3, <2>1
    <2>3. k \in Entries([s EXCEPT !.page = page]) BY <1>2, <2>2
    <2>4. TotalPages(s.total) \in Nat BY <1>1, PagesOfAList
    <2>5. CASE page = s.page BY <1>1, <2>2, <2>5
    <2>6. CASE page < s.page
      <3>1. page \in 0 .. s.page - 1 /\ HasPrev(s) BY <1>1, <2>6 DEF HasPrev
      <3> QED BY <2>3, <3>1
    <2>7. CASE page > s.page
      <3>1. page \in s.page + 1 .. TotalPages(s.total) - 1 /\ HasNext(s)
        BY <1>1, <2>1, <2>4, <2>7 DEF HasNext
      <3> QED BY <2>3, <3>1
    <2>8. page = s.page \/ page < s.page \/ page > s.page BY <1>1
    <2> HIDE DEF Reached
    <2> QED BY <2>5, <2>6, <2>7, <2>8
  <1>5. ASSUME s.name # "worlds", s.total > 0 PROVE Entries(s) # {}
    <2>1. s.page * PageSize \in Nat /\ s.page * PageSize < s.total
      BY <1>1, <1>5, DataAreNumbers
    <2>2. s.page * PageSize < (s.page + 1) * PageSize BY <1>1, DataAreNumbers
    <2>3. s.page * PageSize \in Entries(List(s.name, s.page, s.total)) BY <1>1, <1>3, <2>1, <2>2
    <2> QED BY <1>1, <2>3
  <1>6. ASSUME s.name \in {"worlds", "build", "train"}
        PROVE  /\ HasPrev(s) => Turns(s.page - 1)
               /\ HasNext(s) => Turns(s.page + 1)
    <2>1. ASSUME NEW page, \/ page = s.page - 1 /\ HasPrev(s)
                           \/ page = s.page + 1 /\ HasNext(s)
          PROVE  Turns(page)
      <3>1. \A to : To(s.name, page) \in Paginated(s, s.name, to) BY <2>1 DEF Paginated
      <3>2. To(s.name, page) \in Forward(s) BY <1>6, <3>1 DEF Forward
      <3>3. To(s.name, page).to \notin Dead BY <1>6 DEF To, Dead
      <3> QED BY <3>2, <3>3 DEF Buttons
    <2> HIDE DEF Turns
    <2> QED BY <1>1, <2>1
  <1> HIDE DEF Reached, Turns
  <1>7. ASSUME s.name \in {"worlds", "build", "train"}, NEW k \in 0 .. s.total - 1
        PROVE  k \in Entries(s)
                 \cup (IF Turns(s.page - 1) THEN Reached(0 .. s.page - 1) ELSE {})
                 \cup (IF Turns(s.page + 1) THEN Reached(s.page + 1 .. TotalPages(s.total) - 1) ELSE {})
    BY <1>4, <1>6, <1>7
  <1> USE DEF Reached, Turns
  <1> QED BY <1>5, <1>7 DEF PagesCoverTheList

(***************************************************************************)
(* On every page of the lists of the worlds, the buildings and the units,  *)
(* the buttons Prev and Next that are there, and are handled, lead to all  *)
(* the entries that are not shown, for every size of a page and of the     *)
(* lists, and however often the list of the worlds grew or shrank between  *)
(* the keyboard and the press; and no page of the buildings or the units   *)
(* is empty.  (paginate, paginated_keyboard, cb_worlds, cb_build_list)     *)
(***************************************************************************)
THEOREM PagesAreComplete == MenuSpec => []PagesCoverTheList
  BY MenuStarts, MenuSteps, PageCovers, PTL DEF MenuSpec
=============================================================================
