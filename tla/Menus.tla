-------------------------------- MODULE Menus --------------------------------
(***************************************************************************)
(* The game's message in a chat and its inline keyboard: which buttons a   *)
(* screen has (keyboards, callbacks), what the handler of a button does    *)
(* and which screen it leaves.  aiogram runs a task for every press: two   *)
(* of them edit the same message, whoever is last.                         *)
(*                                                                         *)
(* The texts, the entries of a list and what the API does for a call are   *)
(* left out: a call is answered, with a choice of what a list holds, or it *)
(* fails.  The failures of Telegram are swallowed by safe_edit and         *)
(* safe_answer, with one gap; those of a raw call end the handler.         *)
(***************************************************************************)
EXTENDS Integers, FiniteSets

CONSTANTS
  MenuPress,   \* the presses that may be under way together
  PageSize,    \* entries of a page
  Buildings, Units, Techs,   \* how many the game data have
  MaxWorlds,   \* bound on the open worlds
  MaxFree,     \* bound on the free countries of a world
  MaxPresses,  \* bound on the presses at will
  MaxFailures  \* bound on the failures of Telegram

ASSUME PageAssumption == PageSize \in Nat \ {0}
ASSUME DataAssumption == {Buildings, Units, Techs, MaxWorlds, MaxFree, MaxPresses, MaxFailures} \subseteq Nat

VARIABLES
  screen,   \* what the message shows
  token,    \* whether the bot holds an access token of the user (Dialogue)
  worlds,   \* how many the API would list: those that are open
  press,    \* the handlers under way
  presses,  \* at will, so far
  failures  \* of Telegram, so far

menuVars == <<screen, token, worlds, press, presses, failures>>

-----------------------------------------------------------------------------
(***************************************************************************)
(* Screens and their keyboards.                                            *)
(***************************************************************************)
Screen(name) == [name |-> name, page |-> 0, total |-> 0]
List(name, page, total) == [name |-> name, page |-> page, total |-> total]
Home == Screen("home")
NoKeyboard == Screen("none")

Button(to) == [to |-> to, page |-> 0]
To(to, page) == [to |-> to, page |-> page]

\* mutant: total // page_size
FullPages(total) == IF total < PageSize THEN 1 ELSE total \div PageSize
TotalPages(total) ==
  IF (total + PageSize - 1) \div PageSize > 1 THEN (total + PageSize - 1) \div PageSize ELSE 1

HasPrev(s) == s.page > 0
HasNext(s) == s.page + 1 < TotalPages(s.total)
\* paginate: the entries on the page, counted from 0
Entries(s) == {k \in 0 .. s.total - 1 : s.page * PageSize <= k /\ k < (s.page + 1) * PageSize}

Paginated(s, prefix, entry) ==
  {Button(entry) : k \in Entries(s)} \cup {Button("noop")}
    \cup {b \in {To(prefix, s.page - 1)} : HasPrev(s)}
    \cup {b \in {To(prefix, s.page + 1)} : HasNext(s)}

MainMenu ==
  {Button(to) : to \in {"menu:country", "menu:production", "menu:military", "menu:market",
     "menu:diplomacy", "menu:research", "menu:missions", "menu:rankings",
     "menu:notifications", "menu:settings"}}

\* mutant: the list of the worlds leads back to its first page
BackInList(name) == IF name = "worlds" THEN "worlds" ELSE "menu:home"
BackTarget(name) ==
  CASE name \in {"worlds", "production", "military"} -> "menu:country"
    [] name = "countries" -> "worlds"
    [] name = "build" -> "menu:production"
    [] name = "build_count" -> "build"
    [] name = "train" -> "menu:military"
    [] name = "train_count" -> "train"
    [] name = "sell" -> "menu:market"
    [] OTHER -> "menu:home"

HasBack(s) == s.name \notin {"home", "none", "language"}
Back(s) == Button(BackTarget(s.name))

Forward(s) ==
  CASE s.name = "home" -> MainMenu
    [] s.name = "country" -> {Button("menu:production"), Button("menu:military"), Button("menu:missions")}
    [] s.name = "pick" -> {Button("worlds")}
    [] s.name = "worlds" -> Paginated(s, "worlds", "world")
    [] s.name = "countries" -> Paginated(s, "worldlist", "sel")
    [] s.name = "production" -> {Button("build")}
    [] s.name = "build" -> Paginated(s, "build", "build1")
    [] s.name = "build_count" -> {Button("build2")}
    [] s.name = "military" -> {Button("train")}
    [] s.name = "train" -> Paginated(s, "train", "train1")
    [] s.name = "train_count" -> {Button("train2")}
    [] s.name = "research" -> Paginated(s, "researchlist", "res1")
    [] s.name = "market" -> {Button("market:new")}
    [] s.name = "sell" -> {Button("market:sell")}
    [] s.name = "missions" -> {Button("claim")}
    [] s.name \in {"settings", "language"} -> {Button("lang")}
    [] s.name = "panel" -> {Button("menu:settings"), Button("panel:reset_password"), Button("menu:admin")}
    [] OTHER -> {}

Buttons(s) == Forward(s) \cup {b \in {Back(s)} : HasBack(s)}

-----------------------------------------------------------------------------
(***************************************************************************)
(* Handlers.                                                               *)
(***************************************************************************)
\* Nothing handles the other buttons: their presses are never answered.
Dead == {"worldlist", "researchlist", "market:sell", "menu:admin"}

RequiresAuth == {"menu:country", "worlds", "world", "sel", "menu:production", "build2", "train2"}
NoAuth == {"menu:military", "res1", "menu:market", "menu:missions", "claim",
           "menu:rankings", "menu:notifications"}
CallsApi(b) == b.to \in RequiresAuth \cup NoAuth \/ (b.to = "lang" /\ token)

\* The screens of the handlers that ask the API nothing; some leave it as it is.
Same == Screen("same")
Local(b) ==
  CASE b.to = "build" -> List("build", b.page, Buildings)
    [] b.to = "build1" -> Screen("build_count")
    [] b.to = "train" -> List("train", b.page, Units)
    [] b.to = "train1" -> Screen("train_count")
    [] b.to = "menu:research" -> List("research", 0, Techs)
    [] b.to = "market:new" -> Screen("sell")
    [] b.to = "menu:settings" -> Screen("settings")
    [] b.to \in {"noop", "panel:reset_password"} -> Same
    [] OTHER -> Home

\* What the API's answer may lead to.
Results(b) ==
  CASE b.to = "menu:country" -> {Screen("country"), Screen("pick")}
    [] b.to = "worlds" -> {List("worlds", b.page, worlds)}
    [] b.to = "world" -> {List("countries", 0, n) : n \in 1 .. MaxFree} \cup {Home}
    [] b.to = "menu:production" -> {Screen("production")}
    [] b.to = "menu:military" -> {Screen("military")}
    [] b.to = "menu:market" -> {Screen("market")}
    [] b.to = "menu:missions" -> {Screen("missions"), Screen("no_claim"), Home}
    [] b.to = "menu:rankings" -> {Screen("rankings"), Home}
    [] b.to = "menu:notifications" -> {Screen("notifications"), Home}
    [] OTHER -> {Home}

\* _handle_api_error shows the main menu; five handlers show the error alone;
\* the language is refused by an alert.
ErrorScreen(b) ==
  CASE b.to \in {"menu:military", "menu:market", "menu:missions", "menu:rankings",
                 "menu:notifications"} -> NoKeyboard
    [] b.to = "lang" -> Same
    [] OTHER -> Home

NotPressed == [at |-> "idle"]
Pressed(h) == press[h] # NotPressed
Handling(b, at, next) == [button |-> b, at |-> at, next |-> next]
Goes(h, r) == press' = [press EXCEPT ![h] = r]
Moves(h, at, next) == Goes(h, Handling(press[h].button, at, next))
\* From here on it does not matter which button it was.
Finishes(h, at) == Goes(h, Handling(Button("noop"), at, Same))

\* The one handler that sends a message without safe_send.
SendsRaw(b) == b.to = "panel:reset_password"

\* _require_auth, or the call, or the screen at once.
Starts(h, b) ==
  \/ b.to \in RequiresAuth /\ ~token /\ Goes(h, Handling(b, "edit", Home))
  \/ CallsApi(b) /\ ~(b.to \in RequiresAuth /\ ~token) /\ Goes(h, Handling(b, "api", Same))
  \/ ~CallsApi(b) /\ Goes(h, Handling(b, IF SendsRaw(b) THEN "send" ELSE "edit", Local(b)))

PressButton(h) ==
  /\ ~Pressed(h)
  /\ presses < MaxPresses /\ presses' = presses + 1
  /\ \E b \in Buttons(screen) : b.to \notin Dead /\ Starts(h, b)
  /\ UNCHANGED <<screen, token, worlds, failures>>

\* A user on the way back.
PressBack(h) ==
  /\ \A g \in MenuPress : ~Pressed(g)
  /\ HasBack(screen) /\ Starts(h, Back(screen))
  /\ UNCHANGED <<screen, token, worlds, presses, failures>>

\* Two calls in a row in some handlers: the answer of the last one, or any error.
ApiAnswers(h) ==
  /\ Pressed(h) /\ press[h].at = "api"
  /\ \E next \in Results(press[h].button) : Moves(h, "edit", next)
  /\ UNCHANGED <<screen, token, worlds, presses, failures>>

EndsSilently(h) == Goes(h, NotPressed)    \* mutant: returns after the edit only
ThenAnswers(h) == Finishes(h, "answer")

\* A refusal of the access token may evict it.
ApiFails(h) ==
  /\ Pressed(h) /\ press[h].at = "api"
  /\ token' \in {token, FALSE}
  /\ Moves(h, "edit_error", ErrorScreen(press[h].button))
  /\ UNCHANGED <<screen, worlds, presses, failures>>

\* safe_edit, and what follows it.
Edit(h) ==
  /\ Pressed(h) /\ press[h].at \in {"edit", "edit_error"}
  /\ screen' = IF press[h].next = Same THEN screen ELSE press[h].next
  /\ IF press[h].at = "edit" THEN Finishes(h, "answer") ELSE ThenAnswers(h)
  /\ UNCHANGED <<token, worlds, presses, failures>>

TelegramFails == failures < MaxFailures /\ failures' = failures + 1

\* safe_edit gives up and the handler answers; a network error while it sends the
\* plain text after a parse error is not caught, and on_error only logs it.  Nor is
\* a failure of cb.answer, the alert of a refused language.
EditFails(h) ==
  /\ Pressed(h) /\ press[h].at \in {"edit", "edit_error"}
  /\ \/ press[h].next # Same /\ (Finishes(h, "answer") \/ Finishes(h, "raised"))
     \/ press[h].next = Same /\ press[h].at = "edit_error" /\ Finishes(h, "raised")
  /\ TelegramFails
  /\ UNCHANGED <<screen, token, worlds, presses>>

\* cb.message.answer: a message of its own, or an exception.
Send(h) ==
  /\ Pressed(h) /\ press[h].at = "send"
  /\ \/ Finishes(h, "answer") /\ UNCHANGED failures
     \/ Finishes(h, "raised") /\ TelegramFails
  /\ UNCHANGED <<screen, token, worlds, presses>>

SafeAnswer(h) ==
  /\ Pressed(h) /\ press[h].at = "answer"
  /\ Finishes(h, "answered")
  /\ UNCHANGED <<screen, token, worlds, presses, failures>>

Done(h) ==
  /\ Pressed(h) /\ press[h].at \in {"answered", "raised"}
  /\ Goes(h, NotPressed)
  /\ UNCHANGED <<screen, token, worlds, presses, failures>>

\* /play, /panel and the others answer with a message of their own.
Command(name) ==
  /\ presses < MaxPresses /\ presses' = presses + 1
  /\ name = "panel" => token
  /\ screen' = Screen(name)
  /\ UNCHANGED <<token, worlds, press, failures>>

\* What happens elsewhere: Dialogue, Countries.  A world opens when it is created;
\* it is listed no more once it is full or an administrator has closed it.
LogIn == token' = TRUE /\ UNCHANGED <<screen, worlds, press, presses, failures>>
LogOut == token' = FALSE /\ UNCHANGED <<screen, worlds, press, presses, failures>>
WorldOpens ==
  /\ worlds < MaxWorlds /\ worlds' = worlds + 1
  /\ UNCHANGED <<screen, token, press, presses, failures>>
WorldCloses ==
  /\ worlds > 0 /\ worlds' = worlds - 1
  /\ UNCHANGED <<screen, token, press, presses, failures>>

MenuInit ==
  /\ screen = Home
  /\ token = FALSE
  /\ worlds = 1
  /\ press = [h \in MenuPress |-> NotPressed]
  /\ presses = 0
  /\ failures = 0

Handle(h) ==
  ApiAnswers(h) \/ ApiFails(h) \/ Edit(h) \/ EditFails(h) \/ Send(h) \/ SafeAnswer(h) \/ Done(h)

MenuNext ==
  \/ \E h \in MenuPress : PressButton(h) \/ PressBack(h) \/ Handle(h)
  \/ \E name \in {"home", "panel", "language"} : Command(name)
  \/ LogIn \/ LogOut \/ WorldOpens \/ WorldCloses

\* Calls of the API end, by a timeout if need be; the user goes on pressing Back.
MenuFairness == \A h \in MenuPress : WF_menuVars(Handle(h)) /\ WF_menuVars(PressBack(h))

MenuSpec == MenuInit /\ [][MenuNext]_menuVars /\ MenuFairness

-----------------------------------------------------------------------------
(* Properties. *)

(* Telegram shows a press as pending until the bot answers it: every press of  *)
(* a button with a handler is answered, whether the user is logged in or not   *)
(* and whatever the API does, also with another press under way; unless        *)
(* Telegram fails where nothing catches it, and on_error has the last word.    *)
(* (_safe_answer, _require_auth, _handle_api_error)                            *)
EveryPressAnswered ==
  \A h \in MenuPress : Pressed(h) ~> Pressed(h) /\ press[h].at \in {"answered", "raised"}

\* An error without a keyboard, and the message of /language.
DeadEnds == {NoKeyboard, Screen("language")}

(* A user who keeps pressing Back gets to the main menu from every screen that *)
(* has the button, or to a dead end, whatever fails on the way: the Back       *)
(* buttons make no cycle.  (back_button, paginated_keyboard, _require_auth)    *)
BackLeadsHome == screen \notin DeadEnds ~> screen \in DeadEnds \cup {Home}

(* On every page of the lists whose pages can be turned, the buttons Prev and  *)
(* Next that are there lead to every entry that is not on the page, also when  *)
(* the page was asked for by a button drawn before the list grew or shrank;    *)
(* and no page of the game data's lists is empty, as one of the worlds may be. *)
(* (paginate, Page, paginated_keyboard, cb_worlds)                             *)
PagesCoverTheList ==
  LET s == screen
      Turns(page) == To(s.name, page) \in {b \in Buttons(s) : b.to \notin Dead}
      Reached(pages) == UNION {Entries([s EXCEPT !.page = p]) : p \in pages}
  IN  s.name \in {"worlds", "build", "train"} =>
        /\ 0 .. s.total - 1 \subseteq
             Entries(s)
               \cup (IF Turns(s.page - 1) THEN Reached(0 .. s.page - 1) ELSE {})
               \cup (IF Turns(s.page + 1) THEN Reached(s.page + 1 .. TotalPages(s.total) - 1) ELSE {})
        /\ s.name # "worlds" /\ s.total > 0 => Entries(s) # {}
=============================================================================
