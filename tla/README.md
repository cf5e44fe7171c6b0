# A verification project for NationCraft

NationCraft is a persistent multiplayer strategy game played through a Telegram
bot: a FastAPI server with a PostgreSQL database, a bot that talks to it over
HTTP, and a worker that advances every world tick by tick. This directory holds
TLA+ models of its core, the TLC configurations that check them on small
instances, and theorems about them whose proofs TLAPS checks for every value of
the constants.

Paths below are relative to the repository; `nc/` stands for `src/nationcraft/`.
`PROJECT.json` lists, for every definition that models code, the lines it models.

- [1 The system](#1-the-system): components, state, interactions, what is hard
- [2 The plan](#2-the-plan)
- [3 The modules and the code](#3-the-modules-and-the-code)
- [4 What TLC checks](#4-what-tlc-checks): runs, bounds, fairness
- [5 What is proved](#5-what-is-proved)
- [6 Where code and documentation disagree](#6-where-code-and-documentation-disagree)
- [7 What is not modelled](#7-what-is-not-modelled)
- [8 Running it](#8-running-it)

## 1 The system

### 1.1 Processes and how they interact

| process | does | talks to |
|---|---|---|
| API (`nc/api`) | one coroutine and one database session per HTTP request; a router resolves the player's country and calls a service | database; event bus and hooks in memory |
| bot (`nc/bot`) | one coroutine per Telegram update, plus background tasks that fetch a user's locale | API over HTTP; its own token and locale caches |
| tick worker (`nc/workers`, `nc/core/tick`) | one coroutine; each phase of a tick opens its own sessions | database; hooks |
| supervisor (`main.py`) | runs the three in one process for local play, stops them together | asyncio tasks and an event |

All shared game state is in the database. A session (`nc/infrastructure/db/session.py`,
`get_session` in `nc/api/dependencies/__init__.py`) is one transaction: it
commits when the request ends and rolls back on any exception. SQLAlchemy runs
with `autoflush=False` and PostgreSQL at READ COMMITTED, so between any two
statements of one request another one may commit; a SELECT takes no lock
(one `FOR UPDATE` excepted), an UPDATE locks its row until the transaction ends.
Everything hard about the services comes from that.

### 1.2 Components

For each: the state it keeps, its operations, what makes it correct, what is hard.

**Resource stocks** (`nc/infrastructure/repositories/resource_repo.py`). State: an
amount per country and resource. Operations: `covers`, `deduct`, `adjust`,
`bulk_adjust`, `ensure_stock`, `set_amount`. Every other service pays and earns
through it. Correct: no amount is negative; a payment is made in full or not at
all; nothing is lost or paid twice. Hard: `adjust` is a SELECT and a later UPDATE
with a literal; `covers` is asked in earlier statements than `deduct` runs in; row
locks of two requests may form a cycle.

**Market** (`nc/application/services/market_service.py`,
`MarketRepository`). State: orders with filled quantity and status, the trade log.
Operations: `place_order` (lock by deduction, insert, match), `cancel_order`.
Correct: what a country owns plus what its orders lock changes only by its
trades; the book is never crossed; price and time priority; trades within the
limits of both sides. Hard: matching works on copies taken at the start of its
loop; refunds of a buyer whose price was better than the maker's, over partial
fills and a final cancellation; two takers at once.

**Countries and worlds** (`country_service.py`, `world_service.py`). State: the
ruler of a country, the country of a player, a world's status and player count.
Operations: `select_country`, `abandon_country`, `increment_player_count`,
`create_world`, `ensure_worlds`. Correct: whoever plays a country is its ruler; a
country is vacated before somebody else takes it; a full world has a successor.
Hard: two players at the last seat, a selection against an abandonment, the unique
name of the successor created twice.

**Research, construction, military, missions** (`research_service.py`,
`production_service.py`, `military_service.py`, `mission_service.py`). State: rows with
a status and a completion time, units, missions. Operations: queue, construct,
upgrade, train, claim; the phases of the tick finish work and evaluate missions.
Correct: prerequisites hold, nothing finishes early, a completed technology stays,
a mission pays once per reign. Hard: the worker's phase and a request read the same
rows and write what they computed from their copies; a country can be abandoned
and selected again.

**Tick worker** (`nc/core/tick/runner.py`, `engine.py`, `nc/workers/tick_worker.py`).
State: `worlds.tick_count`, the pass being made. Operations: list the active worlds,
run the phases of each, count the tick of all in one commit, wait, stop. Correct:
no tick is skipped, none repeated without a failure, one failing handler or world
does not hold up the others, the stop ends it. Hard: handlers commit in sessions
of their own before the count is committed.

**Bot API client and authentication** (`nc/bot/api_client.py`,
`nc/application/services/auth_service.py`, `nc/infrastructure/security/jwt_utils.py`).
State: access and refresh token per Telegram user, an asyncio lock per user;
sessions in the database. Operations: `_request` with its retry, `_try_refresh`,
login, logout; refresh with rotation. Correct: one refresh at a time; a retry uses
a new token; the bot never holds a dead session while a live one is its own; no
coroutine waits for ever. Hard: late 401s, lost answers, a cancelled lock holder.

**Bot middleware** (`nc/bot/middleware/auth.py`, `nc/infrastructure/security/rate_limit.py`).
State: a locale cache with one refresh task per user, the limiter's windows.
Operations: look the locale up without waiting, fetch it in the background,
drop it when the user changes it. Correct: the bot speaks the language the user
chose, and a wrong one does not stay. Hard: an invalidation while a task runs;
the task's `finally`, which removes whatever entry is there.

**Bot dialogues** (`nc/bot/handlers`, `nc/bot/keyboards.py`, `nc/bot/utils.py`). State: what
the chat waits for, the data of a reset, the screen and its buttons.
Operations: commands, passwords, presses; every update is a task of its own.
Correct: an old password is kept only for a reset; a login throws no token away;
nobody is locked out; every press is answered; the back button leads home; pages
show the whole list. Hard: handlers that go on after their call while later updates
have changed the state; lost answers to calls that were carried out; lists that
changed since the button was drawn; Telegram's own failures.

**Event bus, hooks, plugins** (`nc/core/events/bus.py`, `nc/core/extensions`,
`nc/core/plugins`). State: subscriptions, hooks, the plugins' life cycle. Operations: publish, invoke, load, unload, reload. Correct: an
enabled plugin is registered once however often the services load it, a
disabled one is not called, one failing handler does not keep the others from
being called. Hard: `once` handlers and concurrent publications; a plugin that
fails half-way through `register()`; `load_all` after a failure.

**War, alliances, diplomacy** (`war_service.py`, `alliance_service.py`,
`diplomacy_service.py`). State: wars and their scores, battles, members, relations of
pairs. Operations: declare, attack, end; found, join, leave; set a relation.
Correct: two countries have one open war and one relation, a score is the number of
victories, a country has one alliance. Hard: each request looks before it writes;
an attack writes a war it read before it waited for units.

**Supervisor** (`main.py`). State: three tasks, a stop event. Operations: start, wait for
the first task or a signal, ask the others to stop, wait ten seconds, cancel.
Correct: a shutdown ends, the bot's end does not stop the worlds, no tick is lost
or repeated by a stop. Hard: which task ends first; a cut tick; the next process.

The remaining parts (routers, DTOs, configuration, texts, migrations, scripts,
thin wrappers of libraries) keep no game state of their own; `PROJECT.json`
lists every one with the reason.

`PROJECT.json` "hazards" lists, line by line, what in this code a test hardly
reaches, and the properties that watch each of those lines.

## 2 The plan

Order: what the whole game stands on first, then what players fight over, then
the processes around it.

| step | modules | state |
|---|---|---|
| 1 | `Session`: transactions, used by every service model | done |
| 2 | `ResourceStock`, and its abstract specification `ResourceLedger` | done, proved |
| 3 | `Market`, `MarketAccounts` | done, proved |
| 4 | `Countries` | done, proved |
| 5 | `Ticks` | done, safety proved |
| 6 | `Development`: research, construction, units, missions next to the worker | done, proved for one client |
| 7 | `Tokens`: the bot's tokens and the server's sessions | done, exclusion and session proved |
| 8 | `Supervisor`: the process that runs `Ticks`, over restarts | done |
| 9 | `Plugins`: event bus, hooks, plugin life cycle | done, safety proved |
| 10 | `Wars`, `Alliances`, composed in `Politics` | done, proved |
| 11 | `Dialogue`, `Menus`, `Locale`: the chat of a user | done, safety proved |
| 12 | theorems about the modules of steps 8 to 11 | done |
| 13 | production of a tick with its clamps | open |

Compositions: every service module takes `Session` by INSTANCE, so that locks,
commits and rollbacks are modelled once. `ResourceStock` implements
`ResourceLedger`; `Ticks` abstracts the worlds of `Countries` to their status;
`Development` leaves payments to `ResourceStock`. `Supervisor` extends `Ticks` and
drives its worker: the worker's steps are those of `Ticks`, and `WorkerAsInTicks` says
that with the supervisor around it the worker still implements `Ticks`. `Politics`
instantiates `Wars` and `Alliances`; `Wars` takes `Session`. `Dialogue` makes one step of
a token refresh, whose steps are `Tokens`; `Menus` and `Locale` see of `Dialogue` only
whether there is a token.

Abstract specifications: the ledger, which `ResourceStock` implements; `Ticks`, which
`Supervisor` implements.

Theorems: of every safety property a run checks (section 5).

The number of runs is a dozen, one question each. When a module came, the run
whose question was then the least interesting went: the disagreements that show the lost
update of `ResourceStock_lost` again at other rows, or need no interleaving at all, are
now only described (section 6), and the worker is checked inside the process that
runs it instead of alone.

## 3 The modules and the code

A request is a process `t` of the set `Txn`; `req[t]` is its local state: `pc`, what
it was asked, and the values it has read. One action is one statement of the
service that touches the database, with the pure code up to the next one. Where a
prefix of the code only reads, and no property can tell when, the reads are
one step; each such place is named in its module.

### Session

`store` is what is committed, `holder[r]` the transaction that has written row `r`,
`pending[r]` its uncommitted version. `Seen` is a SELECT, `Write` an UPDATE or an
INSERT (enabled only while nobody else holds the row), `CommitWrites` and
`ForgetWrites` the two ends of `get_session`. READ COMMITTED allows one uncommitted
version of a row, so one `pending` is enough. The SQLite database of local play
serialises writers: its behaviours are among these.

### ResourceStock, ResourceLedger

| code | model |
|---|---|
| `resource_stocks.amount` | `stock` |
| `covers`: `get_amount` of each key | `Covers`, `Refuse` |
| `deduct`, `bulk_adjust`: `adjust` for each positive amount | the loop over `todo` |
| `adjust`: SELECT, then `max(0.0, amount + delta)` and UPDATE | `Select`, `Update` |
| `get_session` | `Commit`, `Rollback` |
| `start_construction`, `train`, `queue`, order placement | kind `spend`, `count` units, `covers` asked again before each |
| mission rewards, market proceeds, events, production | kind `grant` |
| `population_service` consumption | kind `upkeep`: reads first, takes no more than it saw |

`Shared` is the set of countries that may have several requests in flight at once.
`ResourceLedger` is what the services want: every spending, grant and upkeep
happens at one instant. `ResourceStock` implements it for the countries outside
`Shared` (`ImplementsLedger`), under the mapping of `balance` to the committed
amounts; a request is then one step of the ledger, at its commit.

### Market, MarketAccounts

One resource in one world. Rows are the money and goods of each country and the
orders. `Place`, `AdjustSelect`, `AdjustUpdate`, `Insert`, `Snapshot` (the copies
of `matching_orders`), then for each maker `Settle` (the payments, in the order of
the code), the `adjust` pairs, `UpdateMaker`, and in the end `UpdateTaker`;
`Cancel` and `MarkCancelled`. `Updated` writes the filled quantity and the status
computed from the copy over whatever the row holds, as `repo.update` does. The
identifier of an order comes from a sequence, so it is not given back by a
rollback; it stands for `created_at` too, since both grow with every insertion.

`MarketAccounts` says what money, goods, orders and trades have to do with each other: what the
live orders of a country lock (`LockedBy`), what the logged trades moved to it (`Gains`), and by
how much they filled an order (`Traded`). Its sums are the recursive function `SumTo`, over
identifiers and over places of the log.

### Countries

Rows: the ruler of a country, the country of a player, a world, and the unique
index on the worlds' slugs. `Select` is the `FOR UPDATE` and the write of the
ruler; then `MovePlayer`, `CountPlayer` (reads the world), `FindSlug`
(`get_by_slug`), `WriteWorld` (with the table's CHECK), `InsertSlug`,
`InsertWorld`. An UPDATE names the columns that changed in the session: `WriteWorld`
writes the count, and the status only if this request set it (`change`, `Changed`), over whatever the row
holds by then. `joins` is a history variable, the committed selections of each world, counted
up to its capacity. `Abandon`, `ReadCountry`, `LeaveCountry`, `VacateCountry` follow the
order in which the flush emits the statements. `Overlap` says whether two
requests of the same player may be in flight.

### Development

One country: its ruler row, technologies, buildings, units and missions.
`Request` is an endpoint that reads, decides, and leaves a list of statements in
`req[t].todo`; `Look`, `Execute`, `CreateBuilding` carry them out one at a
time. `Complete`, `Advance` and `Evaluate` are the phases of the tick, in the
worker's own transaction. `expired` is the set of rows whose `completes_at` has
passed; writing a row that is started again takes it out. Payments are left out: a
refused one is `Fail`.

### Ticks

`List`, `NextWorld`, `Handle`, `Hook`, `Count`, `Wake` are the runner's loop and the
engine's phases, `StartWorker`, `RequestStop`, `Crash`, `DatabaseFails` what happens
around it. `applied` counts the commits of the built-in handler of each phase of
each tick; `tried` collects the phases whose handler ran or that a plugin asked
to skip. What a handler does to the game is not in this module: it commits or it
raises.

### Tokens

One Telegram user. The coroutines of the bot share an event loop, so a step runs
from one `await` to the next: `Start`, `Login`, `Logout` send a request, `Receive`
handles its answer, `Wake` is the lock's next owner, `Lose` a timeout, `Cancel` the
cancellation of a background task. At the server `Play`, `FindSession` and
`RotateSession` (the SELECT and the later UPDATE and INSERT of a refresh),
`NewSession`, `RevokeSession`. The access and the refresh token of one login or
rotation have one number. A request that the bot gave up on may still be served:
its sender is then `Nobody`.

### Supervisor

`main` is where `run_all` is: waiting for the first task, keeping the API and the worker
after the bot ended, in the ten seconds, in the last `gather`, or gone. `Resume` is
the return of `asyncio.wait`, `BeginShutdown` the requests to end, `GraceExpires` and
`TaskCancelled` the forced end, `ProcessDies` a crash, `StartAll` the next process over the
same database. uvicorn and aiogram may end at any time, or hang.

### Plugins

`state`, `cleanup` are the registry's records, `live` the handlers in the lists of the bus
and of the hooks. What a plugin does in
`register()` is a program, a sequence of calls of the plugin API, and
`LoadNext`, `ApiCall`, `LoadFails`, `Enable` run it; the whole loading has no `await`, so
nothing else runs until `Finish`. `load_all` goes through all plugins in the order of their manifests and
passes over those without a record, that is those no service has discovered (`NoRecord`). `Publish`, `Call`, `Return` are a publication or an
invocation over its copy of the list; a once-subscription is removed by equality (`DropOnce`, `Equals`),
which may hit an equal one of a later load. `SpaceRace` and `HardcoreEconomy` are the programs of
the two modules in the repository; the run uses parts of them next to a plugin that
may raise anywhere.

### Wars, Alliances, Politics

`Wars`: a declaration is a look and an INSERT; an attack reads the war, adjusts the units of
both sides as `UnitRepository.adjust` does (`SelectUnits`, `UpdateUnits`), and at its commit
writes the columns that differ from its copy (`NewScore`, `NewStatus`). `unaware`,
`revived` and `crowded` record the overlaps that `OneOpenWar` and `ScoresAreBattles` except.
`Alliances`: `Create`, `Join`, `Leave` look, `Found`, `Enter`, `Delete` write; `SetStatus` and
`Upsert` are the two halves of a change of relation, with the unique index.

### Dialogue

`state` and `old` are the chat's FSM context, `access` and `session` what the client
holds, `account` the password at the API. `Update` is an update up to its call, `Serve` the
API's side of it (two steps where it hashes or verifies a password between its SELECT and what it
writes: a registration, a login, a reset), `Receive` the rest of
the handler, `Refresh` the client's retry, `Lose` a call that timed out: its request may go on
at the API (`gone`). A wrong old password is answered with 401, which the client takes for
an expired token; that is in `Refused` and `Refresh`.

### Menus

`Buttons(s)` are the buttons of a screen, `Starts` chooses between the refusal without a token,
a call, and a screen at once; `ApiAnswers`, `ApiFails`, `Edit`, `SafeAnswer` follow the handlers.
`EditFails` and `Send` are the places where an error of Telegram ends a handler before it has
answered its press (state `raised`): the error handler of the dispatcher only logs it. `Finishes`
forgets the button, which decides nothing any more. `worlds` counts the open worlds, the only ones
listed: `WorldOpens` and `WorldCloses` change it while messages with older buttons are on display.
`Dead` are the callbacks no handler takes; `/language` is a screen without a way back.

### Locale

`cache` and `entry` are the middleware's two dictionaries for one user, `task` the coroutines of
`_refresh_locale_task`, `choice` those of `cb_language`. `AnyUpdate` is the middleware's part of
any update. A task that was cancelled before its first step ends without its `finally`;
one that runs ends later, and removes the entry that is there then (`CancelledEnds`).

### Proof modules

`ResourceStockProofs`, `MarketProofs`, `CountriesProofs`, `DevelopmentProofs`, `TokensProofs`,
`ProcessProofs` (`Ticks`, `Supervisor` and `Plugins`, which share the process), `PoliticsProofs` (with
`Wars` and `Alliances`) and `BotProofs` (`Dialogue`, `Locale` and `Menus`, which share the chat; that is why their
specifications have names of their own, `LocaleSpec` and `MenuSpec`, like `PluginSpec`): section 5. The `MC*`
modules only give constants their values.

## 4 What TLC checks

| run | question | result |
|---|---|---|
| `ResourceStock_requests` | two requests in flight, one country that shares its stocks and one that does not: are rows released, requests ended, and is each request of the second country one step of the ledger? | holds |
| `ResourceStock_lost` | is the repository race-safe, as its docstring says? | violated |
| `Market_book` | every sequence of three orders and their cancellations, one request at a time: matching, priority, accounts | holds |
| `Countries_players` | three players, two requests in flight, worlds of two seats: who rules, when is a world closed and what follows it, while joins overwrite each other's count? | holds |
| `Development_country` | two reigns of one country, a request next to the worker | holds |
| `Tokens_calls` | a handler next to the cancellable locale task, answers lost or late | holds |
| `Supervisor_process` | two worlds, a process that is signalled, cut, killed and started again, failing handlers, an outage: are ticks walked, repeated, ended as they should? | holds |
| `Plugins_process` | three loads of two plugins and an extension, two publications under way: who is registered, who is called? | holds |
| `Politics_requests` | two requests in flight about wars, alliances or relations of two countries | holds |
| `Dialogue_chat` | a user's commands, passwords and presses in any order, two handled together, answers lost | holds |
| `Menus_presses` | two presses under way, worlds that open and close, one failure of Telegram: paging, answers, back buttons | holds |
| `Locale_updates` | language changes, cancelled and lost refreshes: which language is spoken? | holds |

### 4.1 Properties

*ResourceStock.* `ImplementsLedger` (refinement), `HoldersAreLive`, `RequestsEnd`
(liveness).

*Market*, one request at a time: `OrderCoherence` (status against quantity),
`UncrossedBook`, `PriceTimePriority`, `AccountsBalance` (money and goods, with what
is locked, change only by trades), `TradesExplainFills`.

*Countries.* `RulerRules`, `VacatedFirst`; `FullHasSuccessor`, which is what remains true of a world
although overlapping joins leave its count behind its players: it is closed only after every
seat was taken, closed when the count says so, and never closed without a successor.

*Development.* `PrerequisitesHeld`, `CompletedIsFinal`, `WorkTakesItsTime`,
`RewardedOncePerReign`.

*Tokens.* `OneRefreshAtATime`, `HeldSessionIsLive`, `CallsEnd` (liveness).

*Supervisor, Ticks.* `CountedTicksWereWalked` and `RepeatsNeedFailures` over any number of
processes; `WorkerAsInTicks` (refinement: a stop never cuts a tick, only the end of the
ten seconds does, and that counts as a failure); `ShutdownEnds` and `WorldsTickWithoutBot`
(liveness).

*Plugins.* `RegisteredOnce`, `DisabledHasNoHooks` (also of what a failed load left behind),
`RemovedIsNotCalled`, `AllAreCalled` (liveness). The first and the third except plugins that
have raised while they were loaded: what those had registered stays.

*Politics.* `OneOpenWar`, `ScoresAreBattles` and `OneAlliance` hold except where requests
overlapped in the way their history variables record, and the exceptions are real;
`OneRelation` holds without exception, because the pair is ordered and its index unique.

*Dialogue.* `OldPasswordOnlyForReset`, `TokenIsKept` (what `cmd_login`'s docstring
is about: which handlers may take a token away; a call that is refused takes whatever token there is),
`OnlyResetsChangeIt`, `NobodyLockedOut` (liveness).

*Menus.* `PagesCoverTheList`, of the lists whose pages can be turned (`worlds`, `build`, `train`);
`EveryPressAnswered`, of presses that have a handler, unless Telegram fails where nothing catches it;
`BackLeadsHome`, to the main menu or to a dead end, of which there are two: an error shown without a
keyboard, and the message of `/language`. The last two are liveness. Section 6 has what the first two except.

*Locale.* `StaleIsExplained`, `LocaleHeals` (liveness).

Type invariants are not properties of runs; those of `ResourceStock`, `Market`, `Countries` and
`Ticks` are part of the invariants proved in section 5.

Every property of a passing run has a mutant in `PROJECT.json`: a plausible
mistake in one definition (a clamp dropped, a lock kept, the wrong order of
makers, a count by the worlds listed again) that makes TLC find the property
violated under the same configuration.

### 4.2 Bounds, and why they are enough

| constant | value | why |
|---|---|---|
| `Txn` | 2 (1 in `Market_book`) | every race in this code is between two requests: a row has one uncommitted version, and what a third one does to a reader or a waiter, the second can do |
| `Key` | 2 resources | the first order in which two requests can lock each other out; a payment that is covered for one resource and not for the other |
| `MaxCount` | 2 units | a purchase that pays for one unit and fails at the next |
| `MaxStock` (`FewGrants`) | 2, and 0 for the shared country | grants would grow without end; one grant above the opening amount is enough for a purchase that needs it. The country that shares its stocks gets none in this run. `ResourceStock_lost` has one country, one resource and one unit, and a reward that fits in only at the opening amount (`OneGrant`): what it shows is an overwritten commit and nothing else |
| `MaxOrders`, `Quantity`, `Price` | 3 orders of {1,2} at {1,2} | a taker that meets two makers at two prices, partial fills on both sides, a refund for the better price, a cancellation after a partial fill |
| `Player`, `Code`, `Capacity`, `MaxWorlds` | 3, 2, 2, 3 | the last seat, the player after it, a successor, and the successor's successor |
| `MaxBuildings`, `MaxLevel`, `MaxReigns`, `MaxUnits` | 3, 2, 2, 1 | the starting building twice and a built one, one upgrade, one selection after an abandonment |
| `MaxTick`, `Phases`, `World`, `MaxFailures` | 1, 2, 2, 2 | a world created or filled during the pass of another; a tick cut after the first of two phases and the process after it; a phase with a built-in handler and one with hooks only. One failure is kept for a cut, the other one is an outage, a crash or a second cut |
| `MaxPairs`, `MaxLost` (`Tokens`) | 4 pairs of tokens; 2 | a refresh that is lost and a rotation after it, with a login in between |
| `MaxLoads`, `Run` | 3, 2 | a failed load, the next service's load and a reload; a once-subscription with two publications under way |
| `Country`, `MaxWars`, `MaxBattles`, `Army`, `MaxLoss` | 2, 2, 2, 1, 1 | two declarations that cross, two attacks on one war, an attack across the end of a war and the second war |
| `MaxAlliances`, `Relation` | 2, two of five | a country in two alliances; a relation that changes |
| `OneAffair` | constraint | behaviours that mix wars, alliances and relations are cut: the three share no row, and each is followed to its end alone |
| `Handler`, `Password`, `MaxUpdates`, `MaxLost` (`Dialogue`) | 2, 2, 7, 2 | a registration, a reset with both its passwords, and commands in between; two answers lost. Beyond the seven, the user only insists on logging in and playing |
| `MenuPress`, `MaxPresses`, `PageSize`, sizes of lists (`Menus`) | 2, 3, 2, 2 to 4 | two handlers on one message; exact, last and single pages, a page beyond the end; presses of Back are not bounded |
| `MaxFailures` (`Menus`) | 1 | the failure of Telegram that ends a handler, next to one that goes on |
| `Task`, `MaxChanges`, `MaxUnheard` (`Locale`) | 3, 3, 1 | a running task, a cancelled one and their successor |

The bounds on orders, reigns, token pairs, loads, wars and updates end every
behaviour, and a process that ended need not be started again, which is why the
`Market`, `Development`, `Tokens`, `Plugins`, `Politics`, `Dialogue` and `Supervisor`
configurations do not check deadlock; the other runs do. Symmetry (players, codes,
requests) is used only in `Countries` and `Politics`, whose runs have no liveness property.

### 4.3 Fairness

- `ResourceStock`: weak fairness of every step of a request, since the event loop
  resumes it, and strong fairness of `Update`: an UPDATE that waits for a row
  is enabled each time the row is free, and PostgreSQL grants a row's lock in the
  order of arrival. A cycle of waits is broken by `DeadlockVictim`, PostgreSQL's
  deadlock detection.
- `Supervisor`: weak fairness of the worker's own steps and of `run_all`'s: the event loop
  resumes them, the ten seconds pass, a cancelled task ends. Nothing is assumed of the API,
  which may hang, of the bot, which may poll for ever, or of anybody starting
  the process again. Crashes and outages are not fair and are finitely many, by `MaxFailures`.
- `Tokens`: weak fairness of `Receive`, `Wake` and `Serve`: the event loop,
  `asyncio.Lock`'s queue, and a server that answers; a lost answer is a timeout
  (`Lose`), which httpx always reports.
- `Plugins`: weak fairness of the loading, which the interpreter goes on with, and of each
  run: that a handler returns is its author's promise.
- `Dialogue`: the API answers, the handlers go on, access tokens expire, and a user who wants
  to play goes on trying (`Insist`) when nothing is under way.
- `Menus`: the handlers go on, since every call of the API ends at the latest by its timeout,
  and the user presses Back.
- `Locale`: tasks and handlers go on, cache entries expire, the user sends updates; strong
  fairness of `ApiReads` and `StoresLocale`: not every refresh fails for ever.

Creating, filling or joining worlds, placing orders, signals and all other commands are
choices of players and operators: no fairness is assumed of them.

## 5 What is proved

The proofs hold for every value of the constants that satisfies the
`ASSUME`s of the modules (any number of countries, keys, players, worlds,
requests, orders, phases, failures). The hypotheses of a theorem are in its
statement.

| theorem | says | hypothesis |
|---|---|---|
| `ResourceStockProofs!TypeCorrect` | `TypeOK`: no stock is ever negative | |
| `ResourceStockProofs!NoRowLeftBehind` | `HoldersAreLive` | |
| `ResourceStockProofs!StockImplementsLedger` | `ImplementsLedger` | |
| `MarketProofs!OrdersStayCoherent` | `OrderCoherence` | one request at a time |
| `MarketProofs!BookStaysUncrossed` | `UncrossedBook` | one request at a time |
| `MarketProofs!PriorityHolds` | `PriceTimePriority` | one request at a time |
| `MarketProofs!AccountsAreBalanced` | `AccountsBalance` | one request at a time |
| `MarketProofs!FillsAreTraded` | `TradesExplainFills` | one request at a time |
| `CountriesProofs!TypeCorrect` | `TypeOK`: no committed count exceeds the capacity | |
| `CountriesProofs!PlayersRule` | `RulerRules` | one request per player |
| `CountriesProofs!CountriesAreVacated` | `VacatedFirst` | one request per player |
| `CountriesProofs!FullWorldsAreFollowed` | `FullHasSuccessor` | |
| `DevelopmentProofs!PrerequisitesStay` | `PrerequisitesHeld` | one API request at a time |
| `DevelopmentProofs!RewardsAreCounted` | `RewardedOncePerReign` | one API request at a time |
| `DevelopmentProofs!TechnologiesStay` | `CompletedIsFinal` | one API request at a time |
| `DevelopmentProofs!WorkIsTimed` | `WorkTakesItsTime` | one API request at a time |
| `ProcessProofs!CountedWereWalked` | `CountedTicksWereWalked`, of `Ticks` alone | |
| `ProcessProofs!RepeatsAreFailures` | `RepeatsNeedFailures`, of `Ticks` alone | |
| `ProcessProofs!ProcessRunsTicks` | `WorkerAsInTicks` | |
| `ProcessProofs!ProcessCountsWalked` | `CountedTicksWereWalked`, over all processes | |
| `ProcessProofs!ProcessRepeatsAreFailures` | `RepeatsNeedFailures`, over all processes | |
| `TokensProofs!RefreshesExclude` | `OneRefreshAtATime` | |
| `TokensProofs!HeldSessionLives` | `HeldSessionIsLive` | |
| `ProcessProofs!RegistersOnce` | `RegisteredOnce` | |
| `ProcessProofs!DisabledIsSilent` | `DisabledHasNoHooks` | |
| `ProcessProofs!RemovedStaysSilent` | `RemovedIsNotCalled` | |
| `BotProofs!OldPasswordIsDropped` | `OldPasswordOnlyForReset` | |
| `BotProofs!TokensAreKept` | `TokenIsKept` | |
| `BotProofs!PasswordsAreKept` | `OnlyResetsChangeIt` | |
| `BotProofs!StaleOnlyWhenExplained` | `StaleIsExplained` | |
| `BotProofs!PagesAreComplete` | `PagesCoverTheList` | |
| `PoliticsProofs!RelationsAreOne` | `OneRelation` | |
| `PoliticsProofs!AlliancesAreOne` | `OneAlliance` | |
| `PoliticsProofs!OpenWarsAreOne` | `OneOpenWar` | |
| `PoliticsProofs!ScoresAreCounted` | `ScoresAreBattles` | |

**ResourceStock.** `IInv` adds to `TypeOK` and `HoldersAreLive` that a country outside
`Shared` has one live request (`OnePerCountry`) and, for each such request
(`TxnInv`), where it is in its loops (`Control`), how the rows it holds differ
from the committed ones (`Account`: committed amount, minus the units paid, minus
the keys of the current unit already written), and that what is left to
pay is still covered (`Covered`). Without `Account` the commit could not be shown to be
a step of the ledger, and without `Covered` the clamp in `adjust` could forgive
a debt. Multiplication is only used through `TimesZero` and `TimesNext`. At the
commit, `Account` with nothing left to do is the ledger's step; rollbacks and
steps of shared countries leave the mapped variable unchanged.

**Market.** The book is crossed in the middle of a request, by design: the invariant
speaks of the committed book and of the versions the request sees. `Consistent(rows, S)`
says that the orders `S` of a book are coherent and uncrossed; `InFlight(req[t])` says,
by `pc`, which rows are consistent and what the loop has established: the
makers still listed are exactly the live orders of the other side that may cross
the taker, with their copies equal to their rows. The break at the first
incompatible maker is justified by a lemma that a finite set of copies has a first
element under `Precedes` (`BestExists`), and that if the first is incompatible
all are (`NothingCompatible`).

`PriceTimePriority` is about the commit, which compares two versions of the book. `PriorityInv` says
that it would hold if the request committed now (`FilledInTurn`), and what it rests on:
before its insertion, and in a cancellation, a request has touched no other order (`Untouched`);
while it matches it does nothing to a resting order but fill it (`OnlyFills`), and the maker
it is paying comes before all that are left (`PaysTheBest`). A maker that is left behind is filled,
because a taker that is not used up takes the whole of it. Rows that are not given out
yet are empty in both versions (`Fresh`), since identifiers outlive rollbacks.

`AccountsBalance` and `TradesExplainFills` speak of what is committed; in the middle of a request
the rows agree with nothing, because a payment is written row by row before the order it pays for. `AccountsInv`
says that the books are settled (`Settled`: `Even`, `Explained`, `Named`) after every commit, and that those of a request
in flight would be (`Accounted`): its stocks without what it has `Paid` of the `Bill` it is working on, its orders with the taker as
the loop knows it (`BookWith`), and the log with the trades it will commit. The steps then fall in two kinds.
`AdjustUpdate` pays an entry of the bill and changes nothing of this, provided that `adjust` does not
clamp (`Payable`: a lock was checked to be there, the other entries are not negative). `Insert`, `UpdateMaker`
and `MarkCancelled` write an order, and the whole bill is then exactly what the change of the order calls for: for a trade,
that is the equation of seller's price, buyer's price and refund. `PriorityInv`
gives the rest: the row a copy stands for, the empty row an identifier is given, the turn of the loop. TLC found `AccountsInv`
to hold in all 231012 states of `Market_book` before it was proved.

A theorem about a sum is induction over data, and the library's induction theorems take an operator, which no
installed prover can instantiate. `SetInduction` does without: a set of numbers
that holds 0 and the successor of each of its members is `Nat`, since `LeastNat`, from the library's well-founded `<`, gives its complement a least
element. From it come that the recursive function exists (`SumsExist`, `SumSteps`), that sums of
equal entries are equal (`SumSame`), and that a changed entry changes the sum by as much (`SumChange`).

**Countries.** `Owned` says whose rows a request holds (`Held`), that two live
requests have different players (`Alone`), and for each request what it has
locked and may rely on (`Mine`): a selecting one holds the country's row from the
start and its committed ruler is still nobody; a leaving one has a player whose
committed country is the one it is leaving, because nobody else moves that
player. `RulerRules` alone is not inductive: an abandonment clears the country it
read two steps before.

`FullHasSuccessor` needs none of that, and holds for players with several requests in flight. The counts are
no help, since overlapping joins overwrite each other's; what is true is that no count is ahead of the committed
selections. `WorldInv` says that every committed row is such a count (`CommittedAreEarned`), that a request plans one more at
most and sets the status only at capacity (`PlansAreRight`), and that a version which is not committed yet
is right as soon as its holder commits, who adds one selection by doing so (`HoldersSettle`). A row that says full is
then one whose seats were all taken, whoever wrote its count last. The successor: a request that holds a full
version of a world is on the way to the successor, or holds its name, or the name is committed (`Pays`), so that with
`Followed` a full world and its successor are one commit. That a
name was found is no promise until it is committed, so the invariant speaks of names that exist or are held
(`NamesAreKept`).

**Development.** The worker and a request write rows of the same tables from what they read before the other one's
commit, so an invariant about the committed rows alone is hopeless. `InFlight` says of every version a transaction
holds and of every statement it still has to execute that its commit would be permitted *now*
(`Keeps`, `Task`): a technology to be queued has no row and its requirements are completed; a building to be finished is under
construction and its time has passed; a mission to be claimed is completed. The proof has two parts. Between commits
permissions only grow. A commit makes what the country has grow (`Grows`), and spares the permissions of
the other side: the worker finishes what a request could not start again, a request writes no row
that the worker is about to finish (`ClientSparesWorker`, `WorkerSparesClient`). The second part
is where one API request at a time is used: of two overlapping claims of a mission the first one
takes the second one's permission away, and both pay. The action properties are read off what
`Keeps` permits the commit. The proof assumes that technologies and missions are finitely many.

**Ticks.** `IInv` relates the pass to the committed counts: while walking, the copies
of the batch equal the committed counts, the phases before the current one were
tried in every world of the batch, and all phases in those already walked
(`Pass`); a phase applied at a tick not counted yet has been repeated no more often
than there were failures (`Repeats`).

**Tokens.** `LockInv`: `call` is a function, the coroutine that refreshes holds
the lock, and no other one does. Each step that leaves the state `refresh`
releases the lock in the same step, each one that enters it found the lock free.

`HeldSessionIsLive` is a property of the bot at rest; in between, the session may be dead. `SessionInv` says what
explains that (`Explained`): a logout, or a refresh of the token that the bot holds, is under way. For this to
survive the answers, a coroutine has one request or one answer under way (`OneMessage`); a pair of tokens that
nobody has received yet is live, and nobody can revoke it (`NewPairs`); and the requests that the bot gave up on
do not name the token it holds, unless its rotation was cancelled (`Abandoned`).

**Supervisor.** Each step of `run_all`, a signal, the cut at the end of the ten seconds and the
start of the next process among them, is a step of `Ticks` or leaves its variables alone
(`WorkerStepOfProcess`). Only the step that sets the stop event needs the invariant: that
`stop` is a Boolean. The two invariants of `Ticks` then carry over to the process, and
need no proof of their own.

**Politics.** `RelationInv`: each row is an ordered pair, two rows of one pair are one row, and a request
in flight writes an ordered pair; the index makes the rest. `AllianceInv`: a country whose requests
never overlapped has one request for a membership in flight at most, and while this one founds or joins,
no membership. `OneAlliance` alone is not inductive: the request was checked two
commits before it writes.

`WarInv` says of a declaration in flight that the wars it saw are over, or were `revived` (`Looked`), and of an attack that the score
it read is explained by the battles so far, and is still the present one unless another attack of the war has
overlapped (`Attacking`). With that each commit counts one more battle (`CountAppend`) and raises
the score from what it read. The units, which decide nothing about a war, are left out of the invariant.

**Plugins.** `PluginInv` follows a plugin that never failed through its life (`InCycle`): while it is loaded it has registered
exactly what its calls so far register, under the number of this load (`Halfway`); enabled, it has registered everything once, and
each of its registrations is a hook or in its clean-up (`Complete`, `Cancellable`); otherwise it has nothing. The number of the load
is what separates new registrations from removed ones, so that nothing is at once in the lists and removed
(`Removed`), and a publication, which starts from the lists, finds nothing removed. `RegisteredOnce` alone is not
inductive: unloading removes hooks by the plugin's id, but subscriptions only through the clean-up. The programs of the
plugins are arbitrary sequences of calls of the plugin API (`ProgramAssumption`); only of extensions it is assumed
that they register nothing but hooks, which is all that the decorators of an extension can do.

**Dialogue.** `OldPasswordOnlyForReset` is inductive as it stands: whoever writes `old` writes `state` with it, and
a button that only sets the state to `old_password` leaves a password that may be kept there. The
two action properties need the shape of the handlers (`DialogueTypes`), because a step must be shown to have
changed the handler that it is blamed on. An update under way for a long time changes none of this: what it does to
the state at its end is to clear both.

**Locale.** `StaleIsExplained` says nothing of the refreshes that will store a locale later. `LocaleInv` adds that a
refresh which is not cancelled is the one the entry names, or some entry was removed by a cancelled one
(`Named`), and that what it has read is the present locale or the difference is explained (`ReadsPresent`). A change
that succeeds cancels the one task that the entry names, so after it every task that may still store is excused.

**Menus.** `MenuInv`: a page of one of the lists of the game data, shown or about to be shown, is a page that the
list has (`ShowsAPage`), and the button of a handler under way leads to one (`LeadsToAPage`). Of the
worlds neither is true: the button was drawn from an earlier count, and the page may lie beyond the end of
the list when worlds have closed since. The page then has no entries and a button Prev, which leads to one before it, and so
back to every entry; `PageCovers` shows this of a page at any number, from the arithmetic that every entry is on
one page below `TotalPages`.

**Only model-checked.** Liveness (`RequestsEnd`, `ShutdownEnds`,
`WorldsTickWithoutBot`, `CallsEnd` and those of the bot and the plugins) and everything with ENABLED is beyond the prover.
Every invariant and every action property that a run checks is a theorem.

## 6 Where code and documentation disagree

One disagreement is a run that TLC ends with a counterexample.

- `ResourceStock_lost`, `RaceSafe`. `resource_repo.py:12` calls the class "Atomic,
  race-safe resource stock operations" that use `ON CONFLICT` upserts. `adjust`
  (lines 84-106) reads without a lock and writes a literal: of two overlapping
  requests of one country the commit of the first is overwritten. In the counterexample a country owns 1; a purchase reads
  1 and writes 0; a reward of 1 reads 1 before that is committed, and writes 2 after it is: 1, 0, 2, and
  the purchase was free. This is why `ImplementsLedger` is
  claimed, and proved, only for countries whose requests do not overlap.

The others were met while modelling. They are the same lost update at other rows, or
need no interleaving to be seen:

- `docs/GDD.md:124` says that SELL orders deduct what they offer. Two buyers that match the same
  resting order each fill their own copy of it (`market_service.py:128`): it trades twice
  what was deducted. `Market` checks one request at a time for that reason.
- `docs/GDD.md:8` and `:19`: exactly one country, to be switched only by abandoning it.
  `select_country` does not look at the player's present country.
- `docs/CONFIGURATION.md:30`: the capacity is the most players of a world. Two players who join at
  once are counted as one (`world_service.py:93`). If the world was full for one of them, the other one's UPDATE leaves
  it closed with a count below its capacity; the next selection there that counts to the capacity
  again then finds the name of the successor taken, and fails with a `ConflictError`. `FullHasSuccessor` says what is kept.
- `api_client.py:284`: "Refresh failed — session is fully dead." A 401 of an older call can
  remove the access token between the release of the refresh lock and the moment its waiter
  looks (`:273`, `:304`); the waiter then clears a live session. In the same way it removes a token that
  was fetched after its call was sent and that nobody has refused; the next call gets another one.
- `docs/GDD.md:74-75` has plugins add content to the game data. The API loads the plugins and then calls
  `game_data.reload()` (`nc/api/app.py:62-71`), which replaces what they added.
- `registry.py:82` loads "in dependency/load-order", but sorts by `load_order` only, and
  loads plugins again that were disabled when another one is reloaded.
- `PluginAPI.register_bot_menu` (`nc/core/plugins/api.py:92-100`) calls `menu_registry.register`, which
  does not exist (`nc/bot/menus.py:22-50`): such a plugin always fails to load (`Raises`).
- `main.py:365-366` stops everything when the API ends, since "the bot can't function without the
  API". After the bot ended first, `run_all` waits for the stop event only (`:383`), and the end of the API or
  of the worker goes unnoticed; `ShutdownEnds` starts from the stop event in that state.
- `war_service.py:65` refuses a second war of the same two countries, and `alliance_service.py` a second alliance;
  overlapping requests get both (`unaware`, `revived` and `hasty` name the cases).
- `keyboards.py:77` promises "prev/next + back navigation" of every list. The prefixes `worldlist:`
  (`callbacks.py:242`) and `researchlist` (`:438`) have no handler, nor have the buttons `market:sell:` (`:490`)
  and `menu:admin` (`commands.py:329`): these presses stay unanswered (`Dead` in `Menus`), as do those that the rate limit
  refuses (`nc/bot/middleware/auth.py:151-170`), and the later pages of the two lists cannot be reached.
- `utils.py:187` promises of `safe_edit` the retries and timeouts of `safe_send`. The plain text it sends after a parse error
  has none: a network error there ends the handler before it has answered its press, and the global error
  handler (`app.py:55-82`) only logs it. Two calls that are not made through `safe_send` or `safe_edit` do the same: the
  message of `panel:reset_password` (`callbacks.py:608`, `:612`) and the alert of a refused
  language (`callbacks.py:646`). `EveryPressAnswered` excepts these (`EditFails`, `Send`).
- `auth.py:140-144` says that an invalidated locale is fetched afresh. The `finally` of a cancelled task
  (`:138`) may remove the entry of its successor, so that the successor is not cancelled by the
  next change and stores the older locale. And when the answer to `set_locale` is lost, `cb_language` returns before it
  invalidates (`callbacks.py:643-654`). `StaleIsExplained` excepts just these two, `LocaleHeals` shows that
  the cache's lifetime repairs both.

## 7 What is not modelled

- Floating-point rounding: amounts, quantities and prices are integers.
- A request's commit comes before its answer. From 0.118 on, FastAPI ends such
  dependencies after the response is sent, so that a client may see the answer first; the
  repository asks for 0.115 or later (`pyproject.toml:23`).
- In `ResourceStock`: `ensure_stock` and `set_amount`, which run while the selection
  of a country holds its row.
- In `Market`: more than one resource or world (a request touches one of each);
  `expires_at`, which no code reads; deadlock detection as such (it is one of the
  causes of `Fail`).
- In `Countries`: what a selection seeds (`Development` has the rows with a status), `set_status`
  by an administrator.
- In `Development`: costs, and process_production_tick. One API request at a time: two
  overlapping claims of one mission, or upgrades of one building, both succeed in the
  code, and nothing in the documentation says otherwise.
- In `Ticks`: what handlers do.
- In `Tokens`: bans, the expiry of refresh tokens; several users (nothing is shared between them
  but the client's dictionaries, one key each).
- In `Plugins`: the values that a chain of hooks passes on, the calculator's arithmetic, what plugins add to the
  game data (section 6).
- In `Wars`: kinds of units, the dice. In `Dialogue`: user names, bans, what messages say.
- The rate limiter: in memory, a check has no `await` and no other coroutine can come
  between; with Redis, it is one pipeline, which counts refused attempts as well.
- Formulas (population growth, production outputs, war scores), whose hazards are arithmetic on one row
  and are within a unit test's reach; DTOs, settings, texts, migrations and scripts, which keep no
  game state of their own. "components" in `PROJECT.json` lists every part.

## 8 Running it

In this directory, for a run of the table:

    tlc -workers 2 -config Market_book.cfg MCMarket.tla

and for the proofs of a module:

    tlapm MarketProofs.tla

A passing run takes seconds to about two and a half minutes.
