------------------------------ MODULE Supervisor -----------------------------
(***************************************************************************)
(* main.run_all: one process that runs the API, the tick worker (Ticks)    *)
(* and the bot as three tasks, waits for the first of them or a signal to  *)
(* end the wait, and then asks the others to end, gives them ten seconds   *)
(* and cancels what is left.                                               *)
(*                                                                         *)
(* The worker's task is Ticks' runner: it has ended when the runner is     *)
(* down.  uvicorn and aiogram are external: the API and the bot may end at *)
(* any time, and an API that was asked to exit may or may not be done      *)
(* within the grace period.                                                *)
(***************************************************************************)
EXTENDS Ticks

VARIABLES
  main,       \* where run_all is: "down" (no process), "wait" (asyncio.wait), "keep"
              \* (stop_event.wait()), "grace" (the ten seconds), "cancel" (the last gather)
  api,        \* the API's task: "down", "serving", "draining" (should_exit)
  bot,        \* the bot's task: "down", "running", "skipped" (no token, no task)
  signalled   \* run_all's stop_event

services == <<main, api, bot, signalled>>
supVars == <<vars, services>>

WorkerEnded == runner.pc = "down"
ApiEnded == api = "down"
BotEnded == bot = "down"
NothingRuns == WorkerEnded /\ ApiEnded /\ bot # "running"

\* Bound on what the environment does; one failure is kept for a cut.
Budget == failures + 1 < MaxFailures

-----------------------------------------------------------------------------
(***************************************************************************)
(* The tasks.                                                              *)
(***************************************************************************)
\* The tasks are created; loading the plugins may fail in the worker's.
StartAll ==
  /\ main = "down"
  /\ failures < MaxFailures
  /\ main' = "wait"
  /\ api' = "serving"
  /\ bot' \in {"running", "skipped"}
  /\ signalled' = FALSE
  /\ StartWorker \/ UNCHANGED vars

\* The server returns: at start-up, by itself, or because it was asked to.
ApiEnds ==
  /\ ~ApiEnded
  /\ api' = "down"
  /\ UNCHANGED <<vars, main, bot, signalled>>

\* The polling ends or raises; the session is closed in both cases.
BotEnds ==
  /\ bot = "running"
  /\ bot' = "down"
  /\ UNCHANGED <<vars, main, api, signalled>>

\* The worker goes on as in Ticks until its task is cancelled.
WorkerStep == main # "cancel" /\ Work /\ UNCHANGED services
WorkerOutage == main # "cancel" /\ Budget /\ DatabaseFails /\ UNCHANGED services

-----------------------------------------------------------------------------
(***************************************************************************)
(* run_all.                                                                *)
(***************************************************************************)
Signal ==
  /\ main # "down"
  /\ signalled' = TRUE
  /\ UNCHANGED <<vars, main, api, bot>>

Returned == signalled \/ ApiEnded \/ WorkerEnded \/ BotEnded
Critical == signalled \/ ApiEnded \/ WorkerEnded

\* mutant: the worker's task is cancelled with the tick it is in
CutWorker == runner' = Down /\ UNCHANGED stop
\* TickRunner.stop, when there is a runner.
AskWorker ==
  /\ UNCHANGED runner
  /\ stop' = (stop \/ ~WorkerEnded)

\* should_exit and stop(): in one step, nothing is awaited between them.
BeginShutdown ==
  /\ main' = "grace"
  /\ api' = IF ApiEnded THEN api ELSE "draining"
  /\ AskWorker
  /\ UNCHANGED <<status, ticks, applied, tried, failures, bot, signalled>>

\* asyncio.wait has returned.
Resume ==
  /\ main = "wait"
  /\ Returned
  /\ \/ Critical /\ BeginShutdown
     \/ ~Critical /\ main' = "keep" /\ UNCHANGED <<vars, api, bot, signalled>>

StopKeeping == main = "keep" /\ signalled /\ BeginShutdown

\* gather(*pending): the watcher is among them unless it was the first to end.
AllGathered ==
  /\ main = "grace"
  /\ NothingRuns /\ signalled
  /\ main' = "down"
  /\ UNCHANGED <<vars, api, bot, signalled>>

WaitsForever == FALSE    \* mutant: gather without wait_for
TimedOut == main = "grace"

GraceExpires ==
  /\ TimedOut
  /\ ~(NothingRuns /\ signalled)
  /\ main' = "cancel"
  /\ UNCHANGED <<vars, api, bot, signalled>>

\* The cancelled tasks end; a tick that is under way is cut.
TaskCancelled ==
  /\ main = "cancel"
  /\ \/ ~WorkerEnded /\ Crash /\ UNCHANGED services
     \/ ~ApiEnded /\ api' = "down" /\ UNCHANGED <<vars, main, bot, signalled>>
     \/ BotEnds

AllCancelled ==
  /\ main = "cancel"
  /\ NothingRuns
  /\ main' = "down"
  /\ UNCHANGED <<vars, api, bot, signalled>>

ProcessDies ==
  /\ main # "down"
  /\ \/ ~WorkerEnded /\ Budget /\ Crash
     \/ WorkerEnded /\ UNCHANGED vars
  /\ main' = "down" /\ api' = "down" /\ bot' = "down"
  /\ UNCHANGED signalled

\* Worlds are created and fill by requests (Countries).
Players == UNCHANGED services /\ \E w \in World : CreateWorld(w) \/ FillWorld(w)

SupInit == Init /\ main = "down" /\ api = "down" /\ bot = "down" /\ signalled = FALSE

SupNext ==
  \/ StartAll \/ ApiEnds \/ BotEnds \/ WorkerStep \/ WorkerOutage \/ Players
  \/ Signal \/ Resume \/ StopKeeping \/ AllGathered \/ GraceExpires
  \/ TaskCancelled \/ AllCancelled \/ ProcessDies

(***************************************************************************)
(* The event loop runs the worker and run_all, the ten seconds pass and a  *)
(* cancelled task ends.  Nothing is assumed of the API and the bot: one    *)
(* may hang, the other may poll for ever, and nobody has to start the      *)
(* process again.                                                          *)
(***************************************************************************)
SupFairness ==
  /\ WF_supVars(WorkerStep)
  /\ WF_supVars(Resume) /\ WF_supVars(StopKeeping)
  /\ WF_supVars(AllGathered) /\ WF_supVars(GraceExpires)
  /\ WF_supVars(TaskCancelled) /\ WF_supVars(AllCancelled)

SupSpec == SupInit /\ [][SupNext]_supVars /\ SupFairness

-----------------------------------------------------------------------------
(* Properties. *)

(* The worker inside run_all is the worker of Ticks: whatever the supervisor   *)
(* does to it is a stop, a start or a failure that Ticks knows, so that what   *)
(* is proved of the worker alone holds here.  A tick is never cut by asking to *)
(* stop, only when the grace period is over. (run_all, _set_tick_runner)       *)
WorkerAsInTicks == Init /\ [][Next]_vars

(* When the signal came, or the API or the worker ended while all tasks were   *)
(* awaited, everything ends: run_all returns and no task is left, although the *)
(* API may hang, the bot polls and the watcher itself is never done after an   *)
(* API failure. (run_all)                                                      *)
ShutdownEnds ==
  signalled \/ (main = "wait" /\ (ApiEnded \/ WorkerEnded)) ~> main = "down" /\ NothingRuns

(* Worlds keep ticking in the process, with the bot or without: the end of the *)
(* bot alone stops no other service, whatever the handlers of the phases do,   *)
(* until a signal or the end of the API or of the process. (run_all, TickRunner) *)
WorldsTickWithoutBot ==
  \A w \in World :
    status[w] # "none" /\ ~WorkerEnded ~> ticks[w] = MaxTick \/ signalled \/ ApiEnded \/ WorkerEnded
=============================================================================
