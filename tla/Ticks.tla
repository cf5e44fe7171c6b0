-------------------------------- MODULE Ticks -------------------------------
(***************************************************************************)
(* TickRunner and TickEngine: at every interval the worker lists the       *)
(* active worlds, walks each through the phases in order, and counts the   *)
(* tick of all of them in one commit.  The built-in handlers of a phase    *)
(* commit in sessions of their own, so a worker that dies before the count *)
(* is committed runs the same tick again.                                  *)
(*                                                                         *)
(* What a handler does to the game is left out (ResourceStock has the      *)
(* transactions it consists of): here a handler commits or fails.          *)
(***************************************************************************)
EXTENDS Integers, FiniteSets

CONSTANTS
  World,        \* identifiers, in the order worlds are walked: SUBSET Nat
  Phases,       \* the number of phases
  BuiltIn,      \* the phases with a built-in handler: SUBSET (1 .. Phases)
  MaxTick,      \* bound: a world is not listed any more after this many ticks
  MaxFailures   \* bound on crashes and database outages

ASSUME WorldAssumption == World \subseteq Nat
ASSUME PhaseAssumption == Phases \in Nat \ {0} /\ BuiltIn \subseteq 1 .. Phases
ASSUME BoundAssumption == MaxTick \in Nat /\ MaxFailures \in Nat

VARIABLES
  status,     \* worlds.status of each world, "none" before it is created
  ticks,      \* worlds.tick_count, committed
  runner,     \* the worker: its pc and the pass it is making
  stop,       \* the runner's stop event
  applied,    \* how often a phase of a tick of a world was committed
  tried,      \* <<world, tick, phase>> whose handler ran, or was to be skipped
  failures    \* crashes and outages so far

vars == <<status, ticks, runner, stop, applied, tried, failures>>

Phase == 1 .. Phases
Tick == 1 .. MaxTick
Job == World \X Tick \X Phase

\* list_all_active: the worlds the runner walks, oldest first.
Listed == {w \in World : status[w] \in {"open", "full"} /\ ticks[w] < MaxTick}
First(worlds) == CHOOSE w \in worlds : \A v \in worlds : w <= v

Walking == {"next", "phase", "hook", "count"}    \* in a pass
Down == [pc |-> "down", batch |-> {}, todo |-> {}, tick |-> 0, phase |-> 0,
         seen |-> [w \in World |-> 0]]
Goto(pc) == runner' = [runner EXCEPT !.pc = pc]
Failed == failures < MaxFailures /\ failures' = failures + 1

-----------------------------------------------------------------------------
(***************************************************************************)
(* The worker.  A pass holds the copies of tick_count it listed.           *)
(***************************************************************************)
StartWorker ==
  /\ runner.pc = "down"
  /\ runner' = [Down EXCEPT !.pc = "list"]
  /\ stop' = FALSE
  /\ UNCHANGED <<status, ticks, applied, tried, failures>>

Stopping == stop

List ==
  /\ runner.pc = "list"
  /\ IF Stopping THEN runner' = Down
     ELSE runner' = [Down EXCEPT !.pc = "next", !.batch = Listed, !.todo = Listed,
                                 !.seen = ticks]
  /\ UNCHANGED <<status, ticks, stop, applied, tried, failures>>

TickOf(w) == runner.seen[w] + 1

\* TickEngine.run for the next world, with a fresh context.
NextWorld ==
  /\ runner.pc = "next"
  /\ IF runner.todo = {} THEN Goto("count")
     ELSE runner' = [runner EXCEPT !.pc = "phase", !.phase = 1,
                                 !.tick = TickOf(First(runner.todo))]
  /\ UNCHANGED <<status, ticks, stop, applied, tried, failures>>

Current == <<First(runner.todo), runner.tick, runner.phase>>

\* mutant: the handler's exception leaves the engine
Abandon == Goto("wait")
Isolate == Goto("hook")

\* _run_phase: the built-in handler of the phase commits its session or raises;
\* in both cases the tick goes on.
Handle ==
  /\ runner.pc = "phase"
  /\ tried' = tried \cup {Current}
  /\ \/ /\ runner.phase \in BuiltIn
        /\ applied' = [applied EXCEPT ![Current] = @ + 1]
        /\ Goto("hook")
     \/ /\ runner.phase \in BuiltIn
        /\ UNCHANGED applied
        /\ Isolate
     \/ /\ runner.phase \notin BuiltIn
        /\ UNCHANGED applied
        /\ Goto("hook")
  /\ UNCHANGED <<status, ticks, stop, failures>>

\* The phase's hook, where a plugin may ask to skip the phases after it.
RestOfTick(skip) ==
  IF skip THEN {<<First(runner.todo), runner.tick, k>> : k \in Phase} ELSE {}

Hook ==
  \E skip \in BOOLEAN :
    /\ runner.pc = "hook"
    /\ tried' = tried \cup RestOfTick(skip)
    /\ runner' = IF skip \/ runner.phase = Phases
                 THEN [runner EXCEPT !.pc = "next", !.todo = @ \ {First(@)},
                                     !.phase = 0, !.tick = 0]
                 ELSE [runner EXCEPT !.pc = "phase", !.phase = @ + 1]
    /\ UNCHANGED <<status, ticks, stop, applied, failures>>

\* mutant: the worlds listed again
ListedAgain(batch) == Listed
Counted(batch) == batch

\* increment_ticks of the batch, and the commit.
Count ==
  /\ runner.pc = "count"
  /\ ticks' = [w \in World |-> IF w \in Counted(runner.batch) THEN ticks[w] + 1 ELSE ticks[w]]
  /\ runner' = [Down EXCEPT !.pc = "wait"]
  /\ UNCHANGED <<status, stop, applied, tried, failures>>

\* The interval is over, or the stop event is set.
Wake ==
  /\ runner.pc = "wait"
  /\ Goto("list")
  /\ UNCHANGED <<status, ticks, stop, applied, tried, failures>>

\* The list or the count raises: the runner waits for the next interval.
DatabaseFails ==
  /\ runner.pc \in {"list", "count"}
  /\ ~(runner.pc = "list" /\ Stopping)
  /\ Failed
  /\ runner' = [Down EXCEPT !.pc = "wait"]
  /\ UNCHANGED <<status, ticks, stop, applied, tried>>

\* The process dies, or run_all cancels the worker after the grace period.
Crash ==
  /\ runner.pc # "down"
  /\ Failed
  /\ runner' = Down
  /\ UNCHANGED <<status, ticks, stop, applied, tried>>

RequestStop ==
  /\ runner.pc # "down"
  /\ stop' = TRUE
  /\ UNCHANGED <<status, ticks, runner, applied, tried, failures>>

\* Worlds are created and fill while the worker runs (Countries).
CreateWorld(w) ==
  /\ status[w] = "none"
  /\ status' = [status EXCEPT ![w] = "open"]
  /\ UNCHANGED <<ticks, runner, stop, applied, tried, failures>>

FillWorld(w) ==
  /\ status[w] = "open"
  /\ status' = [status EXCEPT ![w] = "full"]
  /\ UNCHANGED <<ticks, runner, stop, applied, tried, failures>>

Init ==
  /\ status = [w \in World |-> "none"]
  /\ ticks = [w \in World |-> 0]
  /\ runner = Down
  /\ stop = FALSE
  /\ applied = [job \in Job |-> 0]
  /\ tried = {}
  /\ failures = 0

Work == List \/ NextWorld \/ Handle \/ Hook \/ Count \/ Wake

Next ==
  \/ StartWorker \/ Work
  \/ DatabaseFails \/ Crash \/ RequestStop
  \/ \E w \in World : CreateWorld(w) \/ FillWorld(w)

(***************************************************************************)
(* The event loop runs the worker; a worker that is down is started again  *)
(* (docker-compose: restart).  Crashes and outages are finitely many.      *)
(***************************************************************************)
Fairness == WF_vars(Work) /\ WF_vars(StartWorker)

Spec == Init /\ [][Next]_vars /\ Fairness

-----------------------------------------------------------------------------
(* Properties. *)

Runner ==
  [pc : {"down", "list", "wait"} \cup Walking, batch : SUBSET World, todo : SUBSET World,
   tick : 0 .. MaxTick, phase : 0 .. Phases, seen : [World -> 0 .. MaxTick]]

TypeOK ==
  /\ status \in [World -> {"none", "open", "full"}]
  /\ ticks \in [World -> 0 .. MaxTick]
  /\ runner \in Runner
  /\ stop \in BOOLEAN
  /\ applied \in [Job -> Nat]
  /\ tried \subseteq Job
  /\ failures \in 0 .. MaxFailures

(* A tick that is counted was walked: the handler of every phase of it ran, or *)
(* a plugin asked to skip it, whatever crashed, failed or was created during   *)
(* the passes.  (TickRunner.run, increment_ticks)                              *)
CountedTicksWereWalked ==
  \A w \in World, n \in Tick : n <= ticks[w] => {w} \X {n} \X Phase \subseteq tried

(* No phase of a tick is applied again without a crash or an outage for each   *)
(* repetition: the runner by itself repeats nothing.                           *)
RepeatsNeedFailures == \A job \in Job : applied[job] <= 1 + failures

=============================================================================
