------------------------------- MODULE Plugins ------------------------------
(***************************************************************************)
(* The plugins of the process, and what they register: subscriptions of    *)
(* the event bus and handlers of hooks.  The API and the tick worker,      *)
(* which share the process, each discover and load the plugins when they   *)
(* start; an administrator disables a plugin; publications and hook        *)
(* invocations go on all the time, several at once.                        *)
(*                                                                         *)
(* Loading has no await: from Boot or Reload to Finish nothing else runs,  *)
(* and the steps in between are those of the interpreter.  A publication   *)
(* and the invocation of a hook are both a run over a copy of the list of  *)
(* handlers, which lets everything else run while a handler awaits.        *)
(* Every call registers a function of its own.  The values that a chain of *)
(* hooks passes on, the entries that a plugin adds to the game data, and   *)
(* the publication of plugin.loaded (one of those that may happen at any   *)
(* time) are left out.                                                     *)
(***************************************************************************)
EXTENDS Integers, Sequences, FiniteSets

CONSTANTS
  Plugin,     \* the plugins of the plugin directories
  Extension,  \* the extension modules, whose hooks are registered by import
  Program,    \* the calls of the plugin API each of them makes, in order
  LoadOrder,  \* the plugins in the order of their manifests' load_order
  Flawed,     \* the plugins whose code may raise anywhere in register()
  Event,      \* the event types that the core publishes ...
  HookName,   \* ... and the hooks that it invokes
  Run,        \* the publications and hook invocations that may be under way
  MaxLoads    \* bound on the calls of _load_one that load something

Wildcard == "*"

\* The calls.  A fresh handler is a closure of register() or a function of a
\* module that is executed again at every load.
OnEvent(topic, priority, once, fresh) ==
  [kind |-> "event", topic |-> topic, priority |-> priority, once |-> once, fresh |-> fresh]
OnHook(topic, priority, fresh) ==
  [kind |-> "hook", topic |-> topic, priority |-> priority, once |-> FALSE, fresh |-> fresh]
Content == [kind |-> "content"]    \* an entry of the game data
BotMenu == [kind |-> "menu"]       \* raises: menu_registry has no method register

ApiCalls ==
  [kind : {"event", "hook"}, topic : STRING, priority : Nat, once : BOOLEAN, fresh : BOOLEAN]
    \cup {Content, BotMenu}

High == 100
Normal == 2
Low == 900

SpaceRace ==
  <<Content, Content, Content, OnEvent("country.selected", Normal, FALSE, TRUE),
    OnHook("production.output", High, TRUE), OnHook("tick.phase.production", Low, TRUE)>>
HardcoreEconomy == <<OnHook("production.output", Low, FALSE), OnHook("combat.resolve", High, FALSE)>>

ASSUME PluginsAssumption ==
  /\ IsFiniteSet(Plugin) /\ Flawed \subseteq Plugin /\ Plugin \cap Extension = {}
  /\ MaxLoads \in Nat
  /\ LoadOrder \in Seq(Plugin)
  /\ \A i, j \in 1 .. Len(LoadOrder) : LoadOrder[i] = LoadOrder[j] => i = j
ASSUME ProgramAssumption ==
  /\ Program \in [Plugin \cup Extension -> Seq(ApiCalls)]
  /\ \A x \in Extension : \A i \in DOMAIN Program[x] :
       Program[x][i].kind = "hook" /\ ~Program[x][i].once

VARIABLES
  state,     \* PluginRecord.state, "unknown" when there is no record
  cleanup,   \* the subscriptions that the plugin's PluginAPI can cancel
  live,      \* the registrations in the lists of the bus and of the hooks
  loader,    \* the load_all under way
  booted,    \* the services that have started in this process
  loads,     \* loads so far: the number of the newest handlers
  run,       \* the publications and invocations under way
  gone,      \* history: registrations that have fired once or were cancelled
  failed     \* history: plugins that have raised while they were loaded

Service == {"api", "worker"}
registry == <<state, cleanup, live>>
pluginVars == <<registry, loader, booted, loads, run, gone, failed>>

NotLoading == [queue |-> <<>>, call |-> 0, cleanup |-> {}, busy |-> FALSE]
NotRunning == [at |-> "ended", todo |-> {}, stale |-> {}]

\* A registration: call number i of plugin p, made at load n.
Entry(p, i, n) == [plugin |-> p, call |-> i, load |-> n]
Of(e) == Program[e.plugin][e.call]
IsHook(e) == Of(e).kind = "hook"
SameHandler(e, f) ==
  e.plugin = f.plugin /\ e.call = f.call /\ (Of(e).fresh => e.load = f.load)

PluginInit ==
  /\ state = [p \in Plugin |-> "unknown"]
  /\ cleanup = [p \in Plugin |-> {}]
  /\ live = UNION {{Entry(x, i, 0) : i \in DOMAIN Program[x]} : x \in Extension}
  /\ loader = NotLoading /\ booted = {} /\ loads = 0
  /\ run = [r \in Run |-> NotRunning]
  /\ gone = {} /\ failed = {}

-----------------------------------------------------------------------------
(***************************************************************************)
(* Loading.                                                                *)
(***************************************************************************)
\* Bound: a loading starts only if all it may load stays within MaxLoads.
Room == loads + Cardinality({p \in Plugin : state'[p] \notin {"unknown", "enabled"}}) =< MaxLoads
Free == ~loader.busy

Add(known, found) ==
  [p \in Plugin |-> IF p \in found /\ known[p] = "unknown" THEN "discovered" ELSE known[p]]

\* load_all takes the plugins in the order of their manifests; LoadNext passes
\* over those without a record.
LoadAll == loader' = [queue |-> LoadOrder, call |-> 0, cleanup |-> {}, busy |-> TRUE]

\* discover() and load_all() of the API or the worker; a directory whose plugin.json is unreadable is passed over.
Boot(service) ==
  /\ Free /\ service \notin booted
  /\ booted' = booted \cup {service}
  /\ \E found \in SUBSET Plugin : state' = Add(state, found)
  /\ Room /\ LoadAll
  /\ UNCHANGED <<cleanup, live, loads, run, gone, failed>>

Loading == Head(loader.queue)
Advance == loader' = [loader EXCEPT !.queue = Tail(loader.queue), !.call = 0]

NeverSkip(p) == FALSE             \* mutant: load_all loads enabled plugins again
Skip(p) == state[p] = "enabled"
NoRecord(p) == state[p] = "unknown"

LoadNext ==
  /\ loader.queue # <<>> /\ loader.call = 0
  /\ \/ (NoRecord(Loading) \/ Skip(Loading)) /\ Advance /\ UNCHANGED loads
     \/ /\ ~NoRecord(Loading) /\ ~Skip(Loading)
        /\ loads' = loads + 1
        /\ loader' = [loader EXCEPT !.call = 1, !.cleanup = {}]
  /\ UNCHANGED <<registry, run, gone, failed, booted>>

\* subscribe and register do nothing for a handler they already have.
Subscribe(e) ==
  IF \E f \in live : SameHandler(e, f)
    THEN UNCHANGED live /\ loader' = [loader EXCEPT !.call = loader.call + 1]
    ELSE /\ live' = live \cup {e}
         /\ loader' = [loader EXCEPT !.call = loader.call + 1,
                         !.cleanup = loader.cleanup \cup (IF IsHook(e) THEN {} ELSE {e})]

ApiCall ==
  /\ loader.queue # <<>> /\ loader.call \in DOMAIN Program[Loading]
  /\ LET e == Entry(Loading, loader.call, loads) IN
     \/ Of(e).kind \in {"event", "hook"} /\ Subscribe(e)
     \/ /\ Of(e).kind = "content"
        /\ loader' = [loader EXCEPT !.call = loader.call + 1]
        /\ UNCHANGED live
  /\ UNCHANGED <<state, cleanup, loads, run, gone, failed, booted>>

Raises(p) ==
  p \in Flawed \/ (loader.call \in DOMAIN Program[p] /\ Program[p][loader.call].kind = "menu")

\* What the plugin had registered stays; its PluginAPI is dropped.
LoadFails ==
  /\ loader.queue # <<>> /\ loader.call > 0
  /\ Raises(Loading)
  /\ state' = [state EXCEPT ![Loading] = "errored"]
  /\ failed' = failed \cup {Loading}
  /\ Advance
  /\ UNCHANGED <<cleanup, live, loads, run, gone, booted>>

Enable ==
  /\ loader.queue # <<>> /\ loader.call = Len(Program[Loading]) + 1
  /\ state' = [state EXCEPT ![Loading] = "enabled"]
  /\ cleanup' = [cleanup EXCEPT ![Loading] = loader.cleanup]
  /\ Advance
  /\ UNCHANGED <<live, loads, run, gone, failed, booted>>

Finish ==
  /\ loader.busy /\ loader.queue = <<>>
  /\ loader' = NotLoading
  /\ UNCHANGED <<registry, loads, run, gone, failed, booted>>

-----------------------------------------------------------------------------
(***************************************************************************)
(* Administration.                                                         *)
(***************************************************************************)
KeepHooks(p) == live \ cleanup[p] \* mutant: unregister_all forgets clear_plugin
Without(p) == {e \in live : e \notin cleanup[p] /\ ~(e.plugin = p /\ IsHook(e))}

Unload(p) ==
  IF state[p] = "enabled"
    THEN /\ live' = Without(p)
         /\ cleanup' = [cleanup EXCEPT ![p] = {}]
         /\ gone' = gone \cup {e \in live : e.plugin = p}
    ELSE UNCHANGED <<live, cleanup, gone>>

\* POST /admin/plugins/{id}/disable
Disable(p) ==
  /\ Free
  /\ Unload(p)
  /\ state' = IF state[p] = "enabled" THEN [state EXCEPT ![p] = "disabled"] ELSE state
  /\ UNCHANGED <<loader, loads, run, failed, booted>>

\* PluginLoader.reload
Reload(p) ==
  /\ Free /\ state[p] # "unknown"
  /\ Unload(p)
  /\ state' = [state EXCEPT ![p] = "discovered"]
  /\ Room /\ LoadAll
  /\ UNCHANGED <<loads, run, failed, booted>>

-----------------------------------------------------------------------------
(***************************************************************************)
(* Publications and invocations of hooks.                                  *)
(***************************************************************************)
\* publish: the handlers of the event type, then those of every event.
\* invoke: the handlers of the hook.
Targets(topic) ==
  {e \in live : Of(e).topic = topic \/ (topic \in Event /\ Of(e).topic = Wildcard)}

\* The lists are sorted by priority when a handler is added, which keeps
\* handlers of one priority in the order of their registration.
IsWild(e) == Of(e).topic = Wildcard
Precedes(e, f) ==
  \/ ~IsWild(e) /\ IsWild(f)
  \/ IsWild(e) = IsWild(f) /\ Of(e).priority < Of(f).priority
  \/ /\ IsWild(e) = IsWild(f) /\ Of(e).priority = Of(f).priority
     /\ e.load < f.load \/ (e.load = f.load /\ e.call < f.call)

Publish(r, topic) ==
  /\ Free /\ run[r].at = "ended"
  /\ run' = [run EXCEPT ![r] = [at |-> "next", todo |-> Targets(topic),
                                 stale |-> Targets(topic) \cap gone]]
  /\ UNCHANGED <<registry, loader, loads, gone, failed, booted>>

Call(r) ==
  /\ Free /\ run[r].at = "next"
  /\ \E e \in run[r].todo :
       /\ \A f \in run[r].todo : ~Precedes(f, e)
       /\ run' = [run EXCEPT ![r] = [at |-> "in", now |-> e, todo |-> run[r].todo \ {e},
                                      stale |-> run[r].stale]]
  /\ UNCHANGED <<registry, loader, loads, gone, failed, booted>>

StopOnError(ok) == IF ok THEN "next" ELSE "ended" \* mutant: an exception ends publish
AfterHandler(ok) == "next"

KeepOnce(e) ==                    \* mutant: once is ignored
  UNCHANGED live /\ gone' = gone \cup (IF Of(e).once THEN {e} ELSE {})
\* bucket.remove drops what is equal to the copied subscription: it may be the one
\* of the same handler that a later load has made.
Equals(e) == {f \in live : SameHandler(e, f)}
DropOnce(e) ==
  IF Of(e).once
    THEN live' = live \ Equals(e) /\ gone' = gone \cup {e} \cup Equals(e)
    ELSE UNCHANGED <<live, gone>>

\* The handler returns or raises.
Return(r) ==
  /\ Free /\ run[r].at = "in"
  /\ \E ok \in BOOLEAN :
       run' = [run EXCEPT ![r] = [at |-> AfterHandler(ok), todo |-> run[r].todo,
                                   stale |-> run[r].stale]]
  /\ DropOnce(run[r].now)
  /\ UNCHANGED <<state, cleanup, loader, loads, failed, booted>>

EndRun(r) ==
  /\ Free /\ run[r].at = "next" /\ run[r].todo = {}
  /\ run' = [run EXCEPT ![r] = NotRunning]
  /\ UNCHANGED <<registry, loader, loads, gone, failed, booted>>

LoadStep == LoadNext \/ ApiCall \/ LoadFails \/ Enable \/ Finish
RunStep(r) == Call(r) \/ Return(r) \/ EndRun(r)

PluginNext ==
  \/ \E service \in Service : Boot(service)
  \/ LoadStep
  \/ \E p \in Plugin : Disable(p) \/ Reload(p)
  \/ \E r \in Run : RunStep(r) \/ \E topic \in Event \cup HookName : Publish(r, topic)

\* A loading never awaits, and the event loop resumes a handler that is done;
\* that handlers end is their authors' promise.
PluginFairness == WF_pluginVars(LoadStep) /\ \A r \in Run : WF_pluginVars(RunStep(r))
PluginSpec == PluginInit /\ [][PluginNext]_pluginVars /\ PluginFairness

-----------------------------------------------------------------------------
LoadingNow(p) == loader.queue # <<>> /\ loader.call > 0 /\ Loading = p
OfCall(p, i) == {e \in live : e.plugin = p /\ e.call = i}

\* However often the API, the worker and reload() load the plugins, a plugin
\* that never failed is called once for each of its registrations while it is
\* enabled (a once-subscription at most once) and not at all while it is not:
\* registry.py:97, and the comments on the ticks that ran twice as long.
RegisteredOnce ==
  \A p \in Plugin \ failed : ~LoadingNow(p) =>
    \A i \in DOMAIN Program[p] : Program[p][i].kind \in {"event", "hook"} =>
      /\ Cardinality(OfCall(p, i)) =< 1
      /\ state[p] = "enabled" /\ ~Program[p][i].once => OfCall(p, i) # {}
      /\ state[p] # "enabled" => OfCall(p, i) = {}

\* A disabled plugin has no hook left, even those a failed load left behind:
\* clear_plugin finds them by the plugin's id.
DisabledHasNoHooks ==
  \A p \in Plugin : state[p] = "disabled" /\ ~LoadingNow(p) =>
    \A e \in live : e.plugin = p => ~IsHook(e)

\* A publication that begins after a once-subscription has fired, or after the
\* plugin was unloaded, does not call it; those under way may still do so.
RemovedIsNotCalled ==
  \A r \in Run : \A e \in run[r].stale : e.plugin \in failed

\* Every publication and invocation ends, and has then called every handler
\* that it found, though any of them may raise.
AllAreCalled ==
  \A r \in Run : (run[r].at # "ended") ~> (run[r].at = "ended" /\ run[r].todo = {})
=============================================================================
