----------------------------- MODULE ProcessProofs ----------------------------
(***************************************************************************)
(* The worker never counts a tick it has not walked and repeats a phase    *)
(* only after a crash or an outage, whatever the number of worlds, phases, *)
(* ticks and failures; and run_all drives it only in ways that Ticks       *)
(* knows, so the same holds in the process, whatever signals, cut ticks    *)
(* and restarts there are.                                                 *)
(***************************************************************************)
EXTENDS Supervisor, Plugins, WellFoundedInduction, FiniteSetTheorems, SequenceTheorems, TLAPS

-----------------------------------------------------------------------------
(* The inductive invariant.                                                *)

InTick == runner.pc \in {"phase", "hook"}

\* What a pass holds: the batch is as it was listed, the worlds before the one
\* it is at are walked, and so are the phases of that one so far.
Pass ==
  /\ runner.todo \subseteq runner.batch
  /\ \A w \in runner.batch : ticks[w] < MaxTick /\ runner.seen[w] = ticks[w]
  /\ \A w \in runner.batch \ runner.todo : \A k \in Phase : <<w, ticks[w] + 1, k>> \in tried
  /\ InTick =>
       /\ runner.todo # {}
       /\ runner.phase \in Phase
       /\ runner.tick = ticks[First(runner.todo)] + 1
       /\ \A k \in Phase : k < runner.phase => <<First(runner.todo), runner.tick, k>> \in tried
  /\ runner.pc = "hook" => <<First(runner.todo), runner.tick, runner.phase>> \in tried
  /\ runner.pc = "count" => runner.todo = {}

\* Phase k of world w is behind the pass.
Behind(w, k) ==
  /\ runner.pc \in Walking
  /\ w \in runner.batch
  /\ \/ w \notin runner.todo
     \/ InTick /\ w = First(runner.todo) /\ k < runner.phase
     \/ runner.pc = "hook" /\ w = First(runner.todo) /\ k = runner.phase

Repeats ==
  /\ RepeatsNeedFailures
  /\ \A w \in World, k \in Phase :
       ticks[w] < MaxTick /\ ~Behind(w, k) => applied[<<w, ticks[w] + 1, k>>] <= failures
  /\ \A w \in World, n \in Tick, k \in Phase : n > ticks[w] + 1 => applied[<<w, n, k>>] = 0

IInv ==
  /\ TypeOK
  /\ CountedTicksWereWalked
  /\ runner.pc \in Walking => Pass
  /\ Repeats

-----------------------------------------------------------------------------
(* The first of a set of worlds.                                           *)

LEMMA FirstIsOne ==
  ASSUME NEW S \in SUBSET World, S # {}
  PROVE  First(S) \in S
<1>1. \E w \in S : \A v \in S : w <= v
  <2>1. S \subseteq Nat
    BY WorldAssumption
  <2>2. PICK w \in S : \A v \in S : ~(<<v, w>> \in OpToRel(<, Nat))
    BY <2>1, NatLessThanWellFounded, WFMin
  <2>3. \A v \in S : v \in Nat /\ w \in Nat /\ ~(v < w)
    BY <2>1, <2>2 DEF OpToRel
  <2>4. \A v \in S : w <= v
    BY <2>3
  <2> QED
    BY <2>4
<1> QED
  BY <1>1 DEF First

LEMMA Bounds == Phases \in Nat \ {0} /\ BuiltIn \subseteq Phase /\ MaxTick \in Nat /\ MaxFailures \in Nat
  BY PhaseAssumption, BoundAssumption DEF Phase

LEMMA DownIsRunner == Down \in Runner
BY Bounds DEF Down, Runner

-----------------------------------------------------------------------------
LEMMA InitInv == Init => IInv
<1> SUFFICES ASSUME Init PROVE IInv
  OBVIOUS
<1>1. TypeOK
  <2>1. /\ status \in [World -> {"none", "open", "full"}]
        /\ ticks \in [World -> 0 .. MaxTick]
        /\ applied \in [Job -> Nat]
        /\ failures \in 0 .. MaxFailures
    BY Bounds DEF Init
  <2>2. stop \in BOOLEAN /\ tried \subseteq Job /\ runner \in Runner
    BY DownIsRunner DEF Init
  <2> QED
    BY <2>1, <2>2 DEF TypeOK
<1>2. CountedTicksWereWalked
  BY DEF Init, CountedTicksWereWalked, Tick
<1>3. runner.pc \notin Walking
  BY DEF Init, Down, Walking
<1>4. Repeats
  <2>1. \A job \in Job : applied[job] = 0 /\ failures = 0
    BY DEF Init
  <2>2. \A w \in World, n \in Tick, k \in Phase : <<w, n, k>> \in Job
    BY DEF Job
  <2>3. \A w \in World : ticks[w] = 0 /\ (ticks[w] < MaxTick => ticks[w] + 1 \in Tick)
    BY Bounds DEF Init, Tick
  <2> QED
    BY <2>1, <2>2, <2>3 DEF Repeats, RepeatsNeedFailures
<1> QED
  BY <1>1, <1>2, <1>3, <1>4 DEF IInv

\* Outside a pass nothing is behind.
LEMMA OutsideInv ==
  ASSUME IInv, TypeOK',
         UNCHANGED <<ticks, applied, tried>>,
         failures' \in Nat,
         \/ failures' = failures + 1
         \/ failures' = failures /\ runner.pc \notin Walking,
         runner'.pc \notin Walking
  PROVE  IInv'
<1>1. CountedTicksWereWalked'
  BY DEF IInv, CountedTicksWereWalked
<1>2. \A job \in Job : applied[job] \in Nat /\ applied[job] <= 1 + failures
  BY DEF IInv, TypeOK, Repeats, RepeatsNeedFailures
<1>3. failures \in Nat /\ failures <= failures'
  BY DEF IInv, TypeOK
<1>4. RepeatsNeedFailures'
  BY <1>2, <1>3 DEF RepeatsNeedFailures
<1>5. ASSUME NEW w \in World, NEW k \in Phase, ticks[w] < MaxTick
      PROVE  applied[<<w, ticks[w] + 1, k>>] <= failures'
  <2>1. <<w, ticks[w] + 1, k>> \in Job
    BY <1>5, Bounds DEF IInv, TypeOK, Job, Tick
  <2>2. CASE failures' = failures + 1
    BY <1>2, <1>3, <2>1, <2>2
  <2>3. CASE failures' = failures /\ runner.pc \notin Walking
    BY <1>5, <2>3 DEF IInv, Repeats, Behind
  <2> QED
    BY <2>2, <2>3
<1>6. \A w \in World, n \in Tick, k \in Phase : n > ticks[w] + 1 => applied[<<w, n, k>>] = 0
  BY DEF IInv, Repeats
<1>7. Repeats'
  BY <1>4, <1>5, <1>6 DEF Repeats
<1> QED
  BY <1>1, <1>7 DEF IInv

-----------------------------------------------------------------------------
(* One lemma for each action of the worker in a pass.                      *)

LEMMA StartWorkerInv == IInv /\ StartWorker => IInv'
<1> SUFFICES ASSUME IInv, StartWorker PROVE IInv'
  OBVIOUS
<1>1. runner'.pc = "list" /\ runner' \in Runner
  BY DownIsRunner DEF StartWorker, Down, Runner
<1>2. TypeOK'
  BY <1>1 DEF IInv, TypeOK, StartWorker
<1> QED
  BY <1>1, <1>2, OutsideInv DEF StartWorker, Walking, IInv, TypeOK

LEMMA ListInv == IInv /\ List => IInv'
<1> SUFFICES ASSUME IInv, List PROVE IInv'
  OBVIOUS
<1>1. CASE Stopping
  <2>1. runner'.pc = "down" /\ runner' \in Runner
    BY <1>1, DownIsRunner DEF List, Down
  <2>2. TypeOK'
    BY <2>1 DEF IInv, TypeOK, List
  <2> QED
    BY <2>1, <2>2, OutsideInv DEF List, Walking, IInv, TypeOK
<1>2. CASE ~Stopping
  <2>1. /\ runner' \in Runner
        /\ runner'.pc = "next" /\ runner'.batch = Listed /\ runner'.todo = Listed
        /\ runner'.seen = ticks
    <3>1. Listed \subseteq World
      BY DEF Listed
    <3>2. runner' = [pc |-> "next", batch |-> Listed, todo |-> Listed, tick |-> 0,
                     phase |-> 0, seen |-> ticks]
      BY <1>2 DEF List, Down
    <3>3. ticks \in [World -> 0 .. MaxTick]
      BY DEF IInv, TypeOK
    <3> QED
      BY <3>1, <3>2, <3>3, Bounds DEF Runner, Walking
  <2>2. TypeOK' /\ CountedTicksWereWalked'
    BY <2>1 DEF IInv, TypeOK, List, CountedTicksWereWalked
  <2>3. Pass'
    BY <2>1 DEF Pass, List, Listed, InTick
  <2>4. \A w \in World, k \in Phase : ~Behind(w, k)' /\ ~Behind(w, k)
    BY <2>1 DEF Behind, List, InTick, Walking
  <2>5. Repeats'
    BY <2>4 DEF IInv, Repeats, RepeatsNeedFailures, List
  <2> QED
    BY <2>2, <2>3, <2>5 DEF IInv
<1> QED
  BY <1>1, <1>2

LEMMA NextWorldInv == IInv /\ NextWorld => IInv'
<1> SUFFICES ASSUME IInv, NextWorld PROVE IInv'
  OBVIOUS
<1>1. Pass
  BY DEF IInv, NextWorld, Walking
<1>2. CountedTicksWereWalked'
  BY DEF IInv, NextWorld, CountedTicksWereWalked
<1>3. CASE runner.todo = {}
  <2>1. /\ runner' \in Runner /\ runner'.pc = "count"
        /\ runner'.batch = runner.batch /\ runner'.todo = {} /\ runner'.seen = runner.seen
    BY <1>3 DEF NextWorld, Goto, Runner, Walking, IInv, TypeOK
  <2>2. TypeOK'
    BY <2>1 DEF IInv, TypeOK, NextWorld
  <2>3. Pass'
    BY <1>1, <1>3, <2>1 DEF Pass, NextWorld, InTick
  <2>4. \A w \in World, k \in Phase : Behind(w, k) <=> Behind(w, k)'
    BY <1>3, <2>1 DEF Behind, NextWorld, InTick, Walking
  <2> QED
    BY <1>2, <2>2, <2>3, <2>4 DEF IInv, Repeats, RepeatsNeedFailures, NextWorld
<1>4. CASE runner.todo # {}
  <2>1. PICK f \in World : f = First(runner.todo) /\ f \in runner.todo
    BY <1>4, FirstIsOne DEF IInv, TypeOK, Runner
  <2>2. runner.seen[f] + 1 \in 0 .. MaxTick /\ runner.seen[f] = ticks[f]
    BY <1>1, <2>1, Bounds DEF Pass, IInv, TypeOK
  <2>3. /\ runner' \in Runner /\ runner'.pc = "phase" /\ runner'.phase = 1
        /\ runner'.batch = runner.batch /\ runner'.todo = runner.todo
        /\ runner'.seen = runner.seen /\ runner'.tick = ticks[f] + 1
    <3>1. runner \in Runner
      BY DEF IInv, TypeOK
    <3>2. TickOf(f) = ticks[f] + 1 /\ TickOf(f) \in 0 .. MaxTick /\ 1 \in 0 .. Phases
      BY <2>2, Bounds DEF TickOf
    <3>3. runner' = [runner EXCEPT !.pc = "phase", !.phase = 1, !.tick = TickOf(f)]
      BY <1>4, <2>1 DEF NextWorld
    <3> QED
      BY <3>1, <3>2, <3>3 DEF Runner, Walking
  <2>4. TypeOK'
    BY <2>3 DEF IInv, TypeOK, NextWorld
  <2>5. Pass'
    BY <1>1, <1>4, <2>1, <2>3, Bounds DEF Pass, NextWorld, InTick, Phase
  <2>6. \A w \in World, k \in Phase : Behind(w, k) <=> Behind(w, k)'
    BY <2>3 DEF Behind, NextWorld, InTick, Walking, Phase
  <2> QED
    BY <1>2, <2>4, <2>5, <2>6 DEF IInv, Repeats, RepeatsNeedFailures, NextWorld
<1> QED
  BY <1>3, <1>4

LEMMA HandleInv == IInv /\ Handle => IInv'
<1> SUFFICES ASSUME IInv, Handle PROVE IInv'
  OBVIOUS
<1>1. Pass /\ InTick
  BY DEF IInv, Handle, Walking, InTick
<1>2. PICK f \in World : f = First(runner.todo) /\ f \in runner.todo
  BY <1>1, FirstIsOne DEF Pass, IInv, TypeOK, Runner
<1>3. PICK here \in Job :
        /\ here = Current /\ here = <<f, ticks[f] + 1, runner.phase>>
        /\ ticks[f] < MaxTick /\ f \in runner.batch /\ runner.phase \in Phase
  BY <1>1, <1>2, Bounds DEF Pass, Current, Job, Tick, IInv, TypeOK
<1>4. /\ runner' \in Runner /\ runner'.pc = "hook" /\ runner'.phase = runner.phase
      /\ runner'.batch = runner.batch /\ runner'.todo = runner.todo
      /\ runner'.seen = runner.seen /\ runner'.tick = runner.tick
  <2>1. runner \in Runner /\ runner' = [runner EXCEPT !.pc = "hook"]
    BY DEF IInv, TypeOK, Handle, Goto, Isolate
  <2> QED
    BY <2>1 DEF Runner, Walking
<1>5. /\ tried' = tried \cup {here}
      /\ \/ applied' = [applied EXCEPT ![here] = applied[here] + 1]
         \/ applied' = applied
  BY <1>3 DEF Handle
<1>6. TypeOK'
  BY <1>3, <1>4, <1>5 DEF IInv, TypeOK, Handle
<1>7. CountedTicksWereWalked'
  BY <1>5 DEF IInv, CountedTicksWereWalked, Handle
<1>8. Pass'
  BY <1>1, <1>2, <1>3, <1>4, <1>5 DEF Pass, InTick, Handle, Current
<1>9. \A w \in World, k \in Phase :
        /\ Behind(w, k) => Behind(w, k)'
        /\ ~Behind(w, k)' => ~(w = f /\ k = runner.phase)
  BY <1>2, <1>3, <1>4 DEF Behind, InTick, Walking
<1>10. ~Behind(f, runner.phase)
  BY <1>1, <1>2, <1>3, Bounds DEF Behind, InTick, Handle, Phase
<1>11. applied[here] \in Nat /\ applied[here] <= failures /\ failures \in Nat
  BY <1>3, <1>10 DEF IInv, TypeOK, Repeats
<1>12. \A job \in Job : /\ job # here => applied'[job] = applied[job]
                        /\ applied'[job] = applied[job] \/ applied'[job] <= 1 + failures
  BY <1>3, <1>5, <1>11 DEF IInv, TypeOK
<1>13. RepeatsNeedFailures'
  BY <1>12 DEF IInv, Repeats, RepeatsNeedFailures, Handle
<1>14. ASSUME NEW w \in World, NEW k \in Phase, ticks[w] < MaxTick, ~Behind(w, k)'
       PROVE  applied'[<<w, ticks[w] + 1, k>>] <= failures
  <2>1. <<w, ticks[w] + 1, k>> \in Job /\ <<w, ticks[w] + 1, k>> # here /\ ~Behind(w, k)
    BY <1>3, <1>9, <1>14, Bounds DEF Job, Tick, IInv, TypeOK
  <2> QED
    BY <1>12, <1>14, <2>1 DEF IInv, Repeats
<1>15. ASSUME NEW w \in World, NEW n \in Tick, NEW k \in Phase, n > ticks[w] + 1
       PROVE  applied'[<<w, n, k>>] = 0
  <2>1. <<w, n, k>> \in Job /\ <<w, n, k>> # here
    BY <1>3, <1>15 DEF Job, Tick, IInv, TypeOK
  <2> QED
    BY <1>12, <1>15, <2>1 DEF IInv, Repeats
<1>16. Repeats'
  BY <1>13, <1>14, <1>15 DEF Repeats, Handle
<1> QED
  BY <1>6, <1>7, <1>8, <1>16 DEF IInv

LEMMA HookInv == IInv /\ Hook => IInv'
<1> SUFFICES ASSUME IInv, Hook PROVE IInv'
  OBVIOUS
<1>1. Pass /\ InTick /\ runner.pc = "hook" /\ runner \in Runner
  BY DEF IInv, TypeOK, Hook, Walking, InTick
<1>2. PICK f \in World : f = First(runner.todo) /\ f \in runner.todo
  BY <1>1, FirstIsOne DEF Pass, Runner
<1>3. PICK skip \in BOOLEAN :
        /\ tried' = tried \cup RestOfTick(skip)
        /\ runner' = IF skip \/ runner.phase = Phases
                     THEN [runner EXCEPT !.pc = "next", !.todo = runner.todo \ {f},
                                         !.phase = 0, !.tick = 0]
                     ELSE [runner EXCEPT !.pc = "phase", !.phase = runner.phase + 1]
        /\ UNCHANGED <<status, ticks, stop, applied, failures>>
  BY <1>2 DEF Hook
<1>4. /\ runner.phase \in Phase /\ runner.tick = ticks[f] + 1 /\ ticks[f] < MaxTick
      /\ f \in runner.batch /\ ticks[f] \in Nat
      /\ \A k \in Phase : k <= runner.phase => <<f, ticks[f] + 1, k>> \in tried
  BY <1>1, <1>2, Bounds DEF Pass, Phase, IInv, TypeOK
<1>5. RestOfTick(skip) \subseteq Job
  BY <1>2, <1>4, Bounds DEF RestOfTick, Job, Tick
<1>6. CountedTicksWereWalked'
  BY <1>3 DEF IInv, CountedTicksWereWalked
<1>7. CASE skip \/ runner.phase = Phases
  <2>1. /\ runner' \in Runner /\ runner'.pc = "next" /\ runner'.batch = runner.batch
        /\ runner'.todo = runner.todo \ {f} /\ runner'.seen = runner.seen
    <3>1. runner' = [runner EXCEPT !.pc = "next", !.todo = runner.todo \ {f},
                                   !.phase = 0, !.tick = 0]
      BY <1>3, <1>7
    <3>2. runner.todo \ {f} \in SUBSET World /\ 0 \in 0 .. Phases /\ 0 \in 0 .. MaxTick
      BY <1>1, Bounds DEF Runner
    <3> QED
      BY <1>1, <3>1, <3>2 DEF Runner, Walking
  <2>2. \A k \in Phase : <<f, ticks[f] + 1, k>> \in tried'
    BY <1>2, <1>3, <1>4, <1>7, Bounds DEF RestOfTick, Phase
  <2>3. TypeOK'
    BY <1>3, <1>5, <2>1 DEF IInv, TypeOK
  <2>4. Pass'
    BY <1>1, <1>3, <2>1, <2>2 DEF Pass, InTick
  <2>5. \A w \in World, k \in Phase : Behind(w, k) => Behind(w, k)'
    BY <1>2, <2>1 DEF Behind, InTick, Walking
  <2>6. Repeats'
    BY <1>3, <2>5 DEF IInv, Repeats, RepeatsNeedFailures
  <2> QED
    BY <1>6, <2>3, <2>4, <2>6 DEF IInv
<1>8. CASE ~(skip \/ runner.phase = Phases)
  <2>1. runner.phase + 1 \in Phase
    BY <1>4, <1>8, Bounds DEF Phase
  <2>2. /\ runner' \in Runner /\ runner'.pc = "phase" /\ runner'.batch = runner.batch
        /\ runner'.todo = runner.todo /\ runner'.seen = runner.seen
        /\ runner'.tick = runner.tick /\ runner'.phase = runner.phase + 1
    <3>1. runner' = [runner EXCEPT !.pc = "phase", !.phase = runner.phase + 1]
      BY <1>3, <1>8
    <3>2. runner.phase + 1 \in 0 .. Phases
      BY <2>1, Bounds DEF Phase
    <3> QED
      BY <1>1, <3>1, <3>2 DEF Runner, Walking
  <2>3. TypeOK'
    BY <1>3, <1>5, <2>2 DEF IInv, TypeOK
  <2>4. \A k \in Phase : k < runner.phase + 1 => k <= runner.phase
    BY <1>4, Bounds DEF Phase
  <2>5. Pass'
    BY <1>1, <1>2, <1>3, <1>4, <2>1, <2>2, <2>4 DEF Pass, InTick
  <2>6. \A w \in World, k \in Phase : Behind(w, k) => Behind(w, k)'
    BY <1>2, <1>4, <2>2, Bounds DEF Behind, InTick, Walking, Phase
  <2>7. Repeats'
    BY <1>3, <2>6 DEF IInv, Repeats, RepeatsNeedFailures
  <2> QED
    BY <1>6, <2>3, <2>5, <2>7 DEF IInv
<1> QED
  BY <1>7, <1>8

LEMMA CountInv == IInv /\ Count => IInv'
<1> SUFFICES ASSUME IInv, Count PROVE IInv'
  OBVIOUS
<1>1. Pass /\ runner.todo = {} /\ runner.batch \subseteq World
  BY DEF IInv, TypeOK, Count, Walking, Pass, Runner
<1>2. runner' \in Runner /\ runner'.pc = "wait"
  <2>1. runner' = [Down EXCEPT !.pc = "wait"]
    BY DEF Count
  <2> QED
    BY <2>1, DownIsRunner DEF Down, Runner
<1>3. \A w \in World : /\ ticks[w] \in 0 .. MaxTick /\ ticks'[w] \in 0 .. MaxTick
                       /\ w \in runner.batch => ticks'[w] = ticks[w] + 1
                       /\ w \notin runner.batch => ticks'[w] = ticks[w]
  BY <1>1, Bounds DEF IInv, TypeOK, Count, Counted, Pass
<1>4. TypeOK'
  <2>1. ticks' \in [World -> 0 .. MaxTick]
    BY <1>3 DEF Count
  <2> QED
    BY <1>2, <2>1 DEF IInv, TypeOK, Count
<1>5. CountedTicksWereWalked'
  <2>1. ASSUME NEW w \in World, NEW n \in Tick, n <= ticks'[w], NEW k \in Phase
        PROVE  <<w, n, k>> \in tried
    <3>1. CASE n <= ticks[w]
      BY <3>1 DEF IInv, CountedTicksWereWalked
    <3>2. CASE ~(n <= ticks[w])
      <4>1. w \in runner.batch /\ n = ticks[w] + 1
        BY <1>3, <2>1, <3>2 DEF Tick
      <4> QED
        BY <1>1, <4>1 DEF Pass
    <3> QED
      BY <3>1, <3>2
  <2> QED
    BY <2>1 DEF CountedTicksWereWalked, Count
<1>6. \A w \in World, k \in Phase : ~Behind(w, k)'
  BY <1>2 DEF Behind, Walking
<1>7. failures \in Nat /\ applied' = applied /\ failures' = failures
  BY DEF IInv, TypeOK, Count
<1>8. ASSUME NEW w \in World, NEW k \in Phase, ticks'[w] < MaxTick
      PROVE  applied[<<w, ticks'[w] + 1, k>>] <= failures
  <2>1. CASE w \in runner.batch
    <3>1. ticks'[w] + 1 \in Tick /\ ticks'[w] + 1 > ticks[w] + 1
      BY <1>3, <1>8, <2>1, Bounds DEF Tick
    <3> QED
      BY <1>7, <3>1 DEF IInv, Repeats
  <2>2. CASE w \notin runner.batch
    BY <1>3, <1>8, <2>2 DEF IInv, Repeats, Behind
  <2> QED
    BY <2>1, <2>2
<1>9. ASSUME NEW w \in World, NEW n \in Tick, NEW k \in Phase, n > ticks'[w] + 1
      PROVE  applied[<<w, n, k>>] = 0
  <2>1. n > ticks[w] + 1
    BY <1>3, <1>9 DEF Tick
  <2> QED
    BY <2>1 DEF IInv, Repeats
<1>10. Repeats'
  BY <1>7, <1>8, <1>9 DEF IInv, Repeats, RepeatsNeedFailures
<1> QED
  BY <1>2, <1>4, <1>5, <1>10 DEF IInv, Walking

LEMMA WakeInv == IInv /\ Wake => IInv'
<1> SUFFICES ASSUME IInv, Wake PROVE IInv'
  OBVIOUS
<1>1. runner \in Runner /\ runner' = [runner EXCEPT !.pc = "list"]
  BY DEF IInv, TypeOK, Wake, Goto
<1>2. runner' \in Runner /\ runner'.pc = "list"
  BY <1>1 DEF Runner
<1>3. TypeOK'
  BY <1>2 DEF IInv, TypeOK, Wake
<1> QED
  BY <1>2, <1>3, OutsideInv DEF Wake, Walking, IInv, TypeOK

\* A crash or an outage ends a pass, if there is one, and is counted.
LEMMA FailureInv == IInv /\ (DatabaseFails \/ Crash) => IInv'
<1> SUFFICES ASSUME IInv, DatabaseFails \/ Crash PROVE IInv'
  OBVIOUS
<1>1. runner' \in Runner /\ runner'.pc \in {"wait", "down"}
  <2>1. runner' = [Down EXCEPT !.pc = "wait"] \/ runner' = Down
    BY DEF DatabaseFails, Crash
  <2> QED
    BY <2>1, DownIsRunner DEF Down, Runner
<1>2. /\ failures' = failures + 1 /\ failures' \in 0 .. MaxFailures
      /\ UNCHANGED <<status, ticks, stop, applied, tried>>
  BY Bounds DEF DatabaseFails, Crash, Failed, IInv, TypeOK
<1>3. TypeOK'
  BY <1>1, <1>2 DEF IInv, TypeOK
<1> QED
  BY <1>1, <1>2, <1>3, OutsideInv DEF Walking

\* The rest of the system moves none of the variables the invariant is about.
LEMMA AroundInv ==
  ASSUME IInv, UNCHANGED <<ticks, runner, applied, tried, failures>>, TypeOK'
  PROVE  IInv'
<1>1. Pass <=> Pass'
  BY DEF Pass, InTick
<1>2. \A w \in World, k \in Phase : Behind(w, k) <=> Behind(w, k)'
  BY DEF Behind, InTick
<1> QED
  BY <1>1, <1>2 DEF IInv, Repeats, RepeatsNeedFailures, CountedTicksWereWalked

-----------------------------------------------------------------------------
LEMMA StepInv == IInv /\ [Next]_vars => IInv'
<1> SUFFICES ASSUME IInv, [Next]_vars PROVE IInv'
  OBVIOUS
<1>1. CASE StartWorker
  BY <1>1, StartWorkerInv
<1>2. CASE Work
  BY <1>2, ListInv, NextWorldInv, HandleInv, HookInv, CountInv, WakeInv DEF Work
<1>3. CASE DatabaseFails \/ Crash
  BY <1>3, FailureInv
<1>4. CASE RequestStop
  BY <1>4, AroundInv DEF RequestStop, IInv, TypeOK
<1>5. ASSUME NEW w \in World, CreateWorld(w) \/ FillWorld(w)
      PROVE  IInv'
  <2>1. TypeOK'
    BY <1>5 DEF CreateWorld, FillWorld, IInv, TypeOK
  <2> QED
    BY <1>5, <2>1, AroundInv DEF CreateWorld, FillWorld
<1>6. CASE UNCHANGED vars
  BY <1>6, AroundInv DEF vars, IInv, TypeOK
<1> QED
  BY <1>1, <1>2, <1>3, <1>4, <1>5, <1>6 DEF Next

(* The invariant the two results below rest on.                                *)
THEOREM InvariantHolds == Spec => []IInv
<1>1. Init => IInv
  BY InitInv
<1>2. IInv /\ [Next]_vars => IInv'
  BY StepInv
<1> QED
  BY <1>1, <1>2, PTL DEF Spec

(* A counted tick was walked, phase by phase, also when the worker crashed     *)
(* meanwhile, sessions failed, or worlds were created and filled.              *)
(* (TickRunner.run, TickEngine.run, increment_ticks)                           *)
THEOREM CountedWereWalked == Spec => []CountedTicksWereWalked
<1>1. IInv => CountedTicksWereWalked
  BY DEF IInv
<1> QED
  BY <1>1, InvariantHolds, PTL

(* Nothing but a crash or an outage makes the worker apply a phase of a tick   *)
(* once more.  (TickRunner.run)                                                *)
THEOREM RepeatsAreFailures == Spec => []RepeatsNeedFailures
<1>1. IInv => RepeatsNeedFailures
  BY DEF IInv, Repeats
<1> QED
  BY <1>1, InvariantHolds, PTL

-----------------------------------------------------------------------------
(* The process around the worker.                                              *)

(* Asking the others to end is a request to stop, or nothing to the worker.    *)
LEMMA ShutdownStep == ASSUME IInv, BeginShutdown PROVE [Next]_vars
<1>1. stop \in BOOLEAN
  BY DEF IInv, TypeOK
<1>2. UNCHANGED <<status, ticks, runner, applied, tried, failures>> /\ stop' = (stop \/ ~WorkerEnded)
  BY DEF BeginShutdown, AskWorker
<1>3. CASE WorkerEnded
  <2>1. stop' = stop
    BY <1>1, <1>2, <1>3
  <2> QED
    BY <1>2, <2>1 DEF vars
<1>4. CASE ~WorkerEnded
  <2>1. stop' = TRUE
    BY <1>1, <1>2, <1>4
  <2>2. RequestStop
    BY <1>2, <1>4, <2>1 DEF RequestStop, WorkerEnded
  <2> QED
    BY <2>2 DEF Next
<1> QED
  BY <1>3, <1>4

(* Every step of the process is one of the worker or leaves it alone.          *)
LEMMA WorkerStepOfProcess == ASSUME IInv, [SupNext]_supVars PROVE [Next]_vars
<1>1. CASE StartAll
  BY <1>1 DEF StartAll, Next
<1>2. CASE ApiEnds \/ BotEnds \/ Signal \/ AllGathered \/ GraceExpires \/ AllCancelled
  BY <1>2 DEF ApiEnds, BotEnds, Signal, AllGathered, GraceExpires, AllCancelled
<1>3. CASE WorkerStep \/ WorkerOutage
  BY <1>3 DEF WorkerStep, WorkerOutage, Next
<1>4. CASE Players
  BY <1>4 DEF Players, Next
<1>5. CASE Resume \/ StopKeeping
  BY <1>5, ShutdownStep DEF Resume, StopKeeping
<1>6. CASE TaskCancelled
  BY <1>6 DEF TaskCancelled, BotEnds, Next
<1>7. CASE ProcessDies
  BY <1>7 DEF ProcessDies, Next
<1>8. CASE UNCHANGED supVars
  BY <1>8 DEF supVars
<1> QED
  BY <1>1, <1>2, <1>3, <1>4, <1>5, <1>6, <1>7, <1>8 DEF SupNext

THEOREM ProcessInvariant == SupSpec => []IInv
<1>1. SupInit => IInv
  BY InitInv DEF SupInit
<1>2. IInv /\ [SupNext]_supVars => IInv'
  BY WorkerStepOfProcess, StepInv
<1> QED
  BY <1>1, <1>2, PTL DEF SupSpec

(* The worker inside the process implements the worker of Ticks, for any       *)
(* number of worlds, phases, restarts and failures.  (run_all, TickRunner)     *)
THEOREM ProcessRunsTicks == SupSpec => WorkerAsInTicks
<1>1. SupInit => Init
  BY DEF SupInit
<1>2. IInv /\ [SupNext]_supVars => [Next]_vars
  BY WorkerStepOfProcess
<1> QED
  BY <1>1, <1>2, ProcessInvariant, PTL DEF SupSpec, WorkerAsInTicks

(* No process, however it was ended, counted a tick that it had not walked.    *)
(* (run_all, increment_ticks)                                                  *)
THEOREM ProcessCountsWalked == SupSpec => []CountedTicksWereWalked
<1>1. IInv => CountedTicksWereWalked
  BY DEF IInv
<1> QED
  BY <1>1, ProcessInvariant, PTL

(* Over all its restarts, a phase of a tick is applied at most once more than  *)
(* there were failures, cut ticks among them.  (run_all, TickRunner.run)       *)
THEOREM ProcessRepeatsAreFailures == SupSpec => []RepeatsNeedFailures
<1>1. IInv => RepeatsNeedFailures
  BY DEF IInv, Repeats
<1> QED
  BY <1>1, ProcessInvariant, PTL

-----------------------------------------------------------------------------
(***************************************************************************)
(* The plugins of the process, for any number of plugins, programs, loads  *)
(* and publications under way: an enabled plugin is registered once, a     *)
(* disabled one is not, and what was removed is not called again.          *)
(***************************************************************************)

\* Call i of p registers a handler.
Registers(p, i) == i \in DOMAIN Program[p] /\ Program[p][i].kind \in {"event", "hook"}

\* The registrations that may have been made so far.
IsRegistration(e) ==
  /\ e = Entry(e.plugin, e.call, e.load)
  /\ e.plugin \in Plugin \cup Extension
  /\ Registers(e.plugin, e.call)
  /\ e.load \in 0 .. loads

States == {"unknown", "discovered", "enabled", "disabled", "errored"}

Records ==
  /\ state \in [Plugin -> States]
  /\ cleanup = [p \in Plugin |-> cleanup[p]]
  /\ \A p \in Plugin : \A e \in cleanup[p] : e.plugin = p
  /\ loads \in Nat /\ failed \subseteq Plugin

Registrations ==
  /\ \A e \in live \cup gone : IsRegistration(e)
  /\ \A e \in gone : e.plugin \in Plugin

LoaderType ==
  [queue : Seq(Plugin), call : Nat, busy : BOOLEAN,
   cleanup : SUBSET [plugin : Plugin, call : Nat, load : Nat]]
Loader ==
  /\ loader \in LoaderType
  /\ loader.queue # <<>> => loader.busy

Runs ==
  /\ run = [r \in Run |-> run[r]]
  /\ \A r \in Run : /\ \A e \in run[r].todo : IsRegistration(e)
                    /\ run[r].at = "in" => IsRegistration(run[r].now)

Typed == Records /\ Registrations /\ Loader /\ Runs

RegisteredOf(p) == {e \in live : e.plugin = p}

\* The load under way has registered what its calls so far register, no more.
Halfway(p) ==
  /\ state[p] # "enabled"
  /\ \A e \in RegisteredOf(p) : e.load = loads /\ e.call < loader.call
  /\ \A i \in DOMAIN Program[p] :
       Registers(p, i) /\ i < loader.call => Entry(p, i, loads) \in live
  /\ \A e \in gone : e.plugin = p => e.load < loads

\* An enabled plugin has registered everything once, and can cancel it.
Complete(p) ==
  /\ \A e, f \in RegisteredOf(p) : e.call = f.call => e = f
  /\ \A i \in DOMAIN Program[p] :
       Registers(p, i) /\ ~Program[p][i].once => \E e \in RegisteredOf(p) : e.call = i

Cancellable(p, subscriptions) == \A e \in RegisteredOf(p) : IsHook(e) \/ e \in subscriptions

InCycle(p) ==
  /\ LoadingNow(p) => Halfway(p) /\ Cancellable(p, loader.cleanup)
  /\ ~LoadingNow(p) /\ state[p] # "enabled" => RegisteredOf(p) = {}
  /\ ~LoadingNow(p) /\ state[p] = "enabled" => Complete(p) /\ Cancellable(p, cleanup[p])

\* What was removed is not called again.
Removed == \A e \in live \cap gone : e.plugin \in failed

PluginInv ==
  /\ Typed
  /\ \A p \in Plugin : LoadingNow(p) => \A e \in loader.cleanup : e.plugin = p
  /\ \A p \in Plugin \ failed : InCycle(p)
  /\ Removed /\ RemovedIsNotCalled
  /\ DisabledHasNoHooks

-----------------------------------------------------------------------------
(* Programs and the loader.                                                *)

USE PluginsAssumption, ProgramAssumption

LEMMA ProgramOf ==
  ASSUME NEW x \in Plugin \cup Extension
  PROVE  Len(Program[x]) \in Nat /\ DOMAIN Program[x] = 1 .. Len(Program[x])
  <1>1. Program[x] \in Seq(ApiCalls) OBVIOUS
  <1> QED BY <1>1

LEMMA NothingLoads ==
  ASSUME Loader, Free
  PROVE  \A p : ~LoadingNow(p)
  BY DEF Loader, LoaderType, Free, LoadingNow

LEMMA HeadOfQueue ==
  ASSUME Loader, loader.queue # <<>>
  PROVE  /\ Loading \in Plugin /\ Tail(loader.queue) \in Seq(Plugin)
         /\ \A p : LoadingNow(p) => p = Loading
  BY DEF Loader, LoaderType, Loading, LoadingNow

LEMMA AdvanceFacts ==
  ASSUME Loader, loader.queue # <<>>, Advance
  PROVE  Loader' /\ \A p : ~LoadingNow(p)'
  <1>1. PICK q \in Seq(Plugin) : q = Tail(loader.queue) BY HeadOfQueue
  <1>2. loader' = [loader EXCEPT !.queue = q, !.call = 0] BY <1>1 DEF Advance
  <1>3. loader'.call = 0 /\ loader'.busy = loader.busy BY <1>2 DEF Loader, LoaderType
  <1>4. Loader' BY <1>2, <1>3 DEF Loader, LoaderType
  <1>5. \A p : ~LoadingNow(p)' BY <1>3 DEF LoadingNow
  <1> QED BY <1>4, <1>5

\* A registration stays one.
LEMMA StaysRegistration ==
  ASSUME NEW e, IsRegistration(e), loads \in Nat, loads' \in Nat, loads <= loads'
  PROVE  IsRegistration(e)'
  BY DEF IsRegistration, Registers

LEMMA RegistrationsStay ==
  ASSUME Typed, loads' = loads
  PROVE  \A e : IsRegistration(e) => IsRegistration(e)'
  BY StaysRegistration DEF Typed, Records

\* Where a plugin is in its life does not depend on what others register.
LEMMA OtherPlugin ==
  ASSUME NEW p, InCycle(p), ~LoadingNow(p), ~LoadingNow(p)',
         state'[p] = state[p], cleanup'[p] = cleanup[p],
         \A e : e \in RegisteredOf(p)' <=> e \in RegisteredOf(p)
  PROVE  InCycle(p)'
  <1>1. RegisteredOf(p) = {} => RegisteredOf(p)' = {} OBVIOUS
  <1>2. Complete(p) => Complete(p)' BY DEF Complete
  <1>3. Cancellable(p, cleanup[p]) => Cancellable(p, cleanup[p])' BY DEF Cancellable
  <1> QED BY <1>1, <1>2, <1>3 DEF InCycle

\* A step of the loading moves nothing else.
LEMMA RunsStay ==
  ASSUME Typed, RemovedIsNotCalled, UNCHANGED run, failed \subseteq failed',
         loads' \in Nat, loads <= loads'
  PROVE  Runs' /\ RemovedIsNotCalled'
  <1>1. \A e : IsRegistration(e) => IsRegistration(e)'
    BY StaysRegistration DEF Typed, Records
  <1>2. Runs' BY <1>1 DEF Typed, Runs
  <1>3. RemovedIsNotCalled' BY DEF RemovedIsNotCalled
  <1> QED BY <1>2, <1>3

-----------------------------------------------------------------------------
(* Loading.                                                                *)

LEMMA BootStep ==
  ASSUME PluginInv, NEW service \in Service, Boot(service)
  PROVE  PluginInv'
  <1>1. Typed /\ Free BY DEF PluginInv, Boot
  <1>2. \A p : ~LoadingNow(p) BY <1>1, NothingLoads DEF Typed
  <1>3. loader' = [queue |-> LoadOrder, call |-> 0, cleanup |-> {}, busy |-> TRUE]
    BY DEF Boot, LoadAll
  <1>4. Loader' /\ \A p : ~LoadingNow(p)' BY <1>3 DEF Loader, LoaderType, LoadingNow
  <1>5. UNCHANGED <<cleanup, live, loads, run, gone, failed>> BY DEF Boot
  <1>6. /\ state' \in [Plugin -> States]
        /\ \A p \in Plugin : state'[p] = state[p] \/ (state[p] = "unknown" /\ state'[p] = "discovered")
    BY <1>1 DEF Boot, Add, Typed, Records, States
  <1>7. Records' /\ Registrations'
    <2>1. \A e : IsRegistration(e) => IsRegistration(e)'
      BY <1>1, <1>5, RegistrationsStay
    <2> QED BY <1>1, <1>5, <1>6, <2>1 DEF Typed, Records, Registrations
  <1>8. Runs' /\ RemovedIsNotCalled'
    BY <1>1, <1>5, RunsStay DEF PluginInv, Typed, Records
  <1>9. ASSUME NEW p \in Plugin \ failed' PROVE InCycle(p)'
    <2>1. InCycle(p) BY <1>5 DEF PluginInv
    <2>2. \A e : e \in RegisteredOf(p)' <=> e \in RegisteredOf(p)
      BY <1>5 DEF RegisteredOf
    <2>3. CASE state'[p] = state[p]
      BY <1>2, <1>4, <1>5, <2>1, <2>2, <2>3, OtherPlugin
    <2>4. CASE state[p] = "unknown" /\ state'[p] = "discovered"
      <3>1. RegisteredOf(p)' = {} BY <1>2, <2>1, <2>2, <2>4 DEF InCycle
      <3> QED BY <1>4, <2>4, <3>1 DEF InCycle
    <2> QED BY <1>6, <2>3, <2>4
  <1>10. Removed' BY <1>5 DEF PluginInv, Removed
  <1>11. DisabledHasNoHooks'
    BY <1>2, <1>5, <1>6 DEF PluginInv, DisabledHasNoHooks
  <1> QED BY <1>4, <1>7, <1>8, <1>9, <1>10, <1>11 DEF PluginInv, Typed

LEMMA SkipStep ==
  ASSUME PluginInv, loader.queue # <<>>, loader.call = 0, Advance,
         UNCHANGED <<registry, loads, run, gone, failed>>
  PROVE  PluginInv'
  <1>1. Typed BY DEF PluginInv
  <1>2. \A p : ~LoadingNow(p) BY DEF LoadingNow
  <1>3. Loader' /\ \A p : ~LoadingNow(p)' BY <1>1, AdvanceFacts DEF Typed
  <1>4. UNCHANGED <<state, cleanup, live, loads, run, gone, failed>> BY DEF registry
  <1>5. Records' /\ Registrations'
    <2>1. \A e : IsRegistration(e) => IsRegistration(e)'
      BY <1>1, <1>4, RegistrationsStay
    <2> QED BY <1>1, <1>4, <2>1 DEF Typed, Records, Registrations
  <1>6. Runs' /\ RemovedIsNotCalled'
    BY <1>1, <1>4, RunsStay DEF PluginInv, Typed, Records
  <1>7. ASSUME NEW p \in Plugin \ failed' PROVE InCycle(p)'
    <2>1. InCycle(p) BY <1>4 DEF PluginInv
    <2>2. \A e : e \in RegisteredOf(p)' <=> e \in RegisteredOf(p)
      BY <1>4 DEF RegisteredOf
    <2> QED BY <1>2, <1>3, <1>4, <2>1, <2>2, OtherPlugin
  <1>8. Removed' BY <1>4 DEF PluginInv, Removed
  <1>9. DisabledHasNoHooks' BY <1>2, <1>4 DEF PluginInv, DisabledHasNoHooks
  <1> QED BY <1>3, <1>5, <1>6, <1>7, <1>8, <1>9 DEF PluginInv, Typed

\* A load begins with nothing of the plugin registered, unless it has failed before.
LEMMA BeginLoadStep ==
  ASSUME PluginInv, loader.queue # <<>>, loader.call = 0,
         ~NoRecord(Loading), ~Skip(Loading),
         loads' = loads + 1, loader' = [loader EXCEPT !.call = 1, !.cleanup = {}],
         UNCHANGED <<registry, run, gone, failed>>
  PROVE  PluginInv'
  <1>1. Typed BY DEF PluginInv
  <1>2. \A p : ~LoadingNow(p) BY DEF LoadingNow
  <1>3. PICK one : one = Loading OBVIOUS
  <1>4. one \in Plugin /\ state[one] # "enabled" /\ state[one] # "unknown"
    BY <1>1, <1>3, HeadOfQueue DEF Typed, Skip, NoRecord
  <1>5. /\ Loader' /\ loader'.queue = loader.queue /\ loader'.call = 1 /\ loader'.cleanup = {}
        /\ \A p : LoadingNow(p)' <=> p = one
    <2>1. PICK q \in Seq(Plugin) : q = loader.queue BY <1>1 DEF Typed, Loader, LoaderType
    <2>2. loader'.queue = q /\ loader'.call = 1 /\ loader'.cleanup = {} /\ loader'.busy = loader.busy
      BY <1>1, <2>1 DEF Typed, Loader, LoaderType
    <2>3. Loader' BY <1>1, <2>1, <2>2 DEF Typed, Loader, LoaderType
    <2>4. one = Head(q) /\ q # <<>> BY <1>3, <2>1 DEF Loading
    <2>5. \A p : LoadingNow(p)' <=> p = one BY <2>2, <2>4 DEF LoadingNow, Loading
    <2> QED BY <2>1, <2>2, <2>3, <2>5
  <1>6. UNCHANGED <<state, cleanup, live, run, gone, failed>> BY DEF registry
  <1>7. loads \in Nat /\ loads' \in Nat /\ loads <= loads' BY <1>1 DEF Typed, Records
  <1>8. Records' /\ Registrations'
    <2>1. \A e : IsRegistration(e) => IsRegistration(e)' BY <1>7, StaysRegistration
    <2> QED BY <1>1, <1>6, <1>7, <2>1 DEF Typed, Records, Registrations
  <1>9. Runs' /\ RemovedIsNotCalled' BY <1>1, <1>6, <1>7, RunsStay DEF PluginInv
  <1>10. ASSUME NEW p \in Plugin \ failed' PROVE InCycle(p)'
    <2>1. InCycle(p) BY <1>6 DEF PluginInv
    <2>2. \A e : e \in RegisteredOf(p)' <=> e \in RegisteredOf(p)
      BY <1>6 DEF RegisteredOf
    <2>3. CASE p # one BY <1>2, <1>5, <1>6, <2>1, <2>2, <2>3, OtherPlugin
    <2>4. CASE p = one
      <3>1. RegisteredOf(p)' = {} BY <1>2, <1>4, <2>1, <2>2, <2>4 DEF InCycle
      <3>2. \A e \in gone : e.load < loads'
        BY <1>1, <1>7 DEF Typed, Registrations, IsRegistration
      <3>3. \A i \in DOMAIN Program[p] : ~(i < 1) BY ProgramOf
      <3>4. Halfway(p)' BY <1>4, <1>5, <1>6, <2>4, <3>1, <3>2, <3>3 DEF Halfway
      <3>5. Cancellable(p, loader.cleanup)' BY <3>1 DEF Cancellable
      <3> QED BY <1>5, <2>4, <3>4, <3>5 DEF InCycle
    <2> QED BY <2>3, <2>4
  <1>11. Removed' BY <1>6 DEF PluginInv, Removed
  <1>12. DisabledHasNoHooks' BY <1>2, <1>6 DEF PluginInv, DisabledHasNoHooks
  <1> QED BY <1>5, <1>8, <1>9, <1>10, <1>11, <1>12 DEF PluginInv, Typed

LEMMA LoadNextStep == ASSUME PluginInv, LoadNext PROVE PluginInv'
  <1>1. UNCHANGED <<registry, run, gone, failed>> /\ loader.queue # <<>> /\ loader.call = 0
    BY DEF LoadNext
  <1>2. CASE Advance /\ UNCHANGED loads BY <1>1, <1>2, SkipStep
  <1>3. CASE /\ ~NoRecord(Loading) /\ ~Skip(Loading)
             /\ loads' = loads + 1
             /\ loader' = [loader EXCEPT !.call = 1, !.cleanup = {}]
    BY <1>1, <1>3, BeginLoadStep
  <1> QED BY <1>2, <1>3 DEF LoadNext

\* A call of the plugin API registers at most what the program says, under the
\* number of this load.
LEMMA ApiCallStep == ASSUME PluginInv, ApiCall PROVE PluginInv'
  <1>1. Typed /\ loader.queue # <<>> BY DEF PluginInv, ApiCall
  <1>2. PICK one, c, e : one = Loading /\ c = loader.call /\ e = Entry(one, c, loads) OBVIOUS
  <1>3. /\ one \in Plugin /\ c \in DOMAIN Program[one] /\ c \in Nat /\ c > 0 /\ loads \in Nat
        /\ \A p : LoadingNow(p) <=> p = one
    <2>1. one \in Plugin /\ loads \in Nat BY <1>1, <1>2, HeadOfQueue DEF Typed, Records
    <2>2. c \in DOMAIN Program[one] BY <1>2 DEF ApiCall
    <2>3. c \in Nat /\ c > 0 BY <2>1, <2>2, ProgramOf
    <2> QED BY <1>1, <1>2, <2>1, <2>2, <2>3 DEF LoadingNow
  <1>4. /\ e.plugin = one /\ e.call = c /\ e.load = loads
        /\ e \in [plugin : Plugin, call : Nat, load : Nat]
        /\ Registers(one, c) => IsRegistration(e)
        /\ Registers(one, c) <=> Of(e).kind \in {"event", "hook"}
    <2>1. e = [plugin |-> one, call |-> c, load |-> loads] BY <1>2 DEF Entry
    <2>2. e.plugin = one /\ e.call = c /\ e.load = loads
          /\ e \in [plugin : Plugin, call : Nat, load : Nat]
      BY <1>3, <2>1
    <2>3. Registers(one, c) => IsRegistration(e) BY <1>2, <1>3, <2>2 DEF IsRegistration
    <2>4. Registers(one, c) <=> Of(e).kind \in {"event", "hook"}
      BY <1>3, <2>2 DEF Registers, Of
    <2> QED BY <2>2, <2>3, <2>4
  <1>5. UNCHANGED <<state, cleanup, loads, run, gone, failed>> BY DEF ApiCall
  <1>6. PICK new, u :
          /\ new \subseteq {e} /\ live' = live \cup new
          /\ u = loader.cleanup \cup {x \in new : ~IsHook(x)}
          /\ loader'.queue = loader.queue /\ loader'.call = c + 1 /\ loader'.cleanup = u
          /\ Loader'
          /\ new # {} => Registers(one, c)
          /\ Registers(one, c) /\ new = {} => \E f \in live : SameHandler(e, f)
    <2>1. loader \in LoaderType /\ loader.busy BY <1>1 DEF Typed, Loader, LoaderType
    <2>2. CASE loader' = [loader EXCEPT !.call = loader.call + 1] /\ live' = live
               /\ (Registers(one, c) => \E f \in live : SameHandler(e, f))
      <3>1. /\ loader'.queue = loader.queue /\ loader'.call = c + 1
            /\ loader'.cleanup = loader.cleanup /\ loader'.busy = loader.busy
        BY <1>2, <2>1, <2>2 DEF LoaderType
      <3>2. Loader'
        <4>1. PICK next \in Nat : next = c + 1 BY <1>3
        <4>2. loader' = [loader EXCEPT !.call = next] BY <1>2, <2>2, <4>1
        <4>3. loader' \in LoaderType BY <2>1, <4>2 DEF LoaderType
        <4> QED BY <2>1, <3>1, <4>3 DEF Loader, LoaderType
      <3>3. loader.cleanup = loader.cleanup \cup {x \in {} : ~IsHook(x)} OBVIOUS
      <3> QED BY <2>2, <3>1, <3>2, <3>3
    <2>3. CASE /\ live' = live \cup {e} /\ Registers(one, c)
               /\ loader' = [loader EXCEPT !.call = loader.call + 1,
                               !.cleanup = loader.cleanup \cup (IF IsHook(e) THEN {} ELSE {e})]
      <3>1. PICK u : u = loader.cleanup \cup {x \in {e} : ~IsHook(x)} OBVIOUS
      <3>2. u = loader.cleanup \cup (IF IsHook(e) THEN {} ELSE {e}) BY <3>1
      <3>3. u \in SUBSET [plugin : Plugin, call : Nat, load : Nat] BY <1>4, <2>1, <3>1 DEF LoaderType
      <3>4. loader' = [loader EXCEPT !.call = c + 1, !.cleanup = u] BY <1>2, <2>3, <3>2
      <3>5. /\ loader'.queue = loader.queue /\ loader'.call = c + 1
            /\ loader'.cleanup = u /\ loader'.busy = loader.busy
        BY <2>1, <3>4 DEF LoaderType
      <3>6. Loader'
        <4>1. PICK next \in Nat : next = c + 1 BY <1>3
        <4>2. loader' = [loader EXCEPT !.call = next, !.cleanup = u] BY <3>4, <4>1
        <4>3. loader' \in LoaderType BY <2>1, <3>3, <4>2 DEF LoaderType
        <4> QED BY <2>1, <3>5, <4>3 DEF Loader, LoaderType
      <3> QED BY <2>3, <3>1, <3>5, <3>6
    <2>4. \/ Of(e).kind \in {"event", "hook"} /\ Subscribe(e)
          \/ Of(e).kind = "content" /\ loader' = [loader EXCEPT !.call = loader.call + 1] /\ live' = live
      BY <1>2 DEF ApiCall
    <2>5. CASE Of(e).kind = "content" /\ loader' = [loader EXCEPT !.call = loader.call + 1] /\ live' = live
      BY <1>4, <2>2, <2>5
    <2>6. CASE Of(e).kind \in {"event", "hook"} /\ Subscribe(e)
      BY <1>4, <2>2, <2>3, <2>6 DEF Subscribe
    <2> QED BY <2>4, <2>5, <2>6
  <1>7. \A p : LoadingNow(p)' <=> p = one
    BY <1>1, <1>2, <1>3, <1>6 DEF LoadingNow, Loading
  <1>8. ASSUME one \notin failed
        PROVE  Halfway(one) /\ Cancellable(one, loader.cleanup) /\ e \notin gone
               /\ (Registers(one, c) => new = {e})
    <2>1. InCycle(one) BY <1>3, <1>8 DEF PluginInv
    <2>2. Halfway(one) /\ Cancellable(one, loader.cleanup) BY <1>3, <2>1 DEF InCycle
    <2>3. e \notin gone
      <3>1. \A x \in gone : x.plugin = one => x.load < loads BY <2>2 DEF Halfway
      <3>2. ~(loads < loads) BY <1>3
      <3> QED BY <1>4, <3>1, <3>2
    <2>4. ASSUME NEW f \in live PROVE ~SameHandler(e, f)
      <3>1. f.plugin = one => f.call < c BY <1>2, <2>2, <2>4 DEF Halfway, RegisteredOf
      <3> QED BY <1>3, <1>4, <3>1 DEF SameHandler
    <2> QED BY <1>6, <2>2, <2>3, <2>4
  <1>9. Records' /\ Registrations'
    <2>1. \A x : IsRegistration(x) => IsRegistration(x)' BY <1>1, <1>5, RegistrationsStay
    <2>2. \A x \in live' : IsRegistration(x)
      BY <1>1, <1>4, <1>6 DEF Typed, Registrations
    <2> QED BY <1>1, <1>5, <2>1, <2>2 DEF Typed, Records, Registrations
  <1>10. Runs' /\ RemovedIsNotCalled'
    BY <1>1, <1>5, RunsStay DEF PluginInv, Typed, Records
  <1>11. \A p \in Plugin : LoadingNow(p)' => \A x \in loader'.cleanup : x.plugin = p
    BY <1>3, <1>4, <1>6, <1>7 DEF PluginInv
  <1>12. ASSUME NEW p \in Plugin \ failed' PROVE InCycle(p)'
    <2>1. InCycle(p) BY <1>5 DEF PluginInv
    <2>2. CASE p # one
      <3>1. \A x : x \in RegisteredOf(p)' <=> x \in RegisteredOf(p)
        BY <1>4, <1>6, <2>2 DEF RegisteredOf
      <3> QED BY <1>3, <1>5, <1>7, <2>1, <2>2, <3>1, OtherPlugin
    <2>3. CASE p = one
      <3>1. /\ Halfway(p) /\ Cancellable(p, loader.cleanup)
            /\ (Registers(one, c) => new = {e})
        BY <1>5, <1>8, <2>3
      <3>2. \A x \in RegisteredOf(p)' : x \in RegisteredOf(p) \/ (x \in new /\ x = e)
        BY <1>6 DEF RegisteredOf
      <3>3. \A x \in RegisteredOf(p)' : x.load = loads' /\ x.call < loader'.call
        <4>1. ASSUME NEW x \in RegisteredOf(p)' PROVE x.load = loads' /\ x.call < loader'.call
          <5>1. CASE x = e BY <1>3, <1>4, <1>5, <1>6, <5>1
          <5>2. CASE x \in RegisteredOf(p)
            <6>1. x.load = loads /\ x.call < c BY <1>2, <3>1, <5>2 DEF Halfway
            <6>2. IsRegistration(x) BY <1>1, <5>2 DEF Typed, Registrations, RegisteredOf
            <6>3. x.plugin \in Plugin \cup Extension /\ x.call \in DOMAIN Program[x.plugin]
              BY <6>2 DEF IsRegistration, Registers
            <6>4. x.call \in Nat BY <6>3, ProgramOf
            <6> QED BY <1>3, <1>5, <1>6, <6>1, <6>4
          <5> QED BY <3>2, <5>1, <5>2
        <4> QED BY <4>1
      <3>4. ASSUME NEW i \in DOMAIN Program[p], Registers(p, i), i < c + 1
            PROVE  Entry(p, i, loads) \in live'
        <4>1. i \in Nat BY ProgramOf
        <4>2. CASE i = c BY <1>2, <1>6, <2>3, <3>1, <3>4, <4>2
        <4>3. CASE i # c
          <5>1. i < c BY <1>3, <3>4, <4>1, <4>3
          <5> QED BY <1>2, <1>6, <3>1, <3>4, <5>1 DEF Halfway
        <4> QED BY <4>2, <4>3
      <3>5. state'[p] # "enabled" /\ \A x \in gone' : x.plugin = p => x.load < loads'
        BY <1>5, <3>1 DEF Halfway
      <3>6. Halfway(p)' BY <1>5, <1>6, <3>3, <3>4, <3>5 DEF Halfway, Registers
      <3>7. Cancellable(p, loader.cleanup)'
        BY <1>6, <3>1, <3>2 DEF Cancellable
      <3> QED BY <1>7, <2>3, <3>6, <3>7 DEF InCycle
    <2> QED BY <2>2, <2>3
  <1>13. Removed' BY <1>4, <1>5, <1>6, <1>8 DEF PluginInv, Removed
  <1>14. DisabledHasNoHooks'
    <2>1. ASSUME NEW p \in Plugin, p # one, NEW x \in live', x.plugin = p PROVE x \in live
      BY <1>4, <1>6, <2>1
    <2> QED BY <1>3, <1>5, <1>7, <2>1 DEF PluginInv, DisabledHasNoHooks
  <1> QED BY <1>6, <1>9, <1>10, <1>11, <1>12, <1>13, <1>14 DEF PluginInv, Typed

LEMMA LoadFailsStep == ASSUME PluginInv, LoadFails PROVE PluginInv'
  <1>1. Typed /\ loader.queue # <<>> /\ loader.call > 0 /\ Advance
    BY DEF PluginInv, LoadFails
  <1>2. PICK one : one = Loading OBVIOUS
  <1>3. one \in Plugin /\ \A p : LoadingNow(p) <=> p = one
    BY <1>1, <1>2, HeadOfQueue DEF Typed, LoadingNow
  <1>4. Loader' /\ \A p : ~LoadingNow(p)' BY <1>1, AdvanceFacts DEF Typed
  <1>5. /\ UNCHANGED <<cleanup, live, loads, run, gone>>
        /\ state' = [state EXCEPT ![one] = "errored"] /\ failed' = failed \cup {one}
    BY <1>2 DEF LoadFails
  <1>6. Records' /\ Registrations'
    <2>1. \A x : IsRegistration(x) => IsRegistration(x)' BY <1>1, <1>5, RegistrationsStay
    <2> QED BY <1>1, <1>3, <1>5, <2>1 DEF Typed, Records, Registrations, States
  <1>7. Runs' /\ RemovedIsNotCalled'
    BY <1>1, <1>5, RunsStay DEF PluginInv, Typed, Records
  <1>8. ASSUME NEW p \in Plugin \ failed' PROVE InCycle(p)'
    <2>1. InCycle(p) /\ p # one BY <1>5 DEF PluginInv
    <2>2. \A x : x \in RegisteredOf(p)' <=> x \in RegisteredOf(p)
      BY <1>5 DEF RegisteredOf
    <2>3. state'[p] = state[p] BY <1>1, <1>5, <2>1 DEF Typed, Records
    <2> QED BY <1>3, <1>4, <1>5, <2>1, <2>2, <2>3, OtherPlugin
  <1>9. Removed' BY <1>5 DEF PluginInv, Removed
  <1>10. DisabledHasNoHooks'
    <2>1. \A p \in Plugin : state'[p] = "disabled" => p # one /\ state[p] = "disabled"
      BY <1>1, <1>3, <1>5 DEF Typed, Records
    <2> QED BY <1>3, <1>5, <2>1 DEF PluginInv, DisabledHasNoHooks
  <1> QED BY <1>4, <1>6, <1>7, <1>8, <1>9, <1>10 DEF PluginInv, Typed

\* At the end of its program the plugin has registered all of it.
LEMMA EnableStep == ASSUME PluginInv, Enable PROVE PluginInv'
  <1>1. Typed /\ loader.queue # <<>> /\ Advance BY DEF PluginInv, Enable
  <1>2. PICK one, u : one = Loading /\ u = loader.cleanup OBVIOUS
  <1>3. /\ one \in Plugin /\ loader.call = Len(Program[one]) + 1
        /\ \A p : LoadingNow(p) <=> p = one
    <2>1. one \in Plugin /\ loader.call = Len(Program[one]) + 1
      BY <1>1, <1>2, HeadOfQueue DEF Typed, Enable
    <2>2. loader.call > 0 BY <2>1, ProgramOf
    <2> QED BY <1>1, <1>2, <2>1, <2>2 DEF LoadingNow
  <1>4. Loader' /\ \A p : ~LoadingNow(p)' BY <1>1, AdvanceFacts DEF Typed
  <1>5. /\ UNCHANGED <<live, loads, run, gone, failed>>
        /\ state' = [state EXCEPT ![one] = "enabled"]
        /\ cleanup' = [cleanup EXCEPT ![one] = u]
    BY <1>2 DEF Enable
  <1>6. /\ state'[one] = "enabled" /\ cleanup'[one] = u
        /\ \A p \in Plugin \ {one} : state'[p] = state[p] /\ cleanup'[p] = cleanup[p]
    BY <1>1, <1>3, <1>5 DEF Typed, Records
  <1>7. Records' /\ Registrations'
    <2>1. \A x : IsRegistration(x) => IsRegistration(x)' BY <1>1, <1>5, RegistrationsStay
    <2>2. \A x \in u : x.plugin = one BY <1>2, <1>3 DEF PluginInv
    <2>3. \A p \in Plugin : \A x \in cleanup'[p] : x.plugin = p
      BY <1>1, <1>6, <2>2 DEF Typed, Records
    <2>4. state' \in [Plugin -> States] BY <1>1, <1>5 DEF Typed, Records, States
    <2> QED BY <1>1, <1>5, <2>1, <2>3, <2>4 DEF Typed, Records, Registrations
  <1>8. Runs' /\ RemovedIsNotCalled'
    BY <1>1, <1>5, RunsStay DEF PluginInv, Typed, Records
  <1>9. ASSUME NEW p \in Plugin \ failed' PROVE InCycle(p)'
    <2>1. InCycle(p) BY <1>5 DEF PluginInv
    <2>2. \A x : x \in RegisteredOf(p)' <=> x \in RegisteredOf(p)
      BY <1>5 DEF RegisteredOf
    <2>3. CASE p # one BY <1>3, <1>4, <1>6, <2>1, <2>2, <2>3, OtherPlugin
    <2>4. CASE p = one
      <3>1. Halfway(p) /\ Cancellable(p, u) BY <1>2, <1>3, <2>1, <2>4 DEF InCycle
      <3>2. \A x, y \in RegisteredOf(p) : x.call = y.call => x = y
        BY <1>1, <3>1 DEF Typed, Registrations, IsRegistration, Halfway, RegisteredOf
      <3>3. ASSUME NEW i \in DOMAIN Program[p], Registers(p, i)
            PROVE  \E x \in RegisteredOf(p) : x.call = i
        <4>1. i < loader.call BY <1>3, <2>4, ProgramOf
        <4>2. Entry(p, i, loads) \in live BY <3>1, <3>3, <4>1 DEF Halfway
        <4>3. Entry(p, i, loads).plugin = p /\ Entry(p, i, loads).call = i BY DEF Entry
        <4> QED BY <4>2, <4>3 DEF RegisteredOf
      <3>4. Complete(p)' BY <2>2, <3>2, <3>3 DEF Complete, Registers
      <3>5. Cancellable(p, cleanup[p])' BY <1>6, <2>2, <2>4, <3>1 DEF Cancellable
      <3> QED BY <1>4, <1>6, <2>4, <3>4, <3>5 DEF InCycle
    <2> QED BY <2>3, <2>4
  <1>10. Removed' BY <1>5 DEF PluginInv, Removed
  <1>11. DisabledHasNoHooks'
    <2>1. \A p \in Plugin : state'[p] = "disabled" => p # one /\ state[p] = "disabled"
      BY <1>6
    <2> QED BY <1>3, <1>5, <2>1 DEF PluginInv, DisabledHasNoHooks
  <1> QED BY <1>4, <1>7, <1>8, <1>9, <1>10, <1>11 DEF PluginInv, Typed

LEMMA FinishStep == ASSUME PluginInv, Finish PROVE PluginInv'
  <1>1. Typed /\ loader.queue = <<>> BY DEF PluginInv, Finish
  <1>2. \A p : ~LoadingNow(p) BY <1>1 DEF LoadingNow
  <1>3. Loader' /\ \A p : ~LoadingNow(p)' BY DEF Finish, NotLoading, Loader, LoaderType, LoadingNow
  <1>4. UNCHANGED <<state, cleanup, live, loads, run, gone, failed>> BY DEF Finish, registry
  <1>5. Records' /\ Registrations'
    <2>1. \A x : IsRegistration(x) => IsRegistration(x)' BY <1>1, <1>4, RegistrationsStay
    <2> QED BY <1>1, <1>4, <2>1 DEF Typed, Records, Registrations
  <1>6. Runs' /\ RemovedIsNotCalled'
    BY <1>1, <1>4, RunsStay DEF PluginInv, Typed, Records
  <1>7. ASSUME NEW p \in Plugin \ failed' PROVE InCycle(p)'
    <2>1. InCycle(p) BY <1>4 DEF PluginInv
    <2>2. \A x : x \in RegisteredOf(p)' <=> x \in RegisteredOf(p)
      BY <1>4 DEF RegisteredOf
    <2> QED BY <1>2, <1>3, <1>4, <2>1, <2>2, OtherPlugin
  <1>8. Removed' BY <1>4 DEF PluginInv, Removed
  <1>9. DisabledHasNoHooks' BY <1>2, <1>4 DEF PluginInv, DisabledHasNoHooks
  <1> QED BY <1>3, <1>5, <1>6, <1>7, <1>8, <1>9 DEF PluginInv, Typed

-----------------------------------------------------------------------------
(* Administration.                                                         *)

LEMMA UnloadStep ==
  ASSUME PluginInv, Free, NEW one \in Plugin, Unload(one),
         state' \in [Plugin -> States], state'[one] # "enabled",
         \A p \in Plugin \ {one} : state'[p] = state[p],
         state'[one] = "disabled" => state[one] \in {"enabled", "disabled"},
         Loader', \A p : ~LoadingNow(p)', UNCHANGED <<loads, run, failed>>
  PROVE  PluginInv'
  <1>1. Typed /\ \A p : ~LoadingNow(p) BY NothingLoads DEF PluginInv, Typed
  <1>2. PICK taken : taken = IF state[one] = "enabled" THEN RegisteredOf(one) ELSE {} OBVIOUS
  <1>3. /\ gone' = gone \cup taken /\ live' \subseteq live
        /\ \A e \in live : e.plugin # one => e \in live'
        /\ cleanup' = [p \in Plugin |-> cleanup'[p]]
        /\ \A p \in Plugin : cleanup'[p] \subseteq cleanup[p]
        /\ \A p \in Plugin \ {one} : cleanup'[p] = cleanup[p]
        /\ state[one] = "enabled" => live' = Without(one)
        /\ state[one] # "enabled" => live' = live
    <2>1. /\ cleanup = [p \in Plugin |-> cleanup[p]]
          /\ \A p \in Plugin : \A e \in cleanup[p] : e.plugin = p
      BY <1>1 DEF Typed, Records
    <2>2. CASE state[one] = "enabled"
      <3>1. /\ live' = Without(one) /\ cleanup' = [cleanup EXCEPT ![one] = {}]
            /\ gone' = gone \cup taken
        BY <1>2, <2>2 DEF Unload, RegisteredOf
      <3>2. \A e \in live : e.plugin # one => e \in live' BY <2>1, <3>1 DEF Without
      <3>3. live' \subseteq live BY <3>1 DEF Without
      <3> QED BY <2>1, <2>2, <3>1, <3>2, <3>3
    <2>3. CASE state[one] # "enabled" BY <1>2, <2>1, <2>3 DEF Unload
    <2> QED BY <2>2, <2>3
  <1>4. taken \subseteq live /\ \A e \in taken : e.plugin = one BY <1>2 DEF RegisteredOf
  <1>5. Records' /\ Registrations'
    <2>1. \A e : IsRegistration(e) => IsRegistration(e)' BY <1>1, RegistrationsStay
    <2>2. Records' BY <1>1, <1>3 DEF Typed, Records
    <2> QED BY <1>1, <1>3, <1>4, <2>1, <2>2 DEF Typed, Registrations
  <1>6. Runs' /\ RemovedIsNotCalled' BY <1>1, RunsStay DEF PluginInv, Typed, Records
  <1>7. one \notin failed => RegisteredOf(one)' = {}
    <2> SUFFICES ASSUME one \notin failed PROVE RegisteredOf(one)' = {} OBVIOUS
    <2>1. InCycle(one) BY DEF PluginInv
    <2>2. CASE state[one] = "enabled"
      <3>1. Cancellable(one, cleanup[one]) BY <1>1, <2>1, <2>2 DEF InCycle
      <3> QED BY <1>3, <2>2, <3>1 DEF Cancellable, Without, RegisteredOf
    <2>3. CASE state[one] # "enabled"
      <3>1. RegisteredOf(one) = {} BY <1>1, <2>1, <2>3 DEF InCycle
      <3> QED BY <1>3, <2>3, <3>1 DEF RegisteredOf
    <2> QED BY <2>2, <2>3
  <1>8. ASSUME NEW p \in Plugin \ failed' PROVE InCycle(p)'
    <2>1. CASE p = one BY <1>7, <1>8, <2>1 DEF InCycle
    <2>2. CASE p # one
      <3>1. InCycle(p) BY <1>8 DEF PluginInv
      <3>2. \A e : e \in RegisteredOf(p)' <=> e \in RegisteredOf(p)
        BY <1>3, <2>2 DEF RegisteredOf
      <3>3. state'[p] = state[p] /\ cleanup'[p] = cleanup[p] BY <1>3, <2>2
      <3> QED BY <1>1, <3>1, <3>2, <3>3, OtherPlugin
    <2> QED BY <2>1, <2>2
  <1>9. Removed'
    <2>1. ASSUME NEW e \in live', e \in taken, e.plugin \notin failed PROVE FALSE
      BY <1>4, <1>7, <2>1 DEF RegisteredOf
    <2> QED BY <1>3, <2>1 DEF PluginInv, Removed
  <1>10. DisabledHasNoHooks'
    <2>1. ASSUME NEW p \in Plugin, state'[p] = "disabled", NEW e \in live', e.plugin = p
          PROVE  ~IsHook(e)
      <3>1. CASE state[p] = "disabled" BY <1>1, <1>3, <2>1, <3>1 DEF PluginInv, DisabledHasNoHooks
      <3>2. CASE state[p] # "disabled"
        <4>1. p = one /\ state[one] = "enabled" BY <2>1, <3>2
        <4> QED BY <1>3, <2>1, <4>1 DEF Without
      <3> QED BY <3>1, <3>2
    <2> QED BY <2>1 DEF DisabledHasNoHooks, IsHook, Of
  <1> QED BY <1>5, <1>6, <1>8, <1>9, <1>10 DEF PluginInv, Typed

LEMMA DisableStep == ASSUME PluginInv, NEW p \in Plugin, Disable(p) PROVE PluginInv'
  <1>1. Typed /\ Free /\ UNCHANGED <<loader, loads, run, failed>> /\ Unload(p)
    BY DEF PluginInv, Disable
  <1>2. Loader' BY <1>1 DEF Typed, Loader, LoaderType
  <1>3. \A x : ~LoadingNow(x)'
    <2>1. \A x : ~LoadingNow(x) BY <1>1, NothingLoads DEF Typed
    <2> QED BY <1>1, <2>1 DEF LoadingNow, Loading
  <1>4. /\ state' \in [Plugin -> States] /\ state'[p] # "enabled"
        /\ \A x \in Plugin \ {p} : state'[x] = state[x]
        /\ state'[p] = "disabled" => state[p] \in {"enabled", "disabled"}
    BY <1>1 DEF Disable, Typed, Records, States
  <1> QED BY <1>1, <1>2, <1>3, <1>4, UnloadStep

LEMMA ReloadStep == ASSUME PluginInv, NEW p \in Plugin, Reload(p) PROVE PluginInv'
  <1>1. Typed /\ Free /\ UNCHANGED <<loads, run, failed>> /\ Unload(p)
    BY DEF PluginInv, Reload
  <1>2. loader' = [queue |-> LoadOrder, call |-> 0, cleanup |-> {}, busy |-> TRUE]
    BY DEF Reload, LoadAll
  <1>3. Loader' /\ \A x : ~LoadingNow(x)' BY <1>2 DEF Loader, LoaderType, LoadingNow
  <1>4. /\ state' \in [Plugin -> States] /\ state'[p] = "discovered"
        /\ \A x \in Plugin \ {p} : state'[x] = state[x]
    BY <1>1 DEF Reload, Typed, Records, States
  <1> QED BY <1>1, <1>3, <1>4, UnloadStep

-----------------------------------------------------------------------------
(* Publications and invocations.                                           *)

\* While nothing is registered or removed, only the runs can go wrong.
LEMMA RegistryStays ==
  ASSUME PluginInv, UNCHANGED <<registry, loader, loads, gone, failed>>,
         Runs', RemovedIsNotCalled'
  PROVE  PluginInv'
  <1>1. Typed /\ UNCHANGED <<state, cleanup, live, loader, loads, gone, failed>>
    BY DEF PluginInv, registry
  <1>2. Loader' /\ \A p : LoadingNow(p)' <=> LoadingNow(p)
    BY <1>1 DEF Typed, Loader, LoaderType, LoadingNow, Loading
  <1>3. \A e : IsRegistration(e) => IsRegistration(e)' BY <1>1, RegistrationsStay
  <1>4. Records' /\ Registrations' BY <1>1, <1>3 DEF Typed, Records, Registrations
  <1>5. ASSUME NEW p \in Plugin \ failed' PROVE InCycle(p)'
    <2>1. InCycle(p) BY <1>1 DEF PluginInv
    <2>2. \A e : e \in RegisteredOf(p)' <=> e \in RegisteredOf(p) BY <1>1 DEF RegisteredOf
    <2>3. RegisteredOf(p)' = RegisteredOf(p) BY <2>2
    <2>4. Halfway(p) => Halfway(p)' BY <1>1, <2>3 DEF Halfway, Registers
    <2>5. Complete(p) => Complete(p)' BY <2>3 DEF Complete, Registers
    <2> QED BY <1>1, <1>2, <2>1, <2>3, <2>4, <2>5 DEF InCycle, Cancellable, IsHook, Of
  <1>6. Removed' BY <1>1 DEF PluginInv, Removed
  <1>7. DisabledHasNoHooks'
    BY <1>1, <1>2 DEF PluginInv, DisabledHasNoHooks, IsHook, Of
  <1>8. \A p \in Plugin : LoadingNow(p)' => \A e \in loader'.cleanup : e.plugin = p
    BY <1>1, <1>2 DEF PluginInv
  <1> QED BY <1>2, <1>4, <1>5, <1>6, <1>7, <1>8 DEF PluginInv, Typed

\* A run whose handlers are registrations, and stale only if their plugin failed.
LEMMA RunChanges ==
  ASSUME Typed, RemovedIsNotCalled, NEW r \in Run, NEW new,
         run' = [run EXCEPT ![r] = new], UNCHANGED <<loads, failed>>,
         \A e \in new.todo : IsRegistration(e), new.at = "in" => IsRegistration(new.now),
         \A e \in new.stale : e.plugin \in failed
  PROVE  Runs' /\ RemovedIsNotCalled'
  <1>1. \A e : IsRegistration(e) => IsRegistration(e)' BY RegistrationsStay
  <1>2. run = [x \in Run |-> run[x]]
        /\ \A x \in Run : /\ \A e \in run[x].todo : IsRegistration(e)
                          /\ run[x].at = "in" => IsRegistration(run[x].now)
    BY DEF Typed, Runs
  <1>3. run' = [x \in Run |-> run'[x]] /\ run'[r] = new /\ \A x \in Run \ {r} : run'[x] = run[x]
    BY <1>2
  <1>4. ASSUME NEW x \in Run
        PROVE  /\ \A e \in run[x]'.todo : IsRegistration(e)
               /\ run[x]'.at = "in" => IsRegistration(run[x]'.now)
               /\ \A e \in run[x]'.stale : e.plugin \in failed
    <2>1. CASE x = r BY <1>3, <2>1 DEF IsRegistration, Registers
    <2>2. CASE x # r BY <1>2, <1>3, <2>2 DEF RemovedIsNotCalled, IsRegistration, Registers
    <2> QED BY <2>1, <2>2
  <1>5. Runs'
    <2>1. \A x \in Run : \A e \in run[x]'.todo : IsRegistration(e)' BY <1>1, <1>4
    <2>2. \A x \in Run : run[x]'.at = "in" => IsRegistration(run[x].now)'
      BY <1>4 DEF IsRegistration, Registers
    <2> QED BY <1>3, <2>1, <2>2 DEF Runs
  <1>6. RemovedIsNotCalled' BY <1>4 DEF RemovedIsNotCalled
  <1> QED BY <1>5, <1>6

\* What a run finds is in the lists, so what of it was removed is a failed plugin's.
LEMMA PublishStep ==
  ASSUME PluginInv, NEW r \in Run, NEW topic, Publish(r, topic)
  PROVE  PluginInv'
  <1>1. /\ UNCHANGED <<registry, loader, loads, gone, failed>> /\ Typed /\ RemovedIsNotCalled
        /\ Removed
    BY DEF PluginInv, Publish
  <1>2. PICK new : new = [at |-> "next", todo |-> Targets(topic), stale |-> Targets(topic) \cap gone]
    OBVIOUS
  <1>3. run' = [run EXCEPT ![r] = new] BY <1>2 DEF Publish
  <1>4. Targets(topic) \subseteq live BY DEF Targets
  <1>5. /\ \A e \in new.todo : IsRegistration(e) /\ new.at # "in"
        /\ \A e \in new.stale : e.plugin \in failed
    BY <1>1, <1>2, <1>4 DEF Typed, Registrations, Removed
  <1>6. new.at # "in" BY <1>2
  <1>7. Runs' /\ RemovedIsNotCalled' BY <1>1, <1>3, <1>5, <1>6, RunChanges
  <1> QED BY <1>1, <1>7, RegistryStays

LEMMA CallStep == ASSUME PluginInv, NEW r \in Run, Call(r) PROVE PluginInv'
  <1>1. /\ UNCHANGED <<registry, loader, loads, gone, failed>> /\ Typed /\ RemovedIsNotCalled
    BY DEF PluginInv, Call
  <1>2. PICK e \in run[r].todo :
          run' = [run EXCEPT ![r] = [at |-> "in", now |-> e, todo |-> run[r].todo \ {e},
                                      stale |-> run[r].stale]]
    BY DEF Call
  <1>3. PICK new : new = [at |-> "in", now |-> e, todo |-> run[r].todo \ {e},
                          stale |-> run[r].stale]
    OBVIOUS
  <1>4. /\ \A x \in new.todo : IsRegistration(x)
        /\ IsRegistration(new.now) /\ \A x \in new.stale : x.plugin \in failed
    BY <1>1, <1>3 DEF Typed, Runs, RemovedIsNotCalled
  <1>5. Runs' /\ RemovedIsNotCalled' BY <1>1, <1>2, <1>3, <1>4, RunChanges
  <1> QED BY <1>1, <1>5, RegistryStays

LEMMA EndRunStep == ASSUME PluginInv, NEW r \in Run, EndRun(r) PROVE PluginInv'
  <1>1. /\ UNCHANGED <<registry, loader, loads, gone, failed>> /\ Typed /\ RemovedIsNotCalled
        /\ run' = [run EXCEPT ![r] = NotRunning]
    BY DEF PluginInv, EndRun
  <1>2. NotRunning.at # "in" /\ NotRunning.todo = {} /\ NotRunning.stale = {} BY DEF NotRunning
  <1>3. Runs' /\ RemovedIsNotCalled' BY <1>1, <1>2, RunChanges
  <1> QED BY <1>1, <1>3, RegistryStays

\* A once-subscription that has fired is dropped; a subscription of another kind,
\* and a hook, is not.
LEMMA ReturnStep == ASSUME PluginInv, NEW r \in Run, Return(r) PROVE PluginInv'
  <1>1. /\ Typed /\ RemovedIsNotCalled /\ Free /\ run[r].at = "in"
        /\ UNCHANGED <<state, cleanup, loader, loads, failed>>
    BY DEF PluginInv, Return
  <1>2. PICK fired : fired = run[r].now OBVIOUS
  <1>3. IsRegistration(fired) /\ DropOnce(fired)
    BY <1>1, <1>2 DEF Typed, Runs, Return
  <1>4. PICK new : /\ new.todo = run[r].todo /\ new.stale = run[r].stale /\ new.at = "next"
                   /\ run' = [run EXCEPT ![r] = new]
    <2>1. PICK ok \in BOOLEAN :
            run' = [run EXCEPT ![r] = [at |-> AfterHandler(ok), todo |-> run[r].todo,
                                        stale |-> run[r].stale]]
      BY DEF Return
    <2> QED BY <2>1 DEF AfterHandler
  <1>5. Runs' /\ RemovedIsNotCalled'
    <2>1. /\ \A e \in new.todo : IsRegistration(e)
          /\ new.at # "in" /\ \A e \in new.stale : e.plugin \in failed
      BY <1>1, <1>4 DEF Typed, Runs, RemovedIsNotCalled
    <2> QED BY <1>1, <1>4, <2>1, RunChanges
  <1>6. CASE ~Of(fired).once
    <2>1. UNCHANGED <<live, gone>> BY <1>3, <1>6 DEF DropOnce
    <2> QED BY <1>1, <1>5, <2>1, RegistryStays DEF registry
  <1>7. CASE Of(fired).once
    <2>1. /\ Equals(fired) \subseteq live
          /\ \A e \in Equals(fired) : e.plugin = fired.plugin /\ e.call = fired.call
          /\ live' = live \ Equals(fired) /\ gone' = gone \cup {fired} \cup Equals(fired)
      BY <1>3, <1>7 DEF DropOnce, Equals, SameHandler
    <2>2. fired.plugin \in Plugin
      BY <1>3, <1>7 DEF IsRegistration, Registers, Of
    <2>3. Loader' /\ \A p : ~LoadingNow(p) /\ ~LoadingNow(p)'
      <3>1. \A p : ~LoadingNow(p) BY <1>1, NothingLoads DEF Typed
      <3> QED BY <1>1, <3>1 DEF Typed, Loader, LoaderType, LoadingNow, Loading
    <2>4. Records' /\ Registrations'
      <3>1. \A e : IsRegistration(e) => IsRegistration(e)' BY <1>1, RegistrationsStay
      <3> QED BY <1>1, <1>3, <2>1, <2>2, <3>1 DEF Typed, Records, Registrations
    <2>5. ASSUME NEW p \in Plugin \ failed' PROVE InCycle(p)'
      <3>1. InCycle(p) BY <1>1, <2>5 DEF PluginInv
      <3>2. \A e : e \in RegisteredOf(p)' <=> e \in RegisteredOf(p) /\ e \notin Equals(fired)
        BY <2>1 DEF RegisteredOf
      <3>3. CASE state[p] # "enabled"
        <4>1. RegisteredOf(p)' = {} BY <2>3, <3>1, <3>2, <3>3 DEF InCycle
        <4> QED BY <1>1, <2>3, <3>3, <4>1 DEF InCycle
      <3>4. CASE state[p] = "enabled"
        <4>1. Complete(p) /\ Cancellable(p, cleanup[p]) BY <2>3, <3>1, <3>4 DEF InCycle
        <4>2. ASSUME NEW i \in DOMAIN Program[p], Registers(p, i), ~Program[p][i].once
              PROVE  \E e \in RegisteredOf(p)' : e.call = i
          <5>1. PICK e \in RegisteredOf(p) : e.call = i BY <4>1, <4>2 DEF Complete
          <5>2. e.plugin = p BY DEF RegisteredOf
          <5>3. e \notin Equals(fired) BY <1>7, <2>1, <4>2, <5>1, <5>2 DEF Of
          <5> QED BY <3>2, <5>1, <5>3
        <4>3. Complete(p)' BY <3>2, <4>1, <4>2 DEF Complete, Registers
        <4>4. Cancellable(p, cleanup[p])' BY <1>1, <3>2, <4>1 DEF Cancellable, IsHook, Of
        <4> QED BY <1>1, <2>3, <3>4, <4>3, <4>4 DEF InCycle
      <3> QED BY <3>3, <3>4
    <2>6. Removed'
      <3>1. fired \in live => fired \in Equals(fired) BY DEF Equals, SameHandler
      <3>2. ASSUME NEW e \in live', e \in gone' PROVE e \in live /\ e \in gone
        BY <2>1, <3>1, <3>2
      <3> QED BY <1>1, <3>2 DEF PluginInv, Removed
    <2>7. DisabledHasNoHooks'
      BY <1>1, <2>1, <2>3 DEF PluginInv, DisabledHasNoHooks, IsHook, Of
    <2> QED BY <1>5, <2>3, <2>4, <2>5, <2>6, <2>7 DEF PluginInv, Typed
  <1> QED BY <1>6, <1>7

-----------------------------------------------------------------------------
(* The theorems.                                                           *)

LEMMA InitStep == PluginInit => PluginInv
  <1> SUFFICES ASSUME PluginInit PROVE PluginInv OBVIOUS
  <1>1. /\ state = [p \in Plugin |-> "unknown"] /\ cleanup = [p \in Plugin |-> {}]
        /\ loads = 0 /\ gone = {} /\ failed = {} /\ loader = NotLoading
        /\ run = [r \in Run |-> NotRunning]
    BY DEF PluginInit
  <1>2. ASSUME NEW e \in live PROVE IsRegistration(e) /\ e.plugin \in Extension
    <2>1. PICK x \in Extension : \E i \in DOMAIN Program[x] : e = Entry(x, i, 0) BY DEF PluginInit
    <2>2. PICK i \in DOMAIN Program[x] : e = Entry(x, i, 0) BY <2>1
    <2>3. e.plugin = x /\ e.call = i /\ e.load = 0 BY <2>2 DEF Entry
    <2>4. Registers(x, i) BY DEF Registers
    <2> QED BY <1>1, <2>2, <2>3, <2>4 DEF IsRegistration
  <1>3. Records /\ Registrations BY <1>1, <1>2 DEF Records, Registrations, States
  <1>4. Loader /\ \A p : ~LoadingNow(p) BY <1>1 DEF Loader, LoaderType, LoadingNow, NotLoading
  <1>5. Runs /\ RemovedIsNotCalled BY <1>1 DEF Runs, RemovedIsNotCalled, NotRunning
  <1>6. \A p \in Plugin : RegisteredOf(p) = {} BY <1>2 DEF RegisteredOf
  <1>7. \A p \in Plugin \ failed : InCycle(p) BY <1>1, <1>4, <1>6 DEF InCycle
  <1>8. Removed BY <1>1 DEF Removed
  <1>9. DisabledHasNoHooks BY <1>1 DEF DisabledHasNoHooks
  <1> QED BY <1>3, <1>4, <1>5, <1>7, <1>8, <1>9 DEF PluginInv, Typed

LEMMA NextStep == PluginInv /\ [PluginNext]_pluginVars => PluginInv'
  <1> SUFFICES ASSUME PluginInv, [PluginNext]_pluginVars PROVE PluginInv' OBVIOUS
  <1>1. CASE UNCHANGED pluginVars
    <2>1. UNCHANGED <<registry, loader, loads, gone, failed, run>> BY <1>1 DEF pluginVars
    <2>2. Typed /\ RemovedIsNotCalled /\ loads' \in Nat /\ loads <= loads'
      BY <2>1 DEF PluginInv, Typed, Records
    <2>3. Runs' /\ RemovedIsNotCalled' BY <2>1, <2>2, RunsStay
    <2> QED BY <2>1, <2>3, RegistryStays
  <1>2. CASE \E service \in Service : Boot(service) BY <1>2, BootStep
  <1>3. CASE LoadStep
    BY <1>3, LoadNextStep, ApiCallStep, LoadFailsStep, EnableStep, FinishStep DEF LoadStep
  <1>4. CASE \E p \in Plugin : Disable(p) \/ Reload(p) BY <1>4, DisableStep, ReloadStep
  <1>5. CASE \E r \in Run : RunStep(r) \/ \E topic \in Event \cup HookName : Publish(r, topic)
    BY <1>5, CallStep, ReturnStep, EndRunStep, PublishStep DEF RunStep
  <1> QED BY <1>1, <1>2, <1>3, <1>4, <1>5 DEF PluginNext

\* The invariant holds in every reachable state.
THEOREM PluginInvariant == PluginSpec => []PluginInv
  BY InitStep, NextStep, PTL DEF PluginSpec

\* A plugin that never failed is registered once for every call of its program
\* while it is enabled, and not at all while it is not, however often the API,
\* the worker and the administrator load it.
THEOREM RegistersOnce == PluginSpec => []RegisteredOnce
  <1>1. PluginInv => RegisteredOnce
    <2> SUFFICES ASSUME PluginInv, NEW p \in Plugin \ failed, ~LoadingNow(p),
                        NEW i \in DOMAIN Program[p],
                        Program[p][i].kind \in {"event", "hook"}
                 PROVE  /\ Cardinality(OfCall(p, i)) =< 1
                        /\ state[p] = "enabled" /\ ~Program[p][i].once => OfCall(p, i) # {}
                        /\ state[p] # "enabled" => OfCall(p, i) = {}
      BY DEF RegisteredOnce
    <2>1. InCycle(p) BY DEF PluginInv
    <2>2. \A e : e \in OfCall(p, i) <=> e \in RegisteredOf(p) /\ e.call = i
      BY DEF OfCall, RegisteredOf
    <2>3. CASE OfCall(p, i) = {}
      <3>1. Cardinality(OfCall(p, i)) = 0 BY <2>3, FS_EmptySet
      <3>2. ~(state[p] = "enabled" /\ ~Program[p][i].once)
        BY <2>1, <2>2, <2>3 DEF InCycle, Complete, Registers
      <3> QED BY <2>3, <3>1, <3>2
    <2>4. CASE OfCall(p, i) # {}
      <3>1. PICK e : e \in OfCall(p, i) BY <2>4
      <3>2. state[p] = "enabled" BY <2>1, <2>2, <3>1 DEF InCycle
      <3>3. \A x, y \in RegisteredOf(p) : x.call = y.call => x = y
        BY <2>1, <3>2 DEF InCycle, Complete
      <3>4. OfCall(p, i) = {e} BY <2>2, <3>1, <3>3
      <3>5. Cardinality(OfCall(p, i)) = 1 BY <3>4, FS_Singleton
      <3> QED BY <2>4, <3>2, <3>5
    <2> QED BY <2>3, <2>4
  <1> QED BY <1>1, PluginInvariant, PTL

\* A disabled plugin has no hook left, not even one of a load that failed.
THEOREM DisabledIsSilent == PluginSpec => []DisabledHasNoHooks
  <1>1. PluginInv => DisabledHasNoHooks BY DEF PluginInv
  <1> QED BY <1>1, PluginInvariant, PTL

\* What has fired once or was unloaded is not called by a publication or an
\* invocation that begins later, unless the plugin has failed.
THEOREM RemovedStaysSilent == PluginSpec => []RemovedIsNotCalled
  <1>1. PluginInv => RemovedIsNotCalled BY DEF PluginInv
  <1> QED BY <1>1, PluginInvariant, PTL
=============================================================================
