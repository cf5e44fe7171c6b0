-------------------------------- MODULE Wars --------------------------------
(***************************************************************************)
(* WarService: a country declares war, battles are fought, a war ends.     *)
(* Each request is a transaction.  A declaration reads the open wars and   *)
(* inserts its own later; an attack reads the war, rewrites the units of   *)
(* both sides from what it saw, and at its commit writes the columns of    *)
(* the war that differ from its copy.                                      *)
(*                                                                         *)
(* A request that is refused changes nothing and is left out.  An INSERT   *)
(* is invisible, and the row of a war is written, only at the commit, so   *)
(* each is one step with it; the rows of units are locked from the UPDATE  *)
(* on.  Each side fights with one kind of unit, and every victory is worth *)
(* one point.  Nothing checks who sends an attack, nor that the units it   *)
(* names exist.                                                            *)
(***************************************************************************)
EXTENDS Integers, FiniteSets, Sequences

CONSTANTS
  Country,
  WorldOf,    \* the world of a country
  Txn, NoTxn, \* the requests in flight; the holder of a free row
  Army,       \* the units of a country at the start
  MaxLoss,    \* bound on the units that a side loses in a battle
  MaxWars,    \* bound on the wars declared
  MaxBattles  \* bound on the battles

VARIABLES
  units,      \* the committed units.count of each country
  holder, pending,    \* the locks on the rows of units, and what was written
  wars,       \* the committed rows of the table wars
  battles,    \* the committed rows of the table battles
  req,        \* the local state of each request
  unaware,    \* history: pairs of wars of which neither declaration saw the other
  revived,    \* history: wars that were ended and became active again
  crowded     \* history: wars that had two attacks in flight at once

Row == Country
INSTANCE Session WITH store <- units

rows == <<units, holder, pending>>
history == <<unaware, revived, crowded>>
vars == <<rows, wars, battles, req, history>>

Open == {"declared", "active"}   \* of WarStatus; the others: "ended", and
                                 \* ceasefire and occupied, never assigned
Winner == {"attacker", "defender", "draw"}
Side == {"attacker", "defender"}

Idle == [pc |-> "idle"]
Active(t) == req[t].pc # "idle"
Ends(t) == req' = [req EXCEPT ![t] = Idle]
Attacks(t, w) == req[t].pc \in {"select", "update", "finish"} /\ req[t].war = w

\* Bound: every declaration and every attack in flight finds room.
WarRoom == Len(wars) + Cardinality({t \in Txn : req[t].pc = "insert"}) < MaxWars
BattleRoom ==
  Len(battles) + Cardinality({t \in Txn : \E w \in DOMAIN wars : Attacks(t, w)}) < MaxBattles

Init ==
  /\ units = [c \in Country |-> Army] /\ pending = units
  /\ holder = [c \in Country |-> NoTxn]
  /\ wars = <<>> /\ battles = <<>>
  /\ req = [t \in Txn |-> Idle]
  /\ unaware = {} /\ revived = {} /\ crowded = {}

-----------------------------------------------------------------------------
\* The wars of the attacker against this country that are declared or active.
NoWar(a, d) == FALSE              \* mutant: declare_war does not look
OpenWar(a, d) ==
  \E w \in DOMAIN wars :
    wars[w].status \in Open /\ {a, d} \subseteq {wars[w].attacker, wars[w].defender}

DeclareWar(t, a, d) ==
  /\ ~Active(t) /\ WarRoom
  /\ WorldOf[a] = WorldOf[d]
  /\ ~OpenWar(a, d)
  /\ req' = [req EXCEPT ![t] =
               [pc |-> "insert", attacker |-> a, defender |-> d, saw |-> DOMAIN wars]]
  /\ UNCHANGED <<rows, wars, battles, history>>

InsertWar(t) ==
  /\ req[t].pc = "insert"
  /\ wars' = Append(wars, [attacker |-> req[t].attacker, defender |-> req[t].defender,
                           status |-> "declared", score |-> [s \in Side |-> 0]])
  /\ unaware' = unaware \cup {<<w, Len(wars) + 1>> : w \in DOMAIN wars \ req[t].saw}
  /\ Ends(t)
  /\ UNCHANGED <<rows, battles, revived, crowded>>

-----------------------------------------------------------------------------
\* The dice, or a handler of combat.resolve, decide losses and winner before
\* the first statement; the model chooses them where they are first used.
Attack(t, w) ==
  /\ ~Active(t) /\ BattleRoom
  /\ wars[w].status \in Open
  /\ req' = [req EXCEPT ![t] = [pc |-> "select", war |-> w, status |-> wars[w].status,
               score |-> wars[w].score, side |-> "attacker", seen |-> 0]]
  /\ crowded' = IF \E u \in Txn : Attacks(u, w) THEN crowded \cup {w} ELSE crowded
  /\ UNCHANGED <<rows, wars, battles, unaware, revived>>

Fighter(t) == wars[req[t].war][req[t].side]

\* UnitRepository.adjust: the SELECT ...
SelectUnits(t) ==
  /\ req[t].pc = "select"
  /\ req' = [req EXCEPT ![t].pc = "update", ![t].seen = Seen(t, Fighter(t))]
  /\ UNCHANGED <<rows, wars, battles, history>>

NotBelowZero(n) == IF n < 0 THEN 0 ELSE n

\* ... and the UPDATE, to a count computed from what it saw.  The request may
\* name no units of the defender.
UpdateUnits(t) ==
  /\ req[t].pc = "update"
  /\ \E loss \in 0 .. MaxLoss : Write(t, Fighter(t), NotBelowZero(req[t].seen - loss))
  /\ \/ req' = [req EXCEPT ![t].pc = "finish", ![t].seen = 0]
     \/ /\ req[t].side = "attacker"
        /\ req' = [req EXCEPT ![t].pc = "select", ![t].side = "defender", ![t].seen = 0]
  /\ UNCHANGED <<wars, battles, history>>

\* The session writes the columns in which the object differs from the row as
\* it was read: an active war keeps its status, a side that did not win its score.
DrawForDefender(t, row, winner) ==   \* mutant: what the attacker does not win, he loses
  LET s == IF winner = "attacker" THEN "attacker" ELSE "defender"
  IN  [row.score EXCEPT ![s] = req[t].score[s] + 1]
NewScore(t, row, winner) ==
  IF winner = "draw" THEN row.score
  ELSE [row.score EXCEPT ![winner] = req[t].score[winner] + 1]
NewStatus(t, row) == IF req[t].status = "active" THEN row.status ELSE "active"

FinishBattle(t) ==
  LET w == req[t].war IN
  /\ req[t].pc = "finish"
  /\ \E winner \in Winner :
       /\ wars' = [wars EXCEPT ![w].status = NewStatus(t, wars[w]),
                               ![w].score = NewScore(t, wars[w], winner)]
       /\ battles' = Append(battles, [war |-> w, winner |-> winner])
  /\ revived' = IF wars[w].status = "ended" /\ wars'[w].status # "ended"
                THEN revived \cup {w} ELSE revived
  /\ CommitWrites(t) /\ Ends(t)
  /\ UNCHANGED <<unaware, crowded>>

\* end_war, which no route calls: tests and plugins do.
EndWar(w) ==
  /\ wars[w].status # "ended"
  /\ wars' = [wars EXCEPT ![w].status = "ended"]
  /\ UNCHANGED <<rows, battles, req, history>>

-----------------------------------------------------------------------------
WaitsFor(t, u) == t # u /\ req[t].pc = "update" /\ holder[Fighter(t)] = u
Abort(t) ==
  /\ ForgetWrites(t) /\ Ends(t)
  /\ UNCHANGED <<wars, battles, history>>
Fail(t) == Active(t) /\ Abort(t)
DeadlockVictim(t) == Deadlocked(t, WaitsFor) /\ Abort(t)

Step(t) ==
  InsertWar(t) \/ SelectUnits(t) \/ UpdateUnits(t) \/ FinishBattle(t) \/ DeadlockVictim(t)

Next ==
  \/ \E t \in Txn :
       \/ \E a, d \in Country : DeclareWar(t, a, d)
       \/ \E w \in DOMAIN wars : Attack(t, w)
       \/ Step(t) \/ Fail(t)
  \/ \E w \in DOMAIN wars : EndWar(w)

-----------------------------------------------------------------------------
\* Two countries have one open war, unless the two declarations overlapped or
\* an attack that was under way when a war ended made it active again
\* (war_service.py:65: "already at war with this country").
OneOpenWar ==
  \A v, w \in DOMAIN wars :
    /\ v < w /\ {wars[v].status, wars[w].status} \subseteq Open
    /\ {wars[v].attacker, wars[v].defender} = {wars[w].attacker, wars[w].defender}
    => <<v, w>> \in unaware \/ {v, w} \cap revived # {}

Victories(w, s) == Cardinality({i \in DOMAIN battles : battles[i] = [war |-> w, winner |-> s]})

\* A side's score is the number of battles recorded as its victories, unless
\* two attacks of the war overlapped; even then it is never higher.
ScoresAreBattles ==
  \A w \in DOMAIN wars, s \in Side :
    /\ wars[w].score[s] =< Victories(w, s)
    /\ w \notin crowded => wars[w].score[s] = Victories(w, s)
=============================================================================
