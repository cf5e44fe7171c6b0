----------------------------- MODULE Development ----------------------------
(***************************************************************************)
(* What one country researches, builds, trains and is rewarded for:        *)
(* ResearchService, ProductionService (construction), MilitaryService and  *)
(* MissionService, the seeding of CountryService, and the phases of the    *)
(* tick that finish the work.  An API request or a phase is a transaction  *)
(* (Session): it reads and decides first, then executes its statements     *)
(* one by one.                                                             *)
(*                                                                         *)
(* Costs are left out (ResourceStock): a payment that is refused is Fail.  *)
(* Every prerequisite is read in the step that begins the request, where   *)
(* the code has a SELECT for each.                                         *)
(***************************************************************************)
EXTENDS Integers, Sequences, SequencesExt, FiniteSets

CONSTANTS
  Tech,           \* the technologies ...
  Requires,       \* ... and what each requires: [Tech -> SUBSET Tech]
  Building, Unit, \* the keys of buildings and units
  NeedsTech,      \* [Building \cup Unit -> SUBSET Tech]
  NeedsBuilding,  \* [Building \cup Unit -> SUBSET Building]
  Mission,
  StartTech,      \* what a selected country begins with: SUBSET Tech ...
  StartBuilding,  \* ... and Seq(Building)
  MaxLevel,       \* the max_level of every building
  MaxCount,       \* bound on the count of a construction or training
  MaxBuildings,   \* bound on the identifiers of buildings
  MaxUnits,       \* bound: a training starts only while it leads to no more units
  MaxReigns,      \* bound on the selections of the country
  Client,         \* the API requests in flight
  Worker,         \* the tick worker's transaction
  NoTxn           \* the holder of a free row

Item == Building \cup Unit

ASSUME DataAssumption ==
  /\ IsFiniteSet(Tech) /\ IsFiniteSet(Mission)
  /\ Requires \in [Tech -> SUBSET Tech]
  /\ NeedsTech \in [Item -> SUBSET Tech] /\ NeedsBuilding \in [Item -> SUBSET Building]
  /\ StartTech \subseteq Tech /\ StartBuilding \in Seq(Building)
  /\ Building \cap Unit = {}
ASSUME BoundAssumption ==
  /\ MaxLevel \in Nat \ {0} /\ MaxCount \in Nat \ {0}
  /\ MaxBuildings \in Nat /\ MaxUnits \in Nat /\ MaxReigns \in Nat
ASSUME TxnAssumption == NoTxn \notin Client \cup {Worker} /\ Worker \notin Client

VARIABLES
  store,        \* committed rows: the ruler, technologies, buildings, units, missions
  holder,       \* the transaction holding a row's lock, or NoTxn
  pending,      \* the uncommitted version of a held row
  nextBuilding, \* the identifier of the next building (a sequence)
  expired,      \* rows whose completes_at has passed
  req,          \* the local state of each transaction
  rewarded,     \* how often the reward of a mission was paid, committed
  reigns        \* selections of the country, committed

vars == <<store, holder, pending, nextBuilding, expired, req, rewarded, reigns>>

Txn == Client \cup {Worker}
BuildingId == 1 .. MaxBuildings

Ruler == <<"ruler">>
TechOf(k) == <<"tech", k>>
BuildingOf(b) == <<"building", b>>
UnitOf(u) == <<"unit", u>>
MissionOf(m) == <<"mission", m>>

TechRow == {TechOf(k) : k \in Tech}
BuildingRow == {BuildingOf(b) : b \in BuildingId}
UnitRow == {UnitOf(u) : u \in Unit}
MissionRow == {MissionOf(m) : m \in Mission}
Row == {Ruler} \cup TechRow \cup BuildingRow \cup UnitRow \cup MissionRow

INSTANCE Session

Absent == [status |-> "absent"]
Status(status) == [status |-> status]
NewBuilding(key, status) == [status |-> status, key |-> key, level |-> 1]

Idle == [pc |-> "idle"]
Active(t) == req[t].pc # "idle"
Finish(t) == req' = [req EXCEPT ![t] = Idle]
Is(t, row, status) == Seen(t, row).status = status

(***************************************************************************)
(* A transaction that has decided what to do executes its statements.      *)
(***************************************************************************)
Statement(op, row, new) == [op |-> op, row |-> row, new |-> new]
Begin(t, kind, statements) ==
  /\ req' = [req EXCEPT ![t] = [pc |-> "run", kind |-> kind, todo |-> statements]]
  /\ UNCHANGED <<store, holder, pending, nextBuilding, expired, rewarded, reigns>>

-----------------------------------------------------------------------------
(***************************************************************************)
(* ResearchService.queue.                                                  *)
(***************************************************************************)
\* mutant: a technology in progress may be queued again
OnlyCompleted(t, k) == Is(t, TechOf(k), "completed")
Known(t, k) == Is(t, TechOf(k), "completed") \/ Is(t, TechOf(k), "in_progress")

\* mutant: one prerequisite is enough
AnyOf(t, techs) == techs = {} \/ \E k \in techs : Is(t, TechOf(k), "completed")
HasTechs(t, techs) == \A k \in techs : Is(t, TechOf(k), "completed")

Queue(t, k) ==
  /\ ~Known(t, k)
  /\ HasTechs(t, Requires[k])
  /\ Begin(t, "queue", << Statement("upsert", TechOf(k), Status("in_progress")) >>)

(***************************************************************************)
(* ProductionService.start_construction, upgrade_building and              *)
(* MilitaryService.train.                                                  *)
(***************************************************************************)
HasBuilding(t, key) ==
  \E b \in BuildingId : Is(t, BuildingOf(b), "active") /\ Seen(t, BuildingOf(b)).key = key

MayHave(t, item) ==
  HasTechs(t, NeedsTech[item]) /\ \A key \in NeedsBuilding[item] : HasBuilding(t, key)

Construct(t, key, count) ==
  /\ MayHave(t, key)
  /\ Begin(t, "construct",
       [n \in 1 .. count |-> Statement("create", Ruler, NewBuilding(key, "under_construction"))])

\* mutant: a building under construction may be upgraded
StillUpgradable(row) == row.status # "absent"
Upgradable(row) == row.status = "active"

BelowMax(level) == level < MaxLevel

Upgrade(t, b) ==
  LET row == Seen(t, BuildingOf(b)) IN
  /\ Upgradable(row)
  /\ BelowMax(row.level)
  /\ Begin(t, "upgrade", << Statement("update", BuildingOf(b),
       [row EXCEPT !.level = row.level + 1, !.status = "under_construction"]) >>)

Trained(t, u) == IF Seen(t, UnitOf(u)) = Absent THEN 0 ELSE Seen(t, UnitOf(u)).count

Train(t, u, count) ==
  /\ MayHave(t, u)
  /\ Trained(t, u) + count <= MaxUnits
  /\ Begin(t, "train", << Statement("adjust", UnitOf(u), [status |-> "idle", count |-> count]) >>)

(***************************************************************************)
(* MissionService.claim.                                                   *)
(***************************************************************************)
Claimable(t, m) == Is(t, MissionOf(m), "completed")

Claim(t, m) ==
  /\ ~Is(t, MissionOf(m), "absent") /\ Claimable(t, m)
  /\ Begin(t, "claim", << Statement("update", MissionOf(m), Status("claimed")) >>)

(***************************************************************************)
(* CountryService: the ruler's row is locked by the selection; a country   *)
(* selected again gets its starting buildings and its missions again, its  *)
(* starting technologies only when they are missing.  Players, worlds and  *)
(* amounts are in Countries and ResourceStock.                             *)
(***************************************************************************)
Inserts(rows, new) == [n \in 1 .. Cardinality(rows) |-> Statement("missing", SetToSeq(rows)[n], new)]
Upserts(rows, new) == [n \in 1 .. Cardinality(rows) |-> Statement("upsert", SetToSeq(rows)[n], new)]

Seeds ==
  Inserts({TechOf(k) : k \in StartTech}, Status("completed"))
    \o [n \in DOMAIN StartBuilding |-> Statement("create", Ruler, NewBuilding(StartBuilding[n], "active"))]
    \o Upserts(MissionRow, Status("active"))

Select(t) ==
  /\ reigns < MaxReigns
  /\ store[Ruler] = Status("free")
  /\ Write(t, Ruler, Status("ruled"))
  /\ req' = [req EXCEPT ![t] = [pc |-> "run", kind |-> "select", todo |-> Seeds]]
  /\ UNCHANGED <<nextBuilding, expired, rewarded, reigns>>

Abandon(t) == Begin(t, "abandon", << Statement("update", Ruler, Status("free")) >>)

\* An endpoint resolves the player's country first.
Request(t) ==
  /\ ~Active(t)
  /\ \/ Select(t)
     \/ /\ store[Ruler] = Status("ruled")
        /\ \/ \E k \in Tech : Queue(t, k)
           \/ \E key \in Building, count \in 1 .. MaxCount : Construct(t, key, count)
           \/ \E b \in BuildingId : Upgrade(t, b)
           \/ \E u \in Unit, count \in 1 .. MaxCount : Train(t, u, count)
           \/ \E m \in Mission : Claim(t, m)
           \/ Abandon(t)

-----------------------------------------------------------------------------
(***************************************************************************)
(* The tick: advance_research_tick and complete_constructions load the     *)
(* rows that are due, and the flush updates their status, nothing else;    *)
(* evaluate loads the missions and writes every one that is active in its  *)
(* copy, with the status its metrics give.                                 *)
(***************************************************************************)
Due(row) == row \in expired

Complete ==
  LET due == {row \in BuildingRow : Is(Worker, row, "under_construction") /\ Due(row)} IN
  Begin(Worker, "complete", [n \in 1 .. Cardinality(due) |->
    Statement("status", SetToSeq(due)[n], Status("active"))])

Advance ==
  LET due == {row \in TechRow : Is(Worker, row, "in_progress") /\ Due(row)} IN
  Begin(Worker, "advance", [n \in 1 .. Cardinality(due) |->
    Statement("status", SetToSeq(due)[n], Status("completed"))])

\* mutant: the missions that are over are evaluated too
AllMissions == {row \in MissionRow : ~Is(Worker, row, "absent")}
Evaluated == {row \in MissionRow : Is(Worker, row, "active")}

Evaluate ==
  \E done \in SUBSET Evaluated :
    Begin(Worker, "evaluate", [n \in 1 .. Cardinality(Evaluated) |->
      LET row == SetToSeq(Evaluated)[n] IN
      Statement("upsert", row, Status(IF row \in done THEN "completed" ELSE "active"))])

Phase == ~Active(Worker) /\ (Complete \/ Advance \/ Evaluate)

-----------------------------------------------------------------------------
(***************************************************************************)
(* The statements.  An INSERT waits for the holder of an equal key and     *)
(* fails when that commits; an UPDATE writes what was computed before,     *)
(* whatever the row holds now.                                             *)
(***************************************************************************)
Rest(t) == req' = [req EXCEPT ![t].todo = Tail(req[t].todo)]
Becomes(t, op, new) ==
  /\ req' = [req EXCEPT ![t].todo = << Statement(op, Head(req[t].todo).row, new) >>
                                      \o Tail(req[t].todo)]
  /\ UNCHANGED <<store, holder, pending>>

\* The SELECT of an upsert, of units.adjust, and of the seeding of a technology.
Look(t) ==
  LET s == Head(req[t].todo)
      row == Seen(t, s.row)
  IN
  /\ s.op \in {"upsert", "adjust", "missing"}
  /\ IF row = Absent THEN Becomes(t, "insert", s.new)
     ELSE \/ s.op = "upsert" /\ Becomes(t, "update", s.new)
          \/ s.op = "adjust" /\ Becomes(t, "update", [row EXCEPT !.count = row.count + s.new.count])
          \/ s.op = "missing" /\ Rest(t) /\ UNCHANGED <<store, holder, pending>>
  /\ UNCHANGED nextBuilding

Execute(t) ==
  LET s == Head(req[t].todo) IN
  /\ \/ s.op = "insert" /\ Seen(t, s.row) = Absent /\ Write(t, s.row, s.new)
     \/ s.op = "update" /\ Write(t, s.row, s.new)
     \/ s.op = "status" /\ Write(t, s.row, [Seen(t, s.row) EXCEPT !.status = s.new.status])
  /\ Rest(t)
  /\ UNCHANGED nextBuilding

CreateBuilding(t) ==
  LET s == Head(req[t].todo) IN
  /\ s.op = "create"
  /\ nextBuilding \in BuildingId
  /\ Write(t, BuildingOf(nextBuilding), s.new)
  /\ nextBuilding' = nextBuilding + 1
  /\ Rest(t)

\* The rows whose completes_at this transaction has set.
Timed(t) ==
  {row \in TechRow \cup BuildingRow :
     holder[row] = t /\ pending[row].status \in {"in_progress", "under_construction"}}

Commit(t) ==
  /\ req[t].todo = <<>>
  /\ CommitWrites(t)
  /\ expired' = expired \ Timed(t)
  /\ rewarded' = [m \in Mission |->
       rewarded[m] + IF req[t].kind = "claim" /\ holder[MissionOf(m)] = t THEN 1 ELSE 0]
  /\ reigns' = reigns + IF req[t].kind = "select" THEN 1 ELSE 0
  /\ Finish(t)
  /\ UNCHANGED nextBuilding

\* A cost is not covered, a key exists, the connection is lost, or the worker dies.
Fail(t) ==
  /\ Active(t)
  /\ ForgetWrites(t)
  /\ Finish(t)
  /\ UNCHANGED <<nextBuilding, expired, rewarded, reigns>>

\* completes_at of a row passes.
Expire(row) ==
  /\ store[row].status \in {"in_progress", "under_construction"}
  /\ row \notin expired
  /\ expired' = expired \cup {row}
  /\ UNCHANGED <<store, holder, pending, nextBuilding, req, rewarded, reigns>>

Step(t) ==
  /\ Active(t)
  /\ \/ Commit(t)
     \/ /\ req[t].todo # <<>>
        /\ Look(t) \/ Execute(t) \/ CreateBuilding(t)
        /\ UNCHANGED <<expired, rewarded, reigns>>

Init ==
  /\ store = [row \in Row |-> IF row = Ruler THEN Status("free") ELSE Absent]
  /\ holder = [row \in Row |-> NoTxn]
  /\ pending = store
  /\ nextBuilding = 1
  /\ expired = {}
  /\ req = [t \in Txn |-> Idle]
  /\ rewarded = [m \in Mission |-> 0]
  /\ reigns = 0

Next ==
  \/ \E t \in Client : Request(t)
  \/ Phase
  \/ \E t \in Txn : Step(t) \/ Fail(t)
  \/ \E row \in TechRow \cup BuildingRow : Expire(row)

Spec == Init /\ [][Next]_vars

-----------------------------------------------------------------------------
(* Properties. *)

Has(k) == store[TechOf(k)].status = "completed"

(* One API request at a time, next to the worker: a technology that is         *)
(* completed stays so, whatever a request or a phase read before it was.       *)
(* (ResearchService.queue and its upsert, advance_research_tick)               *)
CompletedIsFinal == [][\A k \in Tech : Has(k) => Has(k)']_vars

(* ... what is researched, built or trained has the technologies and the       *)
(* buildings it asks for, in every reign: no rollback, tick, upgrade or        *)
(* seeding takes one away again.  (queue, start_construction, train)           *)
Built(key) == \E b \in BuildingId : store[BuildingOf(b)] # Absent /\ store[BuildingOf(b)].key = key
Supplied(item) == (\A k \in NeedsTech[item] : Has(k)) /\ (\A key \in NeedsBuilding[item] : Built(key))

PrerequisitesHeld ==
  /\ \A k \in Tech \ StartTech : store[TechOf(k)] # Absent => \A r \in Requires[k] : Has(r)
  /\ \A b \in BuildingId :
       LET row == store[BuildingOf(b)] IN
       row # Absent /\ row.key \notin Range(StartBuilding) => Supplied(row.key)
  /\ \A u \in Unit : store[UnitOf(u)] # Absent => Supplied(u)

(* ... nothing is completed or active at a new level before its time: the      *)
(* worker finishes the work whose time was over when the work was the one      *)
(* under way.  (complete_constructions, advance_research_tick, upgrade)        *)
WorkTakesItsTime ==
  [][\A row \in TechRow \cup BuildingRow :
       /\ store[row].status \in {"in_progress", "under_construction"}
       /\ store'[row].status \in {"completed", "active"}
       => row \in expired]_vars

(* ... a mission is rewarded at most once for each selection of the country,   *)
(* whatever the evaluations did with their copies of it.                       *)
(* (MissionService.claim, evaluate, seed_for_country)                          *)
RewardedOncePerReign == \A m \in Mission : rewarded[m] <= reigns
=============================================================================
