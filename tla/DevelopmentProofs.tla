-------------------------- MODULE DevelopmentProofs -------------------------
(***************************************************************************)
(* With one API request at a time next to the tick worker, what a country  *)
(* has keeps its prerequisites, a mission is rewarded once for each        *)
(* selection, a completed technology stays completed and no work ends      *)
(* before its time: for every tree of requirements, every number of        *)
(* technologies, buildings, units, missions and reigns.                    *)
(***************************************************************************)
EXTENDS Development, FiniteSetTheorems, SequenceTheorems, TLAPS

OneRequest == \A t, u \in Client : t = u

-----------------------------------------------------------------------------
(* The inductive invariant.                                                *)

Working == {"in_progress", "under_construction"}
Pending(m) == store[MissionOf(m)].status \in {"active", "completed"}

IsBuilding(v) ==
  /\ v = [status |-> v.status, key |-> v.key, level |-> v.level]
  /\ v.status \in {"active", "under_construction"}
  /\ v.key \in Building

Entitled(key) == key \in Range(StartBuilding) \/ Supplied(key)

\* What a request may commit in a row, as the committed row is now.
KeepsTech(row, value) ==
  \E k \in Tech :
    /\ row = TechOf(k) /\ store[row] = Absent
    /\ value \in {Status("in_progress"), Status("completed")}
    /\ k \in StartTech \/ \A r \in Requires[k] : Has(r)
KeepsBuilding(row, value) ==
  \E b \in BuildingId :
    /\ row = BuildingOf(b) /\ b < nextBuilding
    /\ store[row].status \notin Working
    /\ IsBuilding(value) /\ Entitled(value.key)
    /\ store[row] # Absent => value.key = store[row].key
KeepsUnit(row) == \E u \in Unit : row = UnitOf(u) /\ Supplied(u)
KeepsMission(kind, row, value) ==
  \E m \in Mission :
    /\ row = MissionOf(m)
    /\ \/ kind = "claim" /\ value = Status("claimed") /\ store[row] = Status("completed")
       \/ kind = "select" /\ value = Status("active")
ClientKeeps(kind, row, value) ==
  \/ row = Ruler
  \/ KeepsTech(row, value)
  \/ KeepsBuilding(row, value)
  \/ KeepsUnit(row)
  \/ KeepsMission(kind, row, value)

\* ... and what a phase of the tick may.
Advances(row, value) ==
  \E k \in Tech :
    /\ row = TechOf(k) /\ store[row] = Status("in_progress") /\ row \in expired
    /\ value = Status("completed")
Completes(row, value) ==
  \E b \in BuildingId :
    /\ row = BuildingOf(b) /\ store[row].status = "under_construction" /\ row \in expired
    /\ IsBuilding(value) /\ value.status = "active" /\ value.key = store[row].key
Evaluates(row, value) ==
  \E m \in Mission :
    /\ row = MissionOf(m) /\ store[row] = Status("active")
    /\ value \in {Status("active"), Status("completed")}
WorkerKeeps(row, value) == Advances(row, value) \/ Completes(row, value) \/ Evaluates(row, value)

Keeps(t, kind, row, value) ==
  IF t = Worker THEN WorkerKeeps(row, value) ELSE ClientKeeps(kind, row, value)

\* A statement that is still to be executed.
ClientTask(kind, s) ==
  \/ s.op \in {"insert", "update", "upsert"} /\ ClientKeeps(kind, s.row, s.new)
  \/ s.op = "missing" /\ s.new = Status("completed") /\ \E k \in StartTech : s.row = TechOf(k)
  \/ s.op = "create" /\ IsBuilding(s.new) /\ Entitled(s.new.key)
  \/ s.op = "adjust" /\ KeepsUnit(s.row)
AdvanceTask(s) ==
  \E k \in Tech :
    /\ s.row = TechOf(k) /\ store[s.row] = Status("in_progress") /\ s.row \in expired
    /\ s.new = Status("completed")
CompleteTask(s) ==
  \E b \in BuildingId :
    /\ s.row = BuildingOf(b) /\ store[s.row].status = "under_construction" /\ s.row \in expired
    /\ s.new = Status("active")
WorkerTask(s) ==
  \/ s.op \in {"insert", "update", "upsert"} /\ Evaluates(s.row, s.new)
  \/ s.op = "status" /\ (AdvanceTask(s) \/ CompleteTask(s))
Task(t, kind, s) ==
  /\ s = Statement(s.op, s.row, s.new)
  /\ IF t = Worker THEN WorkerTask(s) ELSE ClientTask(kind, s)

Statements(t, kind, todo) ==
  todo \in Seq(Range(todo)) /\ \A s \in Range(todo) : Task(t, kind, s)

Holds(t, kind) == \A row \in Row : holder[row] = t => Keeps(t, kind, row, pending[row])

InFlight(t) ==
  \/ req[t] = Idle /\ \A row \in Row : holder[row] # t
  \/ /\ req[t] = [pc |-> "run", kind |-> req[t].kind, todo |-> req[t].todo]
     /\ t = Worker => req[t].kind \notin {"claim", "select"}
     /\ Holds(t, req[t].kind)
     /\ Statements(t, req[t].kind, req[t].todo)

Typed ==
  /\ store = [row \in Row |-> store[row]]
  /\ pending = [row \in Row |-> pending[row]]
  /\ holder \in [Row -> Txn \cup {NoTxn}]
  /\ req = [t \in Txn |-> req[t]]
  /\ nextBuilding \in Nat
  /\ rewarded \in [Mission -> Nat] /\ reigns \in Nat

RowTypes ==
  /\ \A k \in Tech : store[TechOf(k)] \in {Absent, Status("in_progress"), Status("completed")}
  /\ \A b \in BuildingId : store[BuildingOf(b)] = Absent \/ IsBuilding(store[BuildingOf(b)])
  /\ \A m \in Mission : store[MissionOf(m)] \in
       {Absent, Status("active"), Status("completed"), Status("claimed")}

Fresh == \A b \in BuildingId : store[BuildingOf(b)] # Absent => b < nextBuilding

\* A mission that is not claimed yet leaves room for its reward.
Rewards == \A m \in Mission : rewarded[m] + (IF Pending(m) THEN 1 ELSE 0) <= reigns

Rows == RowTypes /\ Fresh /\ Rewards /\ PrerequisitesHeld

DevInv == Typed /\ Rows /\ \A t \in Txn : InFlight(t)

USE DataAssumption, BoundAssumption, TxnAssumption

-----------------------------------------------------------------------------
(* Rows and values.                                                        *)

\* Rows of two tables differ, and so do two rows of one.
LEMMA RowKeys ==
  /\ \A k, l : TechOf(k) = TechOf(l) => k = l
  /\ \A b, c : BuildingOf(b) = BuildingOf(c) => b = c
  /\ \A u, v : UnitOf(u) = UnitOf(v) => u = v
  /\ \A m, n : MissionOf(m) = MissionOf(n) => m = n
  /\ \A k, b : TechOf(k) # BuildingOf(b) /\ TechOf(k) # UnitOf(b) /\ TechOf(k) # MissionOf(b)
  /\ \A b, m : BuildingOf(b) # UnitOf(m) /\ BuildingOf(b) # MissionOf(m)
  /\ \A u, m : UnitOf(u) # MissionOf(m)
  /\ \A k : Ruler # TechOf(k) /\ Ruler # BuildingOf(k) /\ Ruler # UnitOf(k) /\ Ruler # MissionOf(k)
  BY DEF TechOf, BuildingOf, UnitOf, MissionOf, Ruler

LEMMA RowsAre ==
  /\ Ruler \in Row
  /\ \A k \in Tech : TechOf(k) \in Row
  /\ \A b \in BuildingId : BuildingOf(b) \in Row
  /\ \A u \in Unit : UnitOf(u) \in Row
  /\ \A m \in Mission : MissionOf(m) \in Row
  BY DEF Row, TechRow, BuildingRow, UnitRow, MissionRow

LEMMA StatusFacts ==
  /\ \A s, u : Status(s) = Status(u) => s = u
  /\ \A s : Status(s).status = s
  /\ Absent = Status("absent") /\ Absent.status = "absent"
  BY DEF Status, Absent

LEMMA BuildingFacts ==
  ASSUME NEW v, IsBuilding(v)
  PROVE  v # Absent /\ v.status \in {"active", "under_construction"} /\ v.key \in Item
  BY DEF IsBuilding, Absent, Item

\* What may be committed is a row of the country.
LEMMA KeptIsRow ==
  ASSUME NEW kind, NEW row, NEW value, ClientKeeps(kind, row, value) \/ WorkerKeeps(row, value)
  PROVE  row \in Row
  BY RowsAre DEF ClientKeeps, WorkerKeeps, KeepsTech, KeepsBuilding, KeepsUnit, KeepsMission,
     Advances, Completes, Evaluates

-----------------------------------------------------------------------------
(* What a step does to the permissions of the others.                      *)

\* What a country has only grows, and what a transaction knows of a row still
\* holds: between two commits nothing but nextBuilding and expired changes, and
\* those grow.
Quiet == store' = store /\ expired \subseteq expired' /\ nextBuilding' >= nextBuilding

LEMMA QuietKeeps ==
  ASSUME Quiet, nextBuilding \in Nat, nextBuilding' \in Nat,
         NEW t, NEW kind, NEW row, NEW value, Keeps(t, kind, row, value)
  PROVE  Keeps(t, kind, row, value)'
  <1>1. CASE t = Worker
    BY <1>1 DEF Quiet, Keeps, WorkerKeeps, Advances, Completes, Evaluates
  <1>2. CASE t # Worker
    <2>1. \A b \in BuildingId : b < nextBuilding => b < nextBuilding'
      BY DEF BuildingId, Quiet
    <2>2. \A k : Has(k) => Has(k)'
      BY DEF Quiet, Has
    <2>3. \A i : Supplied(i) => Supplied(i)'
      BY DEF Quiet, Supplied, Has, Built
    <2>4. ClientKeeps(kind, row, value)
      BY <1>2 DEF Keeps
    <2>5. KeepsTech(row, value) => KeepsTech(row, value)'
      BY <2>2 DEF KeepsTech, Quiet
    <2>6. KeepsBuilding(row, value) => KeepsBuilding(row, value)'
      BY <2>1, <2>3 DEF KeepsBuilding, Entitled, Quiet
    <2>7. KeepsUnit(row) => KeepsUnit(row)'
      BY <2>3 DEF KeepsUnit
    <2>8. KeepsMission(kind, row, value) => KeepsMission(kind, row, value)'
      BY DEF KeepsMission, Quiet
    <2> QED BY <1>2, <2>4, <2>5, <2>6, <2>7, <2>8 DEF Keeps, ClientKeeps
  <1> QED BY <1>1, <1>2

LEMMA QuietTask ==
  ASSUME Quiet, nextBuilding \in Nat, nextBuilding' \in Nat,
         NEW t, NEW kind, NEW s, Task(t, kind, s)
  PROVE  Task(t, kind, s)'
  <1>1. CASE t = Worker
    BY <1>1 DEF Quiet, Task, WorkerTask, AdvanceTask, CompleteTask, Evaluates
  <1>2. CASE t # Worker
    <2>1. ASSUME ClientKeeps(kind, s.row, s.new) PROVE ClientKeeps(kind, s.row, s.new)'
      BY <1>2, <2>1, QuietKeeps DEF Keeps
    <2>2. \A i : Supplied(i) => Supplied(i)'
      BY DEF Quiet, Supplied, Has, Built
    <2>3. KeepsUnit(s.row) => KeepsUnit(s.row)'
      BY <2>2 DEF KeepsUnit
    <2>4. Entitled(s.new.key) => Entitled(s.new.key)'
      BY <2>2 DEF Entitled
    <2>5. ClientTask(kind, s) => ClientTask(kind, s)'
      BY <2>1, <2>3, <2>4 DEF ClientTask, IsBuilding
    <2> QED BY <1>2, <2>5 DEF Task
  <1> QED BY <1>1, <1>2

\* The statements of a transaction that does not move.
LEMMA StatementsStay ==
  ASSUME NEW t, NEW kind, NEW todo, Statements(t, kind, todo),
         \A s : Task(t, kind, s) => Task(t, kind, s)'
  PROVE  Statements(t, kind, todo)'
  BY DEF Statements

\* A sequence of tasks, whatever set they are taken from.
LEMMA TasksAre ==
  ASSUME NEW t, NEW kind, NEW S, NEW todo \in Seq(S), \A s \in S : Task(t, kind, s)
  PROVE  Statements(t, kind, todo)
  <1>1. todo \in Seq(Range(todo)) /\ \A x \in Range(todo) : x \in S
    BY DEF Range
  <1> QED BY <1>1 DEF Statements

LEMMA HeadIsTask ==
  ASSUME NEW t, NEW kind, NEW todo, Statements(t, kind, todo), todo # <<>>
  PROVE  /\ Task(t, kind, Head(todo))
         /\ Statements(t, kind, Tail(todo))
         /\ \A x : Task(t, kind, x) => Statements(t, kind, <<x>> \o Tail(todo))
  <1> DEFINE S == Range(todo)
  <1>1. todo \in Seq(S) /\ \A s \in S : Task(t, kind, s)
    BY DEF Statements
  <1> HIDE DEF S
  <1>2. Head(todo) \in S /\ Tail(todo) \in Seq(S)
    BY <1>1
  <1>3. Statements(t, kind, Tail(todo))
    BY <1>1, <1>2, TasksAre
  <1>4. ASSUME NEW x, Task(t, kind, x) PROVE Statements(t, kind, <<x>> \o Tail(todo))
    <2> DEFINE U == S \cup {x}
    <2>1. Tail(todo) \in Seq(U) /\ x \in U
      BY <1>2
    <2>2. \A s \in U : Task(t, kind, s)
      BY <1>1, <1>4
    <2> HIDE DEF U
    <2>3. <<x>> \o Tail(todo) \in Seq(U)
      BY <2>1
    <2> QED BY <2>2, <2>3, TasksAre
  <1> QED BY <1>1, <1>2, <1>3, <1>4

\* A transaction stays in flight when another moves and commits nothing.
LEMMA OthersStay ==
  ASSUME Quiet, Typed, Typed', NEW t \in Txn, InFlight(t), req'[t] = req[t],
         \A row \in Row : holder'[row] = t => holder[row] = t /\ pending'[row] = pending[row]
  PROVE  InFlight(t)'
  <1> USE DEF Typed
  <1>1. CASE req[t] = Idle /\ \A row \in Row : holder[row] # t
    BY <1>1 DEF InFlight, Idle
  <1>2. CASE /\ req[t] = [pc |-> "run", kind |-> req[t].kind, todo |-> req[t].todo]
             /\ t = Worker => req[t].kind \notin {"claim", "select"}
             /\ Holds(t, req[t].kind)
             /\ Statements(t, req[t].kind, req[t].todo)
    <2> DEFINE kind == req[t].kind  todo == req[t].todo
    <2>1. Holds(t, kind)'
      BY <1>2, QuietKeeps DEF Holds
    <2>2. Statements(t, kind, todo)'
      BY <1>2, QuietTask, StatementsStay
    <2> QED BY <1>2, <2>1, <2>2 DEF InFlight
  <1> QED BY <1>1, <1>2 DEF InFlight

\* The committed rows stay what they are.
LEMMA RowsStay ==
  ASSUME Quiet, nextBuilding \in Nat, nextBuilding' \in Nat, Rows, reigns' = reigns, rewarded' = rewarded
  PROVE  Rows'
  <1>1. RowTypes' /\ Rewards'
    BY DEF Quiet, Rows, RowTypes, Rewards, Pending, IsBuilding
  <1>2. Fresh'
    BY DEF Quiet, Rows, Fresh, BuildingId
  <1>3. PrerequisitesHeld'
    <2>1. \A i : Supplied(i) => Supplied(i)'
      BY DEF Quiet, Supplied, Has, Built
    <2> QED BY <2>1 DEF Quiet, Rows, PrerequisitesHeld, Has
  <1> QED BY <1>1, <1>2, <1>3 DEF Rows

\* Every step of one transaction that commits nothing.
LEMMA OneMoves ==
  ASSUME DevInv, Quiet, Typed', reigns' = reigns, rewarded' = rewarded,
         NEW t \in Txn, InFlight(t)', \A u \in Txn \ {t} : req'[u] = req[u],
         \A u \in Txn \ {t}, row \in Row :
           holder'[row] = u => holder[row] = u /\ pending'[row] = pending[row]
  PROVE  DevInv'
  <1>1. Rows'
    BY RowsStay DEF DevInv, Typed
  <1>2. \A u \in Txn : InFlight(u)'
    BY OthersStay DEF DevInv
  <1> QED BY <1>1, <1>2 DEF DevInv

-----------------------------------------------------------------------------
(* Sequences of statements.                                                *)

LEMMA Listed ==
  ASSUME NEW S, IsFiniteSet(S)
  PROVE  Cardinality(S) \in Nat /\ \A n \in 1 .. Cardinality(S) : SetToSeq(S)[n] \in S
  <1>1. Cardinality(S) \in Nat /\ ExistsBijection(1 .. Cardinality(S), S)
    BY FS_CardinalityType
  <1>2. PICK f \in [1 .. Cardinality(S) -> S] : IsInjective(f)
    BY <1>1 DEF ExistsBijection, Bijection, Injection, IsInjective
  <1>3. SetToSeq(S) \in [1 .. Cardinality(S) -> S]
    BY <1>2 DEF SetToSeq
  <1> QED BY <1>1, <1>3

LEMMA MissionsFinite == IsFiniteSet(MissionRow)
  <1> DEFINE f == [m \in Mission |-> MissionOf(m)]
  <1>1. f \in Surjection(Mission, MissionRow)
    BY DEF MissionRow, Surjection
  <1> QED BY <1>1, FS_Surjection

LEMMA StartTechFinite == IsFiniteSet({TechOf(k) : k \in StartTech})
  <1> DEFINE f == [k \in StartTech |-> TechOf(k)]
  <1>1. IsFiniteSet(StartTech)
    BY FS_Subset
  <1>2. f \in Surjection(StartTech, {TechOf(k) : k \in StartTech})
    BY DEF Surjection
  <1> QED BY <1>1, <1>2, FS_Surjection

LEMMA TechFinite == ASSUME NEW S \in SUBSET TechRow PROVE IsFiniteSet(S)
  <1> DEFINE f == [k \in Tech |-> TechOf(k)]
  <1>1. f \in Surjection(Tech, TechRow)
    BY DEF TechRow, Surjection
  <1>2. IsFiniteSet(TechRow)
    BY <1>1, FS_Surjection
  <1> QED BY <1>2, FS_Subset

LEMMA BuildingFinite == ASSUME NEW S \in SUBSET BuildingRow PROVE IsFiniteSet(S)
  <1> DEFINE f == [b \in BuildingId |-> BuildingOf(b)]
  <1>1. IsFiniteSet(BuildingId)
    BY FS_Interval DEF BuildingId
  <1>2. f \in Surjection(BuildingId, BuildingRow)
    BY DEF BuildingRow, Surjection
  <1>3. IsFiniteSet(BuildingRow)
    BY <1>1, <1>2, FS_Surjection
  <1> QED BY <1>3, FS_Subset

-----------------------------------------------------------------------------
(* A request or a phase begins.                                            *)

LEMMA IdleSees ==
  ASSUME DevInv, NEW t \in Txn, ~Active(t)
  PROVE  req[t] = Idle /\ \A row \in Row : holder[row] # t /\ Seen(t, row) = store[row]
  <1>1. CASE req[t] = Idle /\ \A row \in Row : holder[row] # t
    BY <1>1 DEF Seen
  <1>2. CASE req[t] = [pc |-> "run", kind |-> req[t].kind, todo |-> req[t].todo]
    <2>1. req[t].pc = "run"
      BY <1>2
    <2> QED BY <2>1 DEF Active
  <1> QED BY <1>1, <1>2 DEF DevInv, InFlight

LEMMA BeginKeeps ==
  ASSUME DevInv, NEW t \in Txn, ~Active(t), NEW kind, NEW todo,
         t = Worker => kind \notin {"claim", "select"},
         Statements(t, kind, todo), Begin(t, kind, todo)
  PROVE  DevInv'
  <1> DEFINE r == [pc |-> "run", kind |-> kind, todo |-> todo]
  <1>1. Quiet /\ reigns' = reigns /\ rewarded' = rewarded /\ nextBuilding' = nextBuilding
    BY DEF Begin, Quiet, DevInv, Typed
  <1>2. r = [pc |-> "run", kind |-> r.kind, todo |-> r.todo] /\ r.kind = kind /\ r.todo = todo
    OBVIOUS
  <1> HIDE DEF r
  <1>3. req' = [req EXCEPT ![t] = r] /\ req = [u \in Txn |-> req[u]]
    BY DEF Begin, DevInv, Typed, r
  <1>4. req'[t] = r /\ (\A u \in Txn \ {t} : req'[u] = req[u]) /\ req' = [u \in Txn |-> req'[u]]
    BY <1>3
  <1>5. Typed'
    BY <1>4 DEF Begin, DevInv, Typed
  <1>6. Statements(t, kind, todo)'
    BY <1>1, QuietTask, StatementsStay DEF DevInv, Typed
  <1>7. Holds(t, kind)'
    BY IdleSees DEF Holds, Begin
  <1>8. InFlight(t)'
    BY <1>2, <1>4, <1>6, <1>7 DEF InFlight
  <1> QED BY <1>1, <1>4, <1>5, <1>8, OneMoves DEF Begin

\* One statement.
LEMMA BeginOne ==
  ASSUME DevInv, NEW t \in Txn, ~Active(t), NEW kind,
         t = Worker => kind \notin {"claim", "select"},
         NEW s, Task(t, kind, s), Begin(t, kind, <<s>>)
  PROVE  DevInv'
  <1>1. <<s>> \in Seq({s})
    OBVIOUS
  <1>2. \A x \in {s} : Task(t, kind, x)
    OBVIOUS
  <1>3. Statements(t, kind, <<s>>)
    BY <1>1, <1>2, TasksAre
  <1> QED BY <1>3, BeginKeeps

\* A statement for each member of a finite set of rows.
LEMMA BeginAll ==
  ASSUME DevInv, NEW t \in Txn, ~Active(t), NEW kind,
         t = Worker => kind \notin {"claim", "select"},
         NEW n \in Nat, NEW todo, todo = [i \in 1 .. n |-> todo[i]],
         \A i \in 1 .. n : Task(t, kind, todo[i]),
         Begin(t, kind, todo)
  PROVE  DevInv'
  <1> DEFINE S == {todo[i] : i \in 1 .. n}
  <1>1. \A s \in S : Task(t, kind, s)
    OBVIOUS
  <1>2. todo \in Seq(S)
    OBVIOUS
  <1> HIDE DEF S
  <1>3. Statements(t, kind, todo)
    BY <1>1, <1>2, TasksAre
  <1> QED BY <1>3, BeginKeeps

-----------------------------------------------------------------------------
(* The requests.                                                           *)

LEMMA ClientIs == ASSUME NEW t \in Client PROVE t \in Txn /\ t # Worker
  BY DEF Txn

\* What a request that begins has seen is committed.
LEMMA SuppliedIs ==
  ASSUME DevInv, NEW t \in Txn, ~Active(t), NEW item \in Item, MayHave(t, item)
  PROVE  Supplied(item)
  <1>1. \A k \in NeedsTech[item] : k \in Tech
    OBVIOUS
  <1>2. \A k \in NeedsTech[item] : Has(k)
    BY <1>1, IdleSees, RowsAre DEF MayHave, HasTechs, Is, Has
  <1>3. ASSUME NEW key \in NeedsBuilding[item] PROVE Built(key)
    <2>1. PICK b \in BuildingId : Is(t, BuildingOf(b), "active") /\ Seen(t, BuildingOf(b)).key = key
      BY <1>3 DEF MayHave, HasBuilding
    <2>2. store[BuildingOf(b)].status = "active" /\ store[BuildingOf(b)].key = key
      BY <2>1, IdleSees, RowsAre DEF Is
    <2>3. store[BuildingOf(b)] # Absent
      BY <2>2, StatusFacts
    <2> QED BY <2>2, <2>3 DEF Built
  <1> QED BY <1>2, <1>3 DEF Supplied

LEMMA StatementIs ==
  ASSUME NEW op, NEW row, NEW new
  PROVE  LET s == Statement(op, row, new) IN
         s.op = op /\ s.row = row /\ s.new = new /\ s = Statement(s.op, s.row, s.new)
  BY DEF Statement

LEMMA QueueKeeps ==
  ASSUME DevInv, NEW t \in Client, ~Active(t), NEW k \in Tech, Queue(t, k)
  PROVE  DevInv'
  <1> DEFINE s == Statement("upsert", TechOf(k), Status("in_progress"))
  <1>1. store[TechOf(k)] = Absent
    BY ClientIs, IdleSees, RowsAre, StatusFacts DEF Queue, Known, Is, DevInv, Rows, RowTypes
  <1>2. \A r \in Requires[k] : Has(r)
    BY ClientIs, IdleSees, RowsAre DEF Queue, HasTechs, Is, Has
  <1>3. KeepsTech(TechOf(k), Status("in_progress"))
    BY <1>1, <1>2 DEF KeepsTech
  <1>4. Task(t, "queue", s)
    BY <1>3, ClientIs, StatementIs DEF Task, ClientTask, ClientKeeps
  <1>5. Begin(t, "queue", <<s>>)
    BY DEF Queue
  <1> QED BY <1>4, <1>5, ClientIs, BeginOne

LEMMA ConstructKeeps ==
  ASSUME DevInv, NEW t \in Client, ~Active(t), NEW key \in Building, NEW count \in 1 .. MaxCount,
         Construct(t, key, count)
  PROVE  DevInv'
  <1> DEFINE v == NewBuilding(key, "under_construction")
             s == Statement("create", Ruler, v)
             todo == [n \in 1 .. count |-> s]
  <1>1. Entitled(key)
    BY ClientIs, SuppliedIs DEF Construct, Entitled, Item
  <1>2. IsBuilding(v) /\ v.key = key
    BY DEF IsBuilding, NewBuilding
  <1>3. Task(t, "construct", s)
    <2> HIDE DEF v
    <2> QED BY <1>1, <1>2, ClientIs, StatementIs DEF Task, ClientTask
  <1>4. Begin(t, "construct", todo)
    BY DEF Construct
  <1> HIDE DEF s
  <1>5. count \in Nat /\ todo = [i \in 1 .. count |-> todo[i]] /\ \A i \in 1 .. count : todo[i] = s
    OBVIOUS
  <1> HIDE DEF todo
  <1> QED BY <1>3, <1>4, <1>5, ClientIs, BeginAll

LEMMA UpgradeKeeps ==
  ASSUME DevInv, NEW t \in Client, ~Active(t), NEW b \in BuildingId, Upgrade(t, b)
  PROVE  DevInv'
  <1> DEFINE row == store[BuildingOf(b)]
             v == [row EXCEPT !.level = row.level + 1, !.status = "under_construction"]
             s == Statement("update", BuildingOf(b), v)
  <1>1. Seen(t, BuildingOf(b)) = row
    BY ClientIs, IdleSees, RowsAre
  <1>2. row.status = "active" /\ Begin(t, "upgrade", <<s>>)
    BY <1>1 DEF Upgrade, Upgradable
  <1>3. IsBuilding(row)
    BY <1>2, StatusFacts DEF DevInv, Rows, RowTypes
  <1>4. IsBuilding(v) /\ v.key = row.key
    <2>1. PICK status, key, level : row = [status |-> status, key |-> key, level |-> level]
      BY <1>3 DEF IsBuilding
    <2> HIDE DEF row
    <2>2. row.status = status /\ row.key = key /\ row.level = level
      BY <2>1
    <2>3. v = [row EXCEPT !.level = level + 1, !.status = "under_construction"]
      BY <2>2
    <2>4. [row EXCEPT !.level = level + 1] = [status |-> status, key |-> key, level |-> level + 1]
      BY <2>1
    <2>5. v = [status |-> "under_construction", key |-> key, level |-> level + 1]
      <3> DEFINE w == [status |-> status, key |-> key, level |-> level + 1]
      <3>1. v = [[row EXCEPT !.level = level + 1] EXCEPT !.status = "under_construction"]
        BY <2>1, <2>3
      <3>2. [w EXCEPT !.status = "under_construction"]
              = [status |-> "under_construction", key |-> key, level |-> level + 1]
        OBVIOUS
      <3> QED BY <2>4, <3>1, <3>2
    <2> HIDE DEF v
    <2>6. key \in Building
      BY <1>3, <2>2 DEF IsBuilding
    <2> QED BY <2>2, <2>5, <2>6 DEF IsBuilding
  <1>5. row # Absent
    BY <1>3, BuildingFacts
  <1>6. Entitled(row.key)
    BY <1>5 DEF DevInv, Rows, PrerequisitesHeld, Entitled
  <1>7. b < nextBuilding
    BY <1>5 DEF DevInv, Rows, Fresh
  <1> HIDE DEF v
  <1>8. KeepsBuilding(BuildingOf(b), v)
    BY <1>2, <1>4, <1>6, <1>7 DEF KeepsBuilding, Working
  <1>9. Task(t, "upgrade", s)
    BY <1>8, ClientIs, StatementIs DEF Task, ClientTask, ClientKeeps
  <1> QED BY <1>2, <1>9, ClientIs, BeginOne

LEMMA TrainKeeps ==
  ASSUME DevInv, NEW t \in Client, ~Active(t), NEW u \in Unit, NEW count, Train(t, u, count)
  PROVE  DevInv'
  <1> DEFINE s == Statement("adjust", UnitOf(u), [status |-> "idle", count |-> count])
  <1>1. Supplied(u)
    BY ClientIs, SuppliedIs DEF Train, Item
  <1>2. Task(t, "train", s)
    BY <1>1, ClientIs, StatementIs DEF Task, ClientTask, KeepsUnit
  <1>3. Begin(t, "train", <<s>>)
    BY DEF Train
  <1> HIDE DEF s
  <1> QED BY <1>2, <1>3, ClientIs, BeginOne

LEMMA ClaimKeeps ==
  ASSUME DevInv, NEW t \in Client, ~Active(t), NEW m \in Mission, Claim(t, m)
  PROVE  DevInv'
  <1> DEFINE s == Statement("update", MissionOf(m), Status("claimed"))
  <1>1. store[MissionOf(m)].status = "completed"
    BY ClientIs, IdleSees, RowsAre DEF Claim, Claimable, Is
  <1>2. store[MissionOf(m)] = Status("completed")
    BY <1>1, StatusFacts DEF DevInv, Rows, RowTypes
  <1>3. KeepsMission("claim", MissionOf(m), Status("claimed"))
    BY <1>2 DEF KeepsMission
  <1>4. Task(t, "claim", s)
    BY <1>3, ClientIs, StatementIs DEF Task, ClientTask, ClientKeeps
  <1>5. Begin(t, "claim", <<s>>)
    BY DEF Claim
  <1> HIDE DEF s
  <1> QED BY <1>4, <1>5, ClientIs, BeginOne

LEMMA AbandonKeeps ==
  ASSUME DevInv, NEW t \in Client, ~Active(t), Abandon(t)
  PROVE  DevInv'
  <1> DEFINE s == Statement("update", Ruler, Status("free"))
  <1>1. Task(t, "abandon", s)
    BY ClientIs, StatementIs DEF Task, ClientTask, ClientKeeps
  <1>2. Begin(t, "abandon", <<s>>)
    BY DEF Abandon
  <1> HIDE DEF s
  <1> QED BY <1>1, <1>2, ClientIs, BeginOne

LEMMA Joined ==
  ASSUME NEW t, NEW kind, NEW one, NEW two,
         Statements(t, kind, one), Statements(t, kind, two)
  PROVE  Statements(t, kind, one \o two)
  <1> DEFINE R == Range(one)  S == Range(two)  U == R \cup S
  <1>1. one \in Seq(R) /\ two \in Seq(S) /\ \A s \in U : Task(t, kind, s)
    BY DEF Statements
  <1> HIDE DEF R, S
  <1>2. one \in Seq(U) /\ two \in Seq(U)
    BY <1>1
  <1> HIDE DEF U
  <1>3. one \o two \in Seq(U)
    BY <1>2
  <1> QED BY <1>1, <1>3, TasksAre

LEMMA AllStatements ==
  ASSUME NEW t, NEW kind, NEW n \in Nat, NEW todo, todo = [i \in 1 .. n |-> todo[i]],
         \A i \in 1 .. n : Task(t, kind, todo[i])
  PROVE  Statements(t, kind, todo)
  <1> DEFINE S == {todo[i] : i \in 1 .. n}
  <1>1. \A s \in S : Task(t, kind, s)
    OBVIOUS
  <1>2. todo \in Seq(S)
    OBVIOUS
  <1> HIDE DEF S
  <1> QED BY <1>1, <1>2, TasksAre

\* What a selection inserts.
LEMMA SeedsAre ==
  ASSUME NEW t \in Client
  PROVE  Statements(t, "select", Seeds)
  <1> DEFINE techs == {TechOf(k) : k \in StartTech}
             one == Inserts(techs, Status("completed"))
             two == [n \in DOMAIN StartBuilding |->
                      Statement("create", Ruler, NewBuilding(StartBuilding[n], "active"))]
             three == Upserts(MissionRow, Status("active"))
  <1>1. Statements(t, "select", one)
    <2>1. Cardinality(techs) \in Nat /\ \A n \in 1 .. Cardinality(techs) : SetToSeq(techs)[n] \in techs
      BY StartTechFinite, Listed
    <2>2. one = [n \in 1 .. Cardinality(techs) |->
                  Statement("missing", SetToSeq(techs)[n], Status("completed"))]
      BY DEF Inserts
    <2>3. ASSUME NEW n \in 1 .. Cardinality(techs) PROVE Task(t, "select", one[n])
      <3>1. one[n] = Statement("missing", SetToSeq(techs)[n], Status("completed"))
        BY <2>2
      <3>2. PICK k \in StartTech : SetToSeq(techs)[n] = TechOf(k)
        BY <2>1
      <3>3. one[n] = Statement("missing", TechOf(k), Status("completed"))
        BY <3>1, <3>2
      <3> HIDE DEF one
      <3> QED BY <3>3, ClientIs, StatementIs DEF Task, ClientTask
    <2>4. one = [n \in 1 .. Cardinality(techs) |-> one[n]]
      BY <2>2
    <2> HIDE DEF techs, one
    <2> QED BY <2>1, <2>3, <2>4, AllStatements
  <1>2. Statements(t, "select", two)
    <2>1. Len(StartBuilding) \in Nat /\ DOMAIN StartBuilding = 1 .. Len(StartBuilding)
      OBVIOUS
    <2>2. ASSUME NEW n \in DOMAIN StartBuilding PROVE Task(t, "select", two[n])
      <3> DEFINE v == NewBuilding(StartBuilding[n], "active")
      <3>1. IsBuilding(v) /\ v.key = StartBuilding[n]
        BY DEF IsBuilding, NewBuilding
      <3>2. Entitled(v.key)
        BY <3>1 DEF Entitled, Range
      <3> HIDE DEF v
      <3>3. Task(t, "select", Statement("create", Ruler, v))
        BY <3>1, <3>2, ClientIs, StatementIs DEF Task, ClientTask
      <3> QED BY <3>3 DEF v
    <2>3. two = [n \in 1 .. Len(StartBuilding) |-> two[n]]
      BY <2>1
    <2> HIDE DEF two
    <2> QED BY <2>1, <2>2, <2>3, AllStatements
  <1>3. Statements(t, "select", three)
    <2>1. Cardinality(MissionRow) \in Nat
          /\ \A n \in 1 .. Cardinality(MissionRow) : SetToSeq(MissionRow)[n] \in MissionRow
      BY MissionsFinite, Listed
    <2>2. three = [n \in 1 .. Cardinality(MissionRow) |->
                    Statement("upsert", SetToSeq(MissionRow)[n], Status("active"))]
      BY DEF Upserts
    <2>3. ASSUME NEW n \in 1 .. Cardinality(MissionRow) PROVE Task(t, "select", three[n])
      <3>1. three[n] = Statement("upsert", SetToSeq(MissionRow)[n], Status("active"))
        BY <2>2
      <3>2. KeepsMission("select", SetToSeq(MissionRow)[n], Status("active"))
        BY <2>1 DEF KeepsMission, MissionRow
      <3> QED BY <3>1, <3>2, ClientIs, StatementIs DEF Task, ClientTask, ClientKeeps
    <2>4. three = [n \in 1 .. Cardinality(MissionRow) |-> three[n]]
      BY <2>2
    <2> HIDE DEF three
    <2> QED BY <2>1, <2>3, <2>4, AllStatements
  <1>4. Seeds = (one \o two) \o three
    BY DEF Seeds
  <1> HIDE DEF one, two, three
  <1> QED BY <1>1, <1>2, <1>3, <1>4, Joined

\* A transaction that writes one row it may keep, and has these statements left.
LEMMA WriteKeeps ==
  ASSUME DevInv, NEW t \in Txn, NEW kind, NEW row \in Row, NEW value, NEW todo,
         t = Worker => kind \notin {"claim", "select"},
         Write(t, row, value), Holds(t, kind), Keeps(t, kind, row, value)',
         Statements(t, kind, todo),
         req' = [req EXCEPT ![t] = [pc |-> "run", kind |-> kind, todo |-> todo]],
         nextBuilding' \in Nat, nextBuilding' >= nextBuilding,
         UNCHANGED <<expired, rewarded, reigns>>
  PROVE  DevInv'
  <1> DEFINE r == [pc |-> "run", kind |-> kind, todo |-> todo]
  <1>1. Quiet /\ reigns' = reigns /\ rewarded' = rewarded /\ nextBuilding \in Nat
    BY DEF Write, Quiet, DevInv, Typed
  <1>2. r = [pc |-> "run", kind |-> r.kind, todo |-> r.todo] /\ r.kind = kind /\ r.todo = todo
    OBVIOUS
  <1> HIDE DEF r
  <1>3. req' = [req EXCEPT ![t] = r] /\ req = [u \in Txn |-> req[u]]
    BY DEF DevInv, Typed, r
  <1>4. req'[t] = r /\ (\A u \in Txn \ {t} : req'[u] = req[u]) /\ req' = [u \in Txn |-> req'[u]]
    BY <1>3
  <1>5. /\ holder' = [holder EXCEPT ![row] = t] /\ holder' \in [Row -> Txn \cup {NoTxn}]
        /\ pending' = [pending EXCEPT ![row] = value] /\ pending = [x \in Row |-> pending[x]]
        /\ holder \in [Row -> Txn \cup {NoTxn}]
    BY DEF Write, DevInv, Typed
  <1>6. /\ pending' = [x \in Row |-> pending'[x]] /\ pending'[row] = value
        /\ \A x \in Row : x # row => pending'[x] = pending[x] /\ holder'[x] = holder[x]
        /\ holder'[row] = t
    BY <1>5
  <1>7. Typed'
    BY <1>1, <1>4, <1>5, <1>6 DEF Write, DevInv, Typed
  <1>8. Statements(t, kind, todo)'
    BY <1>1, QuietTask, StatementsStay
  <1>9. Holds(t, kind)'
    <2> SUFFICES ASSUME NEW x \in Row, holder'[x] = t PROVE Keeps(t, kind, x, pending[x])'
      BY DEF Holds
    <2>1. CASE x = row
      BY <2>1, <1>6
    <2>2. CASE x # row
      <3>1. Keeps(t, kind, x, pending[x])
        BY <2>2, <1>6 DEF Holds
      <3> QED BY <2>2, <3>1, <1>1, <1>6, QuietKeeps
    <2> QED BY <2>1, <2>2
  <1>10. InFlight(t)'
    BY <1>2, <1>4, <1>8, <1>9 DEF InFlight
  <1>11. \A u \in Txn \ {t}, x \in Row : holder'[x] = u => holder[x] = u /\ pending'[x] = pending[x]
    BY <1>6
  <1> QED BY <1>1, <1>4, <1>7, <1>10, <1>11, OneMoves

LEMMA SelectKeeps ==
  ASSUME DevInv, NEW t \in Client, ~Active(t), Select(t)
  PROVE  DevInv'
  <1>1. Holds(t, "select")
    BY ClientIs, IdleSees DEF Holds
  <1>2. Keeps(t, "select", Ruler, Status("ruled"))'
    BY ClientIs DEF Keeps, ClientKeeps
  <1> QED BY <1>1, <1>2, ClientIs, SeedsAre, RowsAre, WriteKeeps DEF Select, DevInv, Typed

LEMMA RequestKeeps ==
  ASSUME DevInv, NEW t \in Client, Request(t)
  PROVE  DevInv'
  BY SelectKeeps, QueueKeeps, ConstructKeeps, UpgradeKeeps, TrainKeeps, ClaimKeeps, AbandonKeeps
     DEF Request

-----------------------------------------------------------------------------
(* The phases of the tick.                                                 *)

LEMMA CompleteKeeps ==
  ASSUME DevInv, ~Active(Worker), Complete
  PROVE  DevInv'
  <1> DEFINE due == {row \in BuildingRow : Is(Worker, row, "under_construction") /\ Due(row)}
             n == Cardinality(due)
             todo == [i \in 1 .. n |-> Statement("status", SetToSeq(due)[i], Status("active"))]
  <1>1. due \in SUBSET BuildingRow
    OBVIOUS
  <1>2. n \in Nat /\ \A i \in 1 .. n : SetToSeq(due)[i] \in due
    BY <1>1, BuildingFinite, Listed
  <1>3. ASSUME NEW row \in due PROVE Task(Worker, "complete", Statement("status", row, Status("active")))
    <2>1. PICK b \in BuildingId : row = BuildingOf(b)
      BY DEF BuildingRow
    <2>2. store[BuildingOf(b)].status = "under_construction" /\ BuildingOf(b) \in expired
      BY <2>1, IdleSees, RowsAre DEF Is, Due, Txn
    <2>3. Task(Worker, "complete", Statement("status", BuildingOf(b), Status("active")))
      BY <2>2, StatementIs DEF Task, WorkerTask, CompleteTask
    <2> QED BY <2>1, <2>3
  <1>4. ASSUME NEW i \in 1 .. n PROVE Task(Worker, "complete", todo[i])
    <2>1. todo[i] = Statement("status", SetToSeq(due)[i], Status("active"))
      OBVIOUS
    <2> HIDE DEF due, todo
    <2> QED BY <2>1, <1>2, <1>3
  <1>5. todo = [i \in 1 .. n |-> todo[i]]
    OBVIOUS
  <1>6. Begin(Worker, "complete", todo)
    BY DEF Complete
  <1> HIDE DEF n, todo
  <1> QED BY <1>2, <1>4, <1>5, <1>6, BeginAll DEF Txn

LEMMA AdvanceKeeps ==
  ASSUME DevInv, ~Active(Worker), Advance
  PROVE  DevInv'
  <1> DEFINE due == {row \in TechRow : Is(Worker, row, "in_progress") /\ Due(row)}
             n == Cardinality(due)
             todo == [i \in 1 .. n |-> Statement("status", SetToSeq(due)[i], Status("completed"))]
  <1>1. due \in SUBSET TechRow
    OBVIOUS
  <1>2. n \in Nat /\ \A i \in 1 .. n : SetToSeq(due)[i] \in due
    BY <1>1, TechFinite, Listed
  <1>3. ASSUME NEW row \in due PROVE Task(Worker, "advance", Statement("status", row, Status("completed")))
    <2>1. PICK k \in Tech : row = TechOf(k)
      BY DEF TechRow
    <2>2. store[TechOf(k)].status = "in_progress" /\ TechOf(k) \in expired
      BY <2>1, IdleSees, RowsAre DEF Is, Due, Txn
    <2>3. store[TechOf(k)] = Status("in_progress")
      BY <2>2, StatusFacts DEF DevInv, Rows, RowTypes
    <2>4. Task(Worker, "advance", Statement("status", TechOf(k), Status("completed")))
      BY <2>2, <2>3, StatementIs DEF Task, WorkerTask, AdvanceTask
    <2> QED BY <2>1, <2>4
  <1>4. ASSUME NEW i \in 1 .. n PROVE Task(Worker, "advance", todo[i])
    <2>1. todo[i] = Statement("status", SetToSeq(due)[i], Status("completed"))
      OBVIOUS
    <2> HIDE DEF due, todo
    <2> QED BY <2>1, <1>2, <1>3
  <1>5. todo = [i \in 1 .. n |-> todo[i]]
    OBVIOUS
  <1>6. Begin(Worker, "advance", todo)
    BY DEF Advance
  <1> HIDE DEF n, todo
  <1> QED BY <1>2, <1>4, <1>5, <1>6, BeginAll DEF Txn

LEMMA EvaluateKeeps ==
  ASSUME DevInv, ~Active(Worker), Evaluate
  PROVE  DevInv'
  <1>1. PICK done \in SUBSET Evaluated :
          Begin(Worker, "evaluate", [i \in 1 .. Cardinality(Evaluated) |->
            LET row == SetToSeq(Evaluated)[i] IN
            Statement("upsert", row, Status(IF row \in done THEN "completed" ELSE "active"))])
    BY DEF Evaluate
  <1> DEFINE n == Cardinality(Evaluated)
             After(row) == Status(IF row \in done THEN "completed" ELSE "active")
             todo == [i \in 1 .. n |->
                       Statement("upsert", SetToSeq(Evaluated)[i], After(SetToSeq(Evaluated)[i]))]
  <1>2. IsFiniteSet(Evaluated)
    BY MissionsFinite, FS_Subset DEF Evaluated
  <1>3. n \in Nat /\ \A i \in 1 .. n : SetToSeq(Evaluated)[i] \in Evaluated
    BY <1>2, Listed
  <1>4. ASSUME NEW row \in Evaluated PROVE Task(Worker, "evaluate", Statement("upsert", row, After(row)))
    <2>1. PICK m \in Mission : row = MissionOf(m) /\ Is(Worker, row, "active")
      BY DEF Evaluated, MissionRow
    <2>2. store[MissionOf(m)].status = "active"
      BY <2>1, IdleSees, RowsAre DEF Is, Txn
    <2>3. store[MissionOf(m)] = Status("active")
      BY <2>2, StatusFacts DEF DevInv, Rows, RowTypes
    <2>4. After(row) \in {Status("active"), Status("completed")}
      OBVIOUS
    <2> HIDE DEF After
    <2>5. Evaluates(row, After(row))
      BY <2>1, <2>3, <2>4 DEF Evaluates
    <2> QED BY <2>5, StatementIs DEF Task, WorkerTask
  <1>5. ASSUME NEW i \in 1 .. n PROVE Task(Worker, "evaluate", todo[i])
    <2> HIDE DEF After
    <2>1. todo[i] = Statement("upsert", SetToSeq(Evaluated)[i], After(SetToSeq(Evaluated)[i]))
      OBVIOUS
    <2> HIDE DEF todo
    <2> QED BY <2>1, <1>3, <1>4
  <1>6. todo = [i \in 1 .. n |-> todo[i]]
    OBVIOUS
  <1>7. Begin(Worker, "evaluate", todo)
    BY <1>1
  <1> HIDE DEF n, todo
  <1> QED BY <1>3, <1>5, <1>6, <1>7, BeginAll DEF Txn

LEMMA PhaseKeeps == ASSUME DevInv, Phase PROVE DevInv'
  BY CompleteKeeps, AdvanceKeeps, EvaluateKeeps DEF Phase

-----------------------------------------------------------------------------
(* A transaction runs.                                                     *)

LEMMA RunIs ==
  ASSUME DevInv, NEW t \in Txn, Active(t)
  PROVE  /\ req[t] = [pc |-> "run", kind |-> req[t].kind, todo |-> req[t].todo]
         /\ t = Worker => req[t].kind \notin {"claim", "select"}
         /\ Holds(t, req[t].kind)
         /\ Statements(t, req[t].kind, req[t].todo)
  BY DEF DevInv, InFlight, Active, Idle

LEMMA TodoChanges ==
  ASSUME DevInv, NEW t \in Txn, Active(t), NEW todo, req' = [req EXCEPT ![t].todo = todo]
  PROVE  req' = [req EXCEPT ![t] = [pc |-> "run", kind |-> req[t].kind, todo |-> todo]]
  <1>1. req[t] = [pc |-> "run", kind |-> req[t].kind, todo |-> req[t].todo]
    BY RunIs
  <1>2. PICK kind, old : req[t] = [pc |-> "run", kind |-> kind, todo |-> old]
    BY <1>1
  <1>3. [req[t] EXCEPT !.todo = todo] = [pc |-> "run", kind |-> kind, todo |-> todo]
    BY <1>2
  <1>4. kind = req[t].kind
    BY <1>2
  <1>5. req' = [req EXCEPT ![t] = [req[t] EXCEPT !.todo = todo]]
    BY DEF DevInv, Typed
  <1> QED BY <1>3, <1>4, <1>5

\* A step that only changes the statements that are left.
LEMMA LookOnKeeps ==
  ASSUME DevInv, NEW t \in Txn, Active(t), NEW todo, NEW kind, kind = req[t].kind,
         Statements(t, kind, todo), req' = [req EXCEPT ![t].todo = todo],
         UNCHANGED <<store, holder, pending, nextBuilding, expired, rewarded, reigns>>
  PROVE  DevInv'
  <1> DEFINE r == [pc |-> "run", kind |-> kind, todo |-> todo]
  <1>1. r = [pc |-> "run", kind |-> r.kind, todo |-> r.todo] /\ r.kind = kind /\ r.todo = todo
    OBVIOUS
  <1>2. req' = [req EXCEPT ![t] = r]
    BY TodoChanges
  <1> HIDE DEF r
  <1>3. Quiet /\ nextBuilding' = nextBuilding
    BY DEF Quiet, DevInv, Typed
  <1>4. req'[t] = r /\ (\A u \in Txn \ {t} : req'[u] = req[u]) /\ req' = [u \in Txn |-> req'[u]]
    BY <1>2 DEF DevInv, Typed
  <1>5. Typed'
    BY <1>4 DEF DevInv, Typed
  <1>6. Statements(t, kind, todo)'
    BY <1>3, QuietTask, StatementsStay DEF DevInv, Typed
  <1>7. Holds(t, kind)'
    BY <1>3, RunIs, QuietKeeps DEF Holds, DevInv, Typed
  <1>8. t = Worker => kind \notin {"claim", "select"}
    BY RunIs
  <1>9. InFlight(t)'
    BY <1>1, <1>4, <1>6, <1>7, <1>8 DEF InFlight
  <1> QED BY <1>3, <1>4, <1>5, <1>9, OneMoves

\* Becomes and Rest leave statements that are allowed.
LEMMA BecomesKeeps ==
  ASSUME DevInv, NEW t \in Txn, Active(t), req[t].todo # <<>>, NEW op, NEW new,
         Task(t, req[t].kind, Statement(op, Head(req[t].todo).row, new)),
         Becomes(t, op, new), UNCHANGED <<nextBuilding, expired, rewarded, reigns>>
  PROVE  DevInv'
  <1> DEFINE s == Statement(op, Head(req[t].todo).row, new)
  <1>1. PICK kind, todo : kind = req[t].kind /\ todo = << s >> \o Tail(req[t].todo)
    OBVIOUS
  <1>2. Statements(t, kind, req[t].todo) /\ Task(t, kind, s)
    BY <1>1, RunIs
  <1> HIDE DEF s
  <1>3. Statements(t, kind, todo)
    BY <1>1, <1>2, HeadIsTask
  <1> QED BY <1>1, <1>3, LookOnKeeps DEF Becomes, s

LEMMA RestKeeps ==
  ASSUME DevInv, NEW t \in Txn, Active(t), req[t].todo # <<>>, Rest(t),
         UNCHANGED <<store, holder, pending, nextBuilding, expired, rewarded, reigns>>
  PROVE  DevInv'
  <1>1. PICK kind, todo : kind = req[t].kind /\ todo = Tail(req[t].todo)
    OBVIOUS
  <1>2. Statements(t, kind, todo)
    BY <1>1, RunIs, HeadIsTask
  <1> QED BY <1>1, <1>2, LookOnKeeps DEF Rest

\* A technology that the transaction does not see is not there.
LEMMA AbsentIs ==
  ASSUME DevInv, NEW t \in Txn, Active(t), t # Worker, NEW k \in Tech, Seen(t, TechOf(k)) = Absent
  PROVE  store[TechOf(k)] = Absent
  <1>1. CASE holder[TechOf(k)] = t
    <2>1. ClientKeeps(req[t].kind, TechOf(k), pending[TechOf(k)])
      BY <1>1, RunIs, RowsAre DEF Holds, Keeps
    <2>2. KeepsTech(TechOf(k), pending[TechOf(k)])
      BY <2>1, RowKeys DEF ClientKeeps, KeepsBuilding, KeepsUnit, KeepsMission
    <2> QED BY <2>2 DEF KeepsTech
  <1>2. CASE holder[TechOf(k)] # t
    BY <1>2 DEF Seen
  <1> QED BY <1>1, <1>2

LEMMA LookKeeps ==
  ASSUME DevInv, NEW t \in Txn, Active(t), req[t].todo # <<>>, Look(t),
         UNCHANGED <<expired, rewarded, reigns>>
  PROVE  DevInv'
  <1> DEFINE s == Head(req[t].todo)
             row == Seen(t, s.row)
  <1>1. PICK kind : kind = req[t].kind
    OBVIOUS
  <1>2. Task(t, kind, s)
    BY <1>1, RunIs, HeadIsTask
  <1>3. nextBuilding' = nextBuilding
    BY DEF Look
  <1>4. CASE row = Absent
    <2>1. Becomes(t, "insert", s.new)
      BY <1>4 DEF Look
    <2>2. Task(t, kind, Statement("insert", s.row, s.new))
      <3> HIDE DEF s
      <3>1. CASE t = Worker
        BY <3>1, <1>2, StatementIs DEF Look, Task, WorkerTask, s
      <3>2. CASE t # Worker
        <4>1. ASSUME s.op = "missing" PROVE ClientKeeps(kind, s.row, s.new)
          <5>1. s.new = Status("completed") /\ \E k \in StartTech : s.row = TechOf(k)
            BY <1>2, <3>2, <4>1 DEF Task, ClientTask
          <5>2. PICK k \in StartTech : s.row = TechOf(k)
            BY <5>1
          <5>3. store[TechOf(k)] = Absent
            BY <1>4, <3>2, <5>2, AbsentIs
          <5> QED BY <5>1, <5>2, <5>3 DEF ClientKeeps, KeepsTech
        <4>2. ASSUME s.op = "adjust" PROVE ClientKeeps(kind, s.row, s.new)
          BY <1>2, <3>2, <4>2 DEF Task, ClientTask, ClientKeeps
        <4>3. ASSUME s.op = "upsert" PROVE ClientKeeps(kind, s.row, s.new)
          BY <1>2, <3>2, <4>3 DEF Task, ClientTask
        <4>4. s.op \in {"upsert", "adjust", "missing"}
          BY DEF Look, s
        <4> QED BY <3>2, <4>1, <4>2, <4>3, <4>4, StatementIs DEF Task, ClientTask
      <3> QED BY <3>1, <3>2
    <2> QED BY <1>1, <1>3, <2>1, <2>2, BecomesKeeps
  <1>5. CASE row # Absent /\ s.op = "upsert"
    <2>1. Becomes(t, "update", s.new)
      BY <1>5 DEF Look
    <2> HIDE DEF s
    <2>2. Task(t, kind, Statement("update", s.row, s.new))
      BY <1>2, <1>5, StatementIs DEF Task, WorkerTask, ClientTask
    <2> USE DEF s
    <2> QED BY <1>1, <1>3, <2>1, <2>2, BecomesKeeps
  <1>6. CASE row # Absent /\ s.op = "adjust"
    <2>1. Becomes(t, "update", [row EXCEPT !.count = row.count + s.new.count])
      BY <1>6 DEF Look
    <2>2. PICK new : new = [row EXCEPT !.count = row.count + s.new.count]
      OBVIOUS
    <2> HIDE DEF s
    <2>3. t # Worker /\ KeepsUnit(s.row)
      BY <1>2, <1>6 DEF Task, WorkerTask, ClientTask
    <2>4. Task(t, kind, Statement("update", s.row, new))
      BY <2>3, StatementIs DEF Task, ClientTask, ClientKeeps
    <2> USE DEF s
    <2>5. Becomes(t, "update", new)
      BY <2>1, <2>2
    <2> QED BY <1>1, <1>3, <2>4, <2>5, BecomesKeeps
  <1>7. CASE row # Absent /\ s.op = "missing"
    <2>1. Rest(t) /\ UNCHANGED <<store, holder, pending>>
      BY <1>7 DEF Look
    <2> QED BY <1>3, <2>1, RestKeeps
  <1> QED BY <1>4, <1>5, <1>6, <1>7 DEF Look

\* The flush of a phase writes what the worker may commit.
LEMMA StatusKeeps ==
  ASSUME DevInv, Active(Worker), NEW s, WorkerTask(s), s.op = "status"
  PROVE  s.row \in Row /\ WorkerKeeps(s.row, [Seen(Worker, s.row) EXCEPT !.status = s.new.status])
  <1> DEFINE old == Seen(Worker, s.row)
             v == [old EXCEPT !.status = s.new.status]
  <1>1. Worker \in Txn
    BY DEF Txn
  <1>2. ASSUME NEW row \in Row PROVE Seen(Worker, row) = store[row] \/ WorkerKeeps(row, Seen(Worker, row))
    BY <1>1, RunIs DEF Holds, Keeps, Seen
  <1>3. CASE AdvanceTask(s)
    <2>1. PICK k \in Tech : /\ s.row = TechOf(k) /\ store[s.row] = Status("in_progress")
                            /\ s.row \in expired /\ s.new = Status("completed")
      BY <1>3 DEF AdvanceTask
    <2>2. s.row \in Row /\ s.new.status = "completed"
      BY <2>1, RowsAre, StatusFacts
    <2>3. WorkerKeeps(s.row, old) => old = Status("completed")
      BY <2>1, RowKeys DEF WorkerKeeps, Advances, Completes, Evaluates
    <2>4. old = Status("in_progress") \/ old = Status("completed")
      BY <1>2, <2>1, <2>2, <2>3
    <2> HIDE DEF old
    <2>5. [Status("in_progress") EXCEPT !.status = "completed"] = Status("completed")
      BY DEF Status
    <2>6. [Status("completed") EXCEPT !.status = "completed"] = Status("completed")
      BY DEF Status
    <2>7. v = Status("completed")
      BY <2>2, <2>4, <2>5, <2>6
    <2>8. Advances(s.row, v)
      BY <2>1, <2>7 DEF Advances
    <2> QED BY <2>2, <2>8 DEF WorkerKeeps, old
  <1>4. CASE CompleteTask(s)
    <2>1. PICK b \in BuildingId :
            /\ s.row = BuildingOf(b) /\ store[s.row].status = "under_construction"
            /\ s.row \in expired /\ s.new = Status("active")
      BY <1>4 DEF CompleteTask
    <2>2. s.row \in Row /\ s.new.status = "active"
      BY <2>1, RowsAre, StatusFacts
    <2>3. WorkerKeeps(s.row, old) => IsBuilding(old) /\ old.key = store[s.row].key
      BY <2>1, RowKeys DEF WorkerKeeps, Advances, Completes, Evaluates
    <2>4. IsBuilding(store[s.row])
      BY <2>1, StatusFacts DEF DevInv, Rows, RowTypes
    <2>5. IsBuilding(old) /\ old.key = store[s.row].key
      BY <1>2, <2>2, <2>3, <2>4
    <2> HIDE DEF old
    <2>6. PICK status, key, level : old = [status |-> status, key |-> key, level |-> level]
      BY <2>5 DEF IsBuilding
    <2>7. [old EXCEPT !.status = "active"] = [status |-> "active", key |-> key, level |-> level]
      BY <2>6
    <2>8. v = [status |-> "active", key |-> key, level |-> level] /\ key = store[s.row].key
      BY <2>2, <2>5, <2>6, <2>7
    <2> HIDE DEF v
    <2>9. IsBuilding(v) /\ v.status = "active" /\ v.key = store[s.row].key
      <3>1. key \in Building
        BY <2>5, <2>6 DEF IsBuilding
      <3> QED BY <2>8, <3>1 DEF IsBuilding
    <2>10. Completes(s.row, v)
      BY <2>1, <2>9 DEF Completes
    <2> QED BY <2>2, <2>10 DEF WorkerKeeps, v, old
  <1> QED BY <1>3, <1>4 DEF WorkerTask

LEMMA ExecuteKeeps ==
  ASSUME DevInv, NEW t \in Txn, Active(t), req[t].todo # <<>>, Execute(t),
         UNCHANGED <<expired, rewarded, reigns>>
  PROVE  DevInv'
  <1> DEFINE s == Head(req[t].todo)
  <1>1. PICK kind, todo, v : /\ kind = req[t].kind /\ todo = Tail(req[t].todo)
                             /\ v = IF s.op = "status"
                                      THEN [Seen(t, s.row) EXCEPT !.status = s.new.status] ELSE s.new
    OBVIOUS
  <1>2. Task(t, kind, s) /\ Statements(t, kind, todo)
    BY <1>1, RunIs, HeadIsTask
  <1>3. Write(t, s.row, v) /\ Rest(t) /\ nextBuilding' = nextBuilding /\ s.op \in {"insert", "update", "status"}
    BY <1>1 DEF Execute
  <1>4. req' = [req EXCEPT ![t] = [pc |-> "run", kind |-> kind, todo |-> todo]]
    BY <1>1, <1>3, TodoChanges DEF Rest
  <1>5. PICK row : row = s.row
    OBVIOUS
  <1>6. Keeps(t, kind, row, v)
    <2> HIDE DEF s
    <2>1. CASE s.op = "status"
      <3>1. t = Worker /\ WorkerTask(s)
        BY <1>2, <2>1 DEF Task, ClientTask
      <3> QED BY <1>1, <1>5, <2>1, <3>1, StatusKeeps DEF Keeps
    <2>2. CASE s.op # "status"
      BY <1>1, <1>2, <1>3, <1>5, <2>2 DEF Task, WorkerTask, ClientTask, Keeps, WorkerKeeps
    <2> QED BY <2>1, <2>2
  <1>7. row \in Row
    BY <1>6, KeptIsRow DEF Keeps
  <1>8. Quiet
    BY <1>3 DEF Quiet, Write, DevInv, Typed
  <1>9. Keeps(t, kind, row, v)'
    BY <1>3, <1>6, <1>8, QuietKeeps DEF DevInv, Typed
  <1>10. (t = Worker => kind \notin {"claim", "select"}) /\ Holds(t, kind)
    BY <1>1, RunIs
  <1>11. Write(t, row, v)
    BY <1>3, <1>5
  <1>12. nextBuilding' \in Nat /\ nextBuilding' >= nextBuilding
    BY <1>3 DEF DevInv, Typed
  <1> QED BY <1>2, <1>4, <1>7, <1>9, <1>10, <1>11, <1>12, WriteKeeps

LEMMA CreateKeeps ==
  ASSUME DevInv, NEW t \in Txn, Active(t), req[t].todo # <<>>, CreateBuilding(t),
         UNCHANGED <<expired, rewarded, reigns>>
  PROVE  DevInv'
  <1> DEFINE s == Head(req[t].todo)
  <1>1. PICK kind, todo, v, b : /\ kind = req[t].kind /\ todo = Tail(req[t].todo)
                                /\ v = s.new /\ b = nextBuilding
    OBVIOUS
  <1>2. Task(t, kind, s) /\ Statements(t, kind, todo)
    BY <1>1, RunIs, HeadIsTask
  <1>3. /\ s.op = "create" /\ b \in BuildingId /\ Write(t, BuildingOf(b), v)
        /\ nextBuilding' = b + 1 /\ Rest(t)
    BY <1>1 DEF CreateBuilding
  <1>4. req' = [req EXCEPT ![t] = [pc |-> "run", kind |-> kind, todo |-> todo]]
    BY <1>1, <1>3, TodoChanges DEF Rest
  <1>5. t # Worker /\ IsBuilding(v) /\ Entitled(v.key)
    <2> HIDE DEF s
    <2> QED BY <1>1, <1>2, <1>3 DEF Task, WorkerTask, ClientTask
  <1>6. b \in Nat /\ store[BuildingOf(b)] = Absent
    BY <1>1, <1>3 DEF DevInv, Rows, Fresh, BuildingId
  <1>7. store' = store /\ expired' = expired /\ nextBuilding' \in Nat /\ nextBuilding' >= nextBuilding /\ b < nextBuilding'
    BY <1>1, <1>3, <1>6 DEF Write
  <1>8. Entitled(v.key)'
    BY <1>5, <1>7 DEF Entitled, Supplied, Has, Built
  <1>9. KeepsBuilding(BuildingOf(b), v)'
    BY <1>3, <1>5, <1>6, <1>7, <1>8, StatusFacts DEF KeepsBuilding, Working, IsBuilding
  <1>10. Keeps(t, kind, BuildingOf(b), v)'
    BY <1>5, <1>9 DEF Keeps, ClientKeeps
  <1>11. (t = Worker => kind \notin {"claim", "select"}) /\ Holds(t, kind)
    BY <1>1, RunIs
  <1> HIDE DEF s
  <1> QED BY <1>2, <1>3, <1>4, <1>7, <1>10, <1>11, RowsAre, WriteKeeps

LEMMA FailKeeps ==
  ASSUME DevInv, NEW t \in Txn, Fail(t)
  PROVE  DevInv'
  <1>1. Quiet /\ reigns' = reigns /\ rewarded' = rewarded
    BY DEF Fail, ForgetWrites, Quiet, DevInv, Typed
  <1>2. req'[t] = Idle /\ (\A u \in Txn \ {t} : req'[u] = req[u]) /\ req' = [u \in Txn |-> req'[u]]
    BY DEF Fail, Finish, DevInv, Typed
  <1>3. /\ holder' = [row \in Row |-> IF holder[row] = t THEN NoTxn ELSE holder[row]]
        /\ pending' = [row \in Row |-> IF holder[row] = t THEN store[row] ELSE pending[row]]
        /\ holder \in [Row -> Txn \cup {NoTxn}] /\ t # NoTxn
    BY DEF Fail, ForgetWrites, Release, DevInv, Typed, Txn
  <1>4. Typed'
    BY <1>2, <1>3 DEF Fail, ForgetWrites, DevInv, Typed
  <1>5. \A row \in Row : holder'[row] # t
    BY <1>3
  <1>6. InFlight(t)'
    BY <1>2, <1>5 DEF InFlight, Idle
  <1>7. \A u \in Txn \ {t}, row \in Row :
          holder'[row] = u => holder[row] = u /\ pending'[row] = pending[row]
    BY <1>3 DEF Txn
  <1> QED BY <1>1, <1>2, <1>4, <1>6, <1>7, OneMoves

LEMMA ExpireKeeps ==
  ASSUME DevInv, NEW row, Expire(row)
  PROVE  DevInv'
  <1>1. Quiet /\ reigns' = reigns /\ rewarded' = rewarded /\ Typed'
    BY DEF Expire, Quiet, DevInv, Typed
  <1>2. \A t \in Txn : InFlight(t)'
    BY <1>1, OthersStay DEF DevInv, Expire
  <1>3. Rows'
    BY <1>1, RowsStay DEF DevInv, Typed
  <1> QED BY <1>1, <1>2, <1>3 DEF DevInv

-----------------------------------------------------------------------------
(* A transaction commits.                                                  *)

LEMMA CommitEffect ==
  ASSUME DevInv, NEW t \in Txn, Active(t), Commit(t)
  PROVE  /\ \A row \in Row : store'[row] = IF holder[row] = t THEN pending[row] ELSE store[row]
         /\ \A row \in Row : holder'[row] = IF holder[row] = t THEN NoTxn ELSE holder[row]
         /\ pending' = pending /\ nextBuilding' = nextBuilding
         /\ req'[t] = Idle /\ \A u \in Txn \ {t} : req'[u] = req[u]
         /\ Typed'
  <1>1. /\ store' = [row \in Row |-> IF holder[row] = t THEN pending[row] ELSE store[row]]
        /\ holder' = [row \in Row |-> IF holder[row] = t THEN NoTxn ELSE holder[row]]
        /\ pending' = pending /\ nextBuilding' = nextBuilding
    BY DEF Commit, CommitWrites, Release, Seen
  <1>2. req' = [req EXCEPT ![t] = Idle] /\ req = [u \in Txn |-> req[u]]
    BY DEF Commit, Finish, DevInv, Typed
  <1>3. req'[t] = Idle /\ (\A u \in Txn \ {t} : req'[u] = req[u]) /\ req' = [u \in Txn |-> req'[u]]
    BY <1>2
  <1>4. rewarded' \in [Mission -> Nat] /\ reigns' \in Nat
    BY DEF Commit, DevInv, Typed
  <1>5. holder' \in [Row -> Txn \cup {NoTxn}] /\ store' = [row \in Row |-> store'[row]]
    BY <1>1 DEF DevInv, Typed
  <1>6. Typed'
    BY <1>1, <1>3, <1>4, <1>5 DEF DevInv, Typed
  <1> QED BY <1>1, <1>3, <1>6

\* What the commit of a request changes, table by table.
LEMMA ClientCommits ==
  ASSUME DevInv, NEW t \in Client, Active(t), Commit(t), NEW kind, kind = req[t].kind
  PROVE  /\ \A k \in Tech : \/ store'[TechOf(k)] = store[TechOf(k)] /\ holder[TechOf(k)] # t
                            \/ KeepsTech(TechOf(k), store'[TechOf(k)])
         /\ \A b \in BuildingId : \/ store'[BuildingOf(b)] = store[BuildingOf(b)] /\ holder[BuildingOf(b)] # t
                                  \/ KeepsBuilding(BuildingOf(b), store'[BuildingOf(b)])
         /\ \A u \in Unit : store'[UnitOf(u)] = store[UnitOf(u)] \/ KeepsUnit(UnitOf(u))
         /\ \A m \in Mission :
              \/ store'[MissionOf(m)] = store[MissionOf(m)] /\ holder[MissionOf(m)] # t
              \/ KeepsMission(kind, MissionOf(m), store'[MissionOf(m)]) /\ holder[MissionOf(m)] = t
  <1>1. t \in Txn /\ t # Worker
    BY ClientIs
  <1>2. ASSUME NEW row \in Row
        PROVE  \/ store'[row] = store[row] /\ holder[row] # t
               \/ ClientKeeps(kind, row, store'[row]) /\ holder[row] = t
    <2>1. CASE holder[row] = t
      <3>1. store'[row] = pending[row]
        BY <1>1, <2>1, CommitEffect
      <3>2. ClientKeeps(kind, row, pending[row])
        BY <1>1, <2>1, RunIs DEF Holds, Keeps
      <3> QED BY <2>1, <3>1, <3>2 DEF ClientKeeps, KeepsTech, KeepsBuilding, KeepsMission
    <2> QED BY <1>1, <2>1, CommitEffect
  <1>3. ASSUME NEW k \in Tech, ClientKeeps(kind, TechOf(k), store'[TechOf(k)])
        PROVE  KeepsTech(TechOf(k), store'[TechOf(k)])
    BY <1>3, RowKeys DEF ClientKeeps, KeepsBuilding, KeepsUnit, KeepsMission
  <1>4. ASSUME NEW b \in BuildingId, ClientKeeps(kind, BuildingOf(b), store'[BuildingOf(b)])
        PROVE  KeepsBuilding(BuildingOf(b), store'[BuildingOf(b)])
    BY <1>4, RowKeys DEF ClientKeeps, KeepsTech, KeepsUnit, KeepsMission
  <1>5. ASSUME NEW u \in Unit, ClientKeeps(kind, UnitOf(u), store'[UnitOf(u)])
        PROVE  KeepsUnit(UnitOf(u))
    BY <1>5, RowKeys DEF ClientKeeps, KeepsTech, KeepsBuilding, KeepsMission
  <1>6. ASSUME NEW m \in Mission, ClientKeeps(kind, MissionOf(m), store'[MissionOf(m)])
        PROVE  KeepsMission(kind, MissionOf(m), store'[MissionOf(m)])
    BY <1>6, RowKeys DEF ClientKeeps, KeepsTech, KeepsBuilding, KeepsUnit
  <1>7. \A k \in Tech : \/ store'[TechOf(k)] = store[TechOf(k)] /\ holder[TechOf(k)] # t
                        \/ KeepsTech(TechOf(k), store'[TechOf(k)])
    BY <1>2, <1>3, RowsAre
  <1>8. \A b \in BuildingId : \/ store'[BuildingOf(b)] = store[BuildingOf(b)] /\ holder[BuildingOf(b)] # t
                              \/ KeepsBuilding(BuildingOf(b), store'[BuildingOf(b)])
    BY <1>2, <1>4, RowsAre
  <1>9. \A u \in Unit : store'[UnitOf(u)] = store[UnitOf(u)] \/ KeepsUnit(UnitOf(u))
    BY <1>2, <1>5, RowsAre
  <1>10. \A m \in Mission :
           \/ store'[MissionOf(m)] = store[MissionOf(m)] /\ holder[MissionOf(m)] # t
           \/ KeepsMission(kind, MissionOf(m), store'[MissionOf(m)]) /\ holder[MissionOf(m)] = t
    BY <1>2, <1>6, RowsAre
  <1> QED BY <1>7, <1>8, <1>9, <1>10

\* ... and what the commit of a phase changes.
LEMMA WorkerCommits ==
  ASSUME DevInv, Active(Worker), Commit(Worker)
  PROVE  /\ \A k \in Tech : \/ store'[TechOf(k)] = store[TechOf(k)]
                            \/ Advances(TechOf(k), store'[TechOf(k)])
         /\ \A b \in BuildingId : \/ store'[BuildingOf(b)] = store[BuildingOf(b)]
                                  \/ Completes(BuildingOf(b), store'[BuildingOf(b)])
         /\ \A u \in Unit : store'[UnitOf(u)] = store[UnitOf(u)]
         /\ \A m \in Mission : \/ store'[MissionOf(m)] = store[MissionOf(m)]
                               \/ Evaluates(MissionOf(m), store'[MissionOf(m)])
  <1>1. Worker \in Txn
    BY DEF Txn
  <1>2. ASSUME NEW row \in Row
        PROVE  store'[row] = store[row] \/ WorkerKeeps(row, store'[row])
    <2>1. CASE holder[row] = Worker
      <3>1. store'[row] = pending[row]
        BY <1>1, <2>1, CommitEffect
      <3>2. WorkerKeeps(row, pending[row])
        BY <1>1, <2>1, RunIs DEF Holds, Keeps
      <3> QED BY <3>1, <3>2 DEF WorkerKeeps, Advances, Completes, Evaluates
    <2> QED BY <1>1, <2>1, CommitEffect
  <1>3. ASSUME NEW k \in Tech, WorkerKeeps(TechOf(k), store'[TechOf(k)])
        PROVE  Advances(TechOf(k), store'[TechOf(k)])
    BY <1>3, RowKeys DEF WorkerKeeps, Completes, Evaluates
  <1>4. ASSUME NEW b \in BuildingId, WorkerKeeps(BuildingOf(b), store'[BuildingOf(b)])
        PROVE  Completes(BuildingOf(b), store'[BuildingOf(b)])
    BY <1>4, RowKeys DEF WorkerKeeps, Advances, Evaluates
  <1>5. ASSUME NEW u \in Unit PROVE ~WorkerKeeps(UnitOf(u), store'[UnitOf(u)])
    BY RowKeys DEF WorkerKeeps, Advances, Completes, Evaluates
  <1>6. ASSUME NEW m \in Mission, WorkerKeeps(MissionOf(m), store'[MissionOf(m)])
        PROVE  Evaluates(MissionOf(m), store'[MissionOf(m)])
    BY <1>6, RowKeys DEF WorkerKeeps, Advances, Completes
  <1>7. \A k \in Tech : \/ store'[TechOf(k)] = store[TechOf(k)]
                        \/ Advances(TechOf(k), store'[TechOf(k)])
    BY <1>2, <1>3, RowsAre
  <1>8. \A b \in BuildingId : \/ store'[BuildingOf(b)] = store[BuildingOf(b)]
                              \/ Completes(BuildingOf(b), store'[BuildingOf(b)])
    BY <1>2, <1>4, RowsAre
  <1>9. \A u \in Unit : store'[UnitOf(u)] = store[UnitOf(u)]
    BY <1>2, <1>5, RowsAre
  <1>10. \A m \in Mission : \/ store'[MissionOf(m)] = store[MissionOf(m)]
                            \/ Evaluates(MissionOf(m), store'[MissionOf(m)])
    BY <1>2, <1>6, RowsAre
  <1> QED BY <1>7, <1>8, <1>9, <1>10

\* Whatever commits, the country keeps what it has.
Grows ==
  /\ \A k \in Tech : Has(k) => Has(k)'
  /\ \A key : Built(key) => Built(key)'
  /\ \A i \in Item : Supplied(i) => Supplied(i)'

LEMMA BothGrow ==
  ASSUME \A k \in Tech : Has(k) => Has(k)',
         \A b \in BuildingId : store[BuildingOf(b)] # Absent =>
           store'[BuildingOf(b)] # Absent /\ store'[BuildingOf(b)].key = store[BuildingOf(b)].key
  PROVE  Grows
  <1>1. \A key : Built(key) => Built(key)'
    BY DEF Built
  <1>2. ASSUME NEW i \in Item, Supplied(i) PROVE Supplied(i)'
    <2>1. NeedsTech[i] \subseteq Tech
      OBVIOUS
    <2> QED BY <1>1, <1>2, <2>1 DEF Supplied
  <1> QED BY <1>1, <1>2 DEF Grows

LEMMA ClientGrows ==
  ASSUME DevInv, NEW t \in Client, Active(t), Commit(t)
  PROVE  Grows
  <1>1. PICK kind : kind = req[t].kind
    OBVIOUS
  <1>2. ASSUME NEW k \in Tech, Has(k) PROVE Has(k)'
    <2>1. store[TechOf(k)] # Absent
      BY <1>2, StatusFacts DEF Has
    <2>2. ~KeepsTech(TechOf(k), store'[TechOf(k)])
      BY <2>1 DEF KeepsTech
    <2> QED BY <1>1, <1>2, <2>2, ClientCommits DEF Has
  <1>3. ASSUME NEW b \in BuildingId, store[BuildingOf(b)] # Absent
        PROVE  store'[BuildingOf(b)] # Absent /\ store'[BuildingOf(b)].key = store[BuildingOf(b)].key
    BY <1>1, <1>3, ClientCommits, BuildingFacts DEF KeepsBuilding
  <1> QED BY <1>2, <1>3, BothGrow

LEMMA WorkerGrows ==
  ASSUME DevInv, Active(Worker), Commit(Worker)
  PROVE  Grows
  <1>1. ASSUME NEW k \in Tech, Has(k) PROVE Has(k)'
    BY <1>1, WorkerCommits, StatusFacts DEF Has, Advances
  <1>2. ASSUME NEW b \in BuildingId, store[BuildingOf(b)] # Absent
        PROVE  store'[BuildingOf(b)] # Absent /\ store'[BuildingOf(b)].key = store[BuildingOf(b)].key
    BY <1>2, WorkerCommits, BuildingFacts DEF Completes
  <1> QED BY <1>1, <1>2, BothGrow

\* The committed rows after the commit of a request.
LEMMA ClientRowTypes ==
  ASSUME DevInv, NEW t \in Client, Active(t), Commit(t)
  PROVE  RowTypes' /\ Fresh'
  <1>1. PICK kind : kind = req[t].kind
    OBVIOUS
  <1>2. ASSUME NEW k \in Tech
        PROVE  store'[TechOf(k)] \in {Absent, Status("in_progress"), Status("completed")}
    BY <1>1, ClientCommits DEF KeepsTech, DevInv, Rows, RowTypes
  <1>3. ASSUME NEW b \in BuildingId
        PROVE  /\ store'[BuildingOf(b)] = Absent \/ IsBuilding(store'[BuildingOf(b)])
               /\ store'[BuildingOf(b)] # Absent => b < nextBuilding
    <2>1. CASE store'[BuildingOf(b)] = store[BuildingOf(b)]
      <3>1. store[BuildingOf(b)] = Absent \/ IsBuilding(store[BuildingOf(b)])
        BY DEF DevInv, Rows, RowTypes
      <3>2. store[BuildingOf(b)] # Absent => b < nextBuilding
        BY DEF DevInv, Rows, Fresh
      <3> QED BY <2>1, <3>1, <3>2 DEF IsBuilding
    <2>2. CASE KeepsBuilding(BuildingOf(b), store'[BuildingOf(b)])
      BY <2>2, RowKeys DEF KeepsBuilding
    <2> QED BY <1>1, <2>1, <2>2, ClientCommits
  <1>4. ASSUME NEW m \in Mission
        PROVE  store'[MissionOf(m)] \in {Absent, Status("active"), Status("completed"), Status("claimed")}
    BY <1>1, ClientCommits DEF KeepsMission, DevInv, Rows, RowTypes
  <1>5. nextBuilding' = nextBuilding
    BY DEF Commit
  <1>6. RowTypes'
    BY <1>2, <1>3, <1>4 DEF RowTypes, IsBuilding
  <1>7. Fresh'
    BY <1>3, <1>5 DEF Fresh
  <1> QED BY <1>6, <1>7

LEMMA ClientRewards ==
  ASSUME DevInv, NEW t \in Client, Active(t), Commit(t)
  PROVE  Rewards'
  <1>1. PICK kind : kind = req[t].kind
    OBVIOUS
  <1>2. /\ rewarded' = [m \in Mission |->
             rewarded[m] + IF kind = "claim" /\ holder[MissionOf(m)] = t THEN 1 ELSE 0]
        /\ reigns' = reigns + IF kind = "select" THEN 1 ELSE 0
    BY <1>1 DEF Commit
  <1> SUFFICES ASSUME NEW m \in Mission
               PROVE  rewarded'[m] + (IF Pending(m)' THEN 1 ELSE 0) <= reigns'
    BY DEF Rewards
  <1>3. rewarded[m] \in Nat /\ reigns \in Nat /\ rewarded[m] + (IF Pending(m) THEN 1 ELSE 0) <= reigns
    BY DEF DevInv, Typed, Rows, Rewards
  <1>4. rewarded'[m] = rewarded[m] + IF kind = "claim" /\ holder[MissionOf(m)] = t THEN 1 ELSE 0
    BY <1>2
  <1>5. CASE store'[MissionOf(m)] = store[MissionOf(m)] /\ holder[MissionOf(m)] # t
    <2>1. Pending(m)' <=> Pending(m)
      BY <1>5 DEF Pending
    <2> QED BY <1>2, <1>3, <1>4, <1>5, <2>1
  <1>6. CASE KeepsMission(kind, MissionOf(m), store'[MissionOf(m)]) /\ holder[MissionOf(m)] = t
    <2>1. \/ /\ kind = "claim" /\ store'[MissionOf(m)] = Status("claimed")
             /\ store[MissionOf(m)] = Status("completed")
          \/ kind = "select" /\ store'[MissionOf(m)] = Status("active")
      BY <1>6 DEF KeepsMission
    <2>2. CASE /\ kind = "claim" /\ store'[MissionOf(m)] = Status("claimed")
               /\ store[MissionOf(m)] = Status("completed")
      <3>1. Pending(m) /\ ~Pending(m)'
        BY <2>2, StatusFacts DEF Pending
      <3> QED BY <1>2, <1>3, <1>4, <1>6, <2>2, <3>1
    <2>3. CASE kind = "select" /\ store'[MissionOf(m)] = Status("active")
      BY <1>2, <1>3, <1>4, <2>3
    <2> QED BY <2>1, <2>2, <2>3
  <1> QED BY <1>1, <1>5, <1>6, ClientCommits

LEMMA ClientPrerequisites ==
  ASSUME DevInv, NEW t \in Client, Active(t), Commit(t)
  PROVE  PrerequisitesHeld'
  <1>1. PICK kind : kind = req[t].kind
    OBVIOUS
  <1>2. Grows
    BY ClientGrows
  <1>3. ASSUME NEW k \in Tech \ StartTech, store'[TechOf(k)] # Absent, NEW r \in Requires[k]
        PROVE  Has(r)'
    <2>1. r \in Tech
      OBVIOUS
    <2>2. Has(r)
      <3>1. CASE store'[TechOf(k)] = store[TechOf(k)]
        BY <1>3, <3>1 DEF DevInv, Rows, PrerequisitesHeld
      <3>2. CASE KeepsTech(TechOf(k), store'[TechOf(k)])
        BY <3>2, RowKeys DEF KeepsTech
      <3> QED BY <1>1, <3>1, <3>2, ClientCommits
    <2> QED BY <1>2, <2>1, <2>2 DEF Grows
  <1>4. ASSUME NEW b \in BuildingId, store'[BuildingOf(b)] # Absent,
               NEW key, key = store'[BuildingOf(b)].key, key \notin Range(StartBuilding)
        PROVE  Supplied(key)'
    <2>1. ASSUME store'[BuildingOf(b)] = store[BuildingOf(b)] PROVE Supplied(key)
      <3>1. store[BuildingOf(b)] # Absent /\ store[BuildingOf(b)].key = key
        BY <1>4, <2>1
      <3> QED BY <1>4, <3>1 DEF DevInv, Rows, PrerequisitesHeld, Supplied
    <2>2. ASSUME KeepsBuilding(BuildingOf(b), store'[BuildingOf(b)]) PROVE Supplied(key)
      BY <1>4, <2>2 DEF KeepsBuilding, Entitled, Supplied
    <2>3. Supplied(key)
      BY <1>1, <2>1, <2>2, ClientCommits
    <2>4. key \in Item
      BY <1>4, ClientRowTypes DEF RowTypes, IsBuilding, Item
    <2> QED BY <1>2, <2>3, <2>4 DEF Grows
  <1>5. ASSUME NEW u \in Unit, store'[UnitOf(u)] # Absent PROVE Supplied(u)'
    <2>1. Supplied(u)
      <3>1. CASE store'[UnitOf(u)] = store[UnitOf(u)]
        BY <1>5, <3>1 DEF DevInv, Rows, PrerequisitesHeld
      <3>2. CASE KeepsUnit(UnitOf(u))
        BY <3>2, RowKeys DEF KeepsUnit
      <3> QED BY <1>1, <3>1, <3>2, ClientCommits
    <2> QED BY <1>2, <2>1 DEF Grows, Item
  <1>6. ASSUME NEW b \in BuildingId, store'[BuildingOf(b)] # Absent,
               store'[BuildingOf(b)].key \notin Range(StartBuilding)
        PROVE  Supplied(store[BuildingOf(b)].key)'
    <2>1. PICK key : key = store'[BuildingOf(b)].key
      OBVIOUS
    <2>2. Supplied(key)'
      BY <1>4, <1>6, <2>1
    <2> QED BY <2>1, <2>2 DEF Supplied
  <1> QED BY <1>3, <1>5, <1>6 DEF PrerequisitesHeld

\* The permissions of the worker after the commit of a request.
LEMMA ClientSparesWorker ==
  ASSUME DevInv, NEW t \in Client, Active(t), Commit(t)
  PROVE  /\ \A row, value : WorkerKeeps(row, value) => WorkerKeeps(row, value)'
         /\ \A s : WorkerTask(s) => WorkerTask(s)'
  <1>1. PICK kind : kind = req[t].kind
    OBVIOUS
  <1>2. ASSUME NEW k \in Tech, store[TechOf(k)] = Status("in_progress"), TechOf(k) \in expired
        PROVE  store'[TechOf(k)] = Status("in_progress") /\ TechOf(k) \in expired'
    <2>1. ~KeepsTech(TechOf(k), store'[TechOf(k)])
      BY <1>2, StatusFacts DEF KeepsTech
    <2>2. store'[TechOf(k)] = store[TechOf(k)] /\ holder[TechOf(k)] # t
      BY <1>1, <2>1, ClientCommits
    <2> QED BY <1>2, <2>2 DEF Commit, Timed
  <1>3. ASSUME NEW b \in BuildingId, store[BuildingOf(b)].status = "under_construction",
               BuildingOf(b) \in expired
        PROVE  store'[BuildingOf(b)] = store[BuildingOf(b)] /\ BuildingOf(b) \in expired'
    <2>1. ~KeepsBuilding(BuildingOf(b), store'[BuildingOf(b)])
      BY <1>3 DEF KeepsBuilding, Working
    <2>2. store'[BuildingOf(b)] = store[BuildingOf(b)] /\ holder[BuildingOf(b)] # t
      BY <1>1, <2>1, ClientCommits
    <2> QED BY <1>3, <2>2 DEF Commit, Timed
  <1>4. ASSUME NEW m \in Mission, store[MissionOf(m)] = Status("active")
        PROVE  store'[MissionOf(m)] = Status("active")
    <2>1. Status("active") # Status("completed")
      BY StatusFacts
    <2> QED BY <1>1, <1>4, <2>1, RowKeys, ClientCommits DEF KeepsMission
  <1>5. ASSUME NEW row, NEW value, Advances(row, value) PROVE Advances(row, value)'
    BY <1>2, <1>5 DEF Advances
  <1>6. ASSUME NEW row, NEW value, Completes(row, value) PROVE Completes(row, value)'
    BY <1>3, <1>6 DEF Completes, IsBuilding
  <1>7. ASSUME NEW row, NEW value, Evaluates(row, value) PROVE Evaluates(row, value)'
    BY <1>4, <1>7 DEF Evaluates
  <1>8. ASSUME NEW s, AdvanceTask(s) PROVE AdvanceTask(s)'
    BY <1>2, <1>8 DEF AdvanceTask
  <1>9. ASSUME NEW s, CompleteTask(s) PROVE CompleteTask(s)'
    BY <1>3, <1>9 DEF CompleteTask
  <1>10. ASSUME NEW row, NEW value, WorkerKeeps(row, value) PROVE WorkerKeeps(row, value)'
    BY <1>5, <1>6, <1>7, <1>10 DEF WorkerKeeps
  <1>11. ASSUME NEW s, WorkerTask(s) PROVE WorkerTask(s)'
    <2>1. CASE s.op \in {"insert", "update", "upsert"} /\ Evaluates(s.row, s.new)
      BY <1>7, <2>1 DEF WorkerTask
    <2>2. CASE s.op = "status" /\ (AdvanceTask(s) \/ CompleteTask(s))
      BY <1>8, <1>9, <2>2 DEF WorkerTask
    <2> QED BY <1>11, <2>1, <2>2 DEF WorkerTask
  <1> QED BY <1>10, <1>11

\* ... and those of a request after the commit of a phase.
LEMMA WorkerSparesClient ==
  ASSUME DevInv, Active(Worker), Commit(Worker)
  PROVE  /\ \A kind, row, value : ClientKeeps(kind, row, value) => ClientKeeps(kind, row, value)'
         /\ \A kind, s : ClientTask(kind, s) => ClientTask(kind, s)'
  <1>1. Grows
    BY WorkerGrows
  <1>2. nextBuilding' = nextBuilding
    BY DEF Commit
  <1>3. ASSUME NEW k \in Tech, store[TechOf(k)] = Absent PROVE store'[TechOf(k)] = Absent
    BY <1>3, WorkerCommits, StatusFacts DEF Advances
  <1>4. ASSUME NEW b \in BuildingId, store[BuildingOf(b)].status \notin Working
        PROVE  store'[BuildingOf(b)] = store[BuildingOf(b)]
    BY <1>4, WorkerCommits DEF Completes, Working
  <1>5. ASSUME NEW m \in Mission, store[MissionOf(m)] = Status("completed")
        PROVE  store'[MissionOf(m)] = Status("completed")
    <2>1. Status("active") # Status("completed")
      BY StatusFacts
    <2> QED BY <1>5, <2>1, WorkerCommits, RowKeys DEF Evaluates
  <1>6. ASSUME NEW key \in Building, Entitled(key) PROVE Entitled(key)'
    BY <1>1, <1>6 DEF Entitled, Grows, Item
  <1>7. ASSUME NEW row, NEW value, KeepsTech(row, value) PROVE KeepsTech(row, value)'
    <2>1. PICK k \in Tech : /\ row = TechOf(k) /\ store[row] = Absent
                            /\ value \in {Status("in_progress"), Status("completed")}
                            /\ k \in StartTech \/ \A r \in Requires[k] : Has(r)
      BY <1>7 DEF KeepsTech
    <2>2. Requires[k] \subseteq Tech
      OBVIOUS
    <2>3. k \in StartTech \/ \A r \in Requires[k] : Has(r)'
      BY <1>1, <2>1, <2>2 DEF Grows
    <2> QED BY <1>3, <2>1, <2>3 DEF KeepsTech
  <1>8. ASSUME NEW row, NEW value, KeepsBuilding(row, value) PROVE KeepsBuilding(row, value)'
    <2>1. PICK b \in BuildingId :
            /\ row = BuildingOf(b) /\ b < nextBuilding /\ store[row].status \notin Working
            /\ IsBuilding(value) /\ Entitled(value.key)
            /\ store[row] # Absent => value.key = store[row].key
      BY <1>8 DEF KeepsBuilding
    <2>2. value.key \in Building /\ Entitled(value.key)'
      BY <1>6, <2>1 DEF IsBuilding
    <2>3. store'[row] = store[row]
      BY <1>4, <2>1
    <2> QED BY <1>2, <2>1, <2>2, <2>3 DEF KeepsBuilding, IsBuilding
  <1>9. ASSUME NEW row, KeepsUnit(row) PROVE KeepsUnit(row)'
    BY <1>1, <1>9 DEF KeepsUnit, Grows, Item
  <1>10. ASSUME NEW kind, NEW row, NEW value, KeepsMission(kind, row, value)
         PROVE  KeepsMission(kind, row, value)'
    BY <1>5, <1>10 DEF KeepsMission
  <1>11. ASSUME NEW kind, NEW row, NEW value, ClientKeeps(kind, row, value)
         PROVE  ClientKeeps(kind, row, value)'
    BY <1>7, <1>8, <1>9, <1>10, <1>11 DEF ClientKeeps
  <1>12. ASSUME NEW kind, NEW s, ClientTask(kind, s) PROVE ClientTask(kind, s)'
    <2>1. CASE s.op \in {"insert", "update", "upsert"} /\ ClientKeeps(kind, s.row, s.new)
      BY <1>11, <2>1 DEF ClientTask
    <2>2. CASE s.op = "missing" /\ s.new = Status("completed") /\ \E k \in StartTech : s.row = TechOf(k)
      BY <2>2 DEF ClientTask
    <2>3. CASE s.op = "create" /\ IsBuilding(s.new) /\ Entitled(s.new.key)
      <3>1. Entitled(s.new.key)'
        BY <1>6, <2>3 DEF IsBuilding
      <3> QED BY <2>3, <3>1 DEF ClientTask, IsBuilding
    <2>4. CASE s.op = "adjust" /\ KeepsUnit(s.row)
      BY <1>9, <2>4 DEF ClientTask
    <2> QED BY <1>12, <2>1, <2>2, <2>3, <2>4 DEF ClientTask
  <1> QED BY <1>11, <1>12

\* The committed rows after the commit of a phase.
LEMMA WorkerRows ==
  ASSUME DevInv, Active(Worker), Commit(Worker)
  PROVE  Rows'
  <1>1. Grows
    BY WorkerGrows
  <1>2. /\ nextBuilding' = nextBuilding /\ reigns' = reigns
        /\ \A m \in Mission : rewarded'[m] = rewarded[m] /\ rewarded[m] \in Nat
    <2>1. PICK kind : kind = req[Worker].kind
      OBVIOUS
    <2>2. kind \notin {"claim", "select"}
      BY <2>1, RunIs DEF Txn
    <2>3. rewarded \in [Mission -> Nat] /\ reigns \in Nat
      BY DEF DevInv, Typed
    <2>4. rewarded' = [m \in Mission |-> rewarded[m] + 0] /\ reigns' = reigns + 0
      BY <2>1, <2>2 DEF Commit
    <2> QED BY <2>3, <2>4 DEF Commit
  <1>3. \A k \in Tech : store'[TechOf(k)] \in {Absent, Status("in_progress"), Status("completed")}
    BY WorkerCommits DEF Advances, DevInv, Rows, RowTypes
  <1>4. ASSUME NEW b \in BuildingId
        PROVE  /\ store'[BuildingOf(b)] = Absent \/ IsBuilding(store'[BuildingOf(b)])
               /\ store'[BuildingOf(b)] # Absent =>
                    /\ store[BuildingOf(b)] # Absent
                    /\ store'[BuildingOf(b)].key = store[BuildingOf(b)].key
    <2>1. CASE store'[BuildingOf(b)] = store[BuildingOf(b)]
      <3>1. store[BuildingOf(b)] = Absent \/ IsBuilding(store[BuildingOf(b)])
        BY DEF DevInv, Rows, RowTypes
      <3> QED BY <2>1, <3>1 DEF IsBuilding
    <2>2. CASE Completes(BuildingOf(b), store'[BuildingOf(b)])
      <3>1. IsBuilding(store'[BuildingOf(b)]) /\ store[BuildingOf(b)].status = "under_construction"
            /\ store'[BuildingOf(b)].key = store[BuildingOf(b)].key
        BY <2>2 DEF Completes
      <3> QED BY <3>1, StatusFacts
    <2> QED BY <2>1, <2>2, WorkerCommits
  <1>5. ASSUME NEW m \in Mission
        PROVE  /\ store'[MissionOf(m)] \in {Absent, Status("active"), Status("completed"), Status("claimed")}
               /\ Pending(m)' => Pending(m)
    BY WorkerCommits, StatusFacts DEF Evaluates, DevInv, Rows, RowTypes, Pending
  <1>6. RowTypes'
    BY <1>3, <1>4, <1>5 DEF RowTypes, IsBuilding
  <1>7. Fresh'
    BY <1>2, <1>4 DEF Fresh, DevInv, Rows
  <1>8. Rewards'
    <2> SUFFICES ASSUME NEW m \in Mission
                 PROVE  rewarded'[m] + (IF Pending(m)' THEN 1 ELSE 0) <= reigns'
      BY DEF Rewards
    <2>1. rewarded[m] + (IF Pending(m) THEN 1 ELSE 0) <= reigns /\ reigns \in Nat
      BY DEF DevInv, Typed, Rows, Rewards
    <2> QED BY <1>2, <1>5, <2>1
  <1>9. PrerequisitesHeld'
    <2>1. ASSUME NEW k \in Tech \ StartTech, store'[TechOf(k)] # Absent, NEW r \in Requires[k]
          PROVE  Has(r)'
      <3>1. store[TechOf(k)] # Absent
        BY <2>1, WorkerCommits, StatusFacts DEF Advances
      <3>2. Has(r) /\ r \in Tech
        BY <3>1 DEF DevInv, Rows, PrerequisitesHeld
      <3> QED BY <1>1, <3>2 DEF Grows
    <2>2. ASSUME NEW b \in BuildingId, store'[BuildingOf(b)] # Absent,
                 NEW key, key = store'[BuildingOf(b)].key, key \notin Range(StartBuilding)
          PROVE  Supplied(key)'
      <3>1. store[BuildingOf(b)] # Absent /\ store[BuildingOf(b)].key = key
        BY <1>4, <2>2
      <3>2. Supplied(key)
        BY <2>2, <3>1 DEF DevInv, Rows, PrerequisitesHeld, Supplied
      <3>3. key \in Item
        BY <2>2, <1>6 DEF RowTypes, IsBuilding, Item
      <3> QED BY <1>1, <3>2, <3>3 DEF Grows
    <2>3. ASSUME NEW b \in BuildingId, store'[BuildingOf(b)] # Absent,
                 store'[BuildingOf(b)].key \notin Range(StartBuilding)
          PROVE  Supplied(store[BuildingOf(b)].key)'
      <3>1. PICK key : key = store'[BuildingOf(b)].key
        OBVIOUS
      <3>2. Supplied(key)'
        BY <2>2, <2>3, <3>1
      <3> QED BY <3>1, <3>2 DEF Supplied
    <2>4. ASSUME NEW u \in Unit, store'[UnitOf(u)] # Absent PROVE Supplied(u)'
      <3>1. Supplied(u)
        BY <2>4, WorkerCommits DEF DevInv, Rows, PrerequisitesHeld
      <3> QED BY <1>1, <3>1 DEF Grows, Item
    <2> QED BY <2>1, <2>3, <2>4 DEF PrerequisitesHeld
  <1> QED BY <1>6, <1>7, <1>8, <1>9 DEF Rows

\* A transaction that is in flight when another one commits.
LEMMA OtherCommits ==
  ASSUME DevInv, NEW t \in Txn, Active(t), Commit(t), NEW u \in Txn \ {t},
         \A kind, row, value : Keeps(u, kind, row, value) => Keeps(u, kind, row, value)',
         \A kind, s : Task(u, kind, s) => Task(u, kind, s)'
  PROVE  InFlight(u)'
  <1>1. /\ req'[u] = req[u] /\ pending' = pending
        /\ \A row \in Row : holder'[row] = u => holder[row] = u
    BY CommitEffect DEF Txn
  <1>2. CASE req[u] = Idle /\ \A row \in Row : holder[row] # u
    BY <1>1, <1>2 DEF InFlight, Idle
  <1>3. CASE /\ req[u] = [pc |-> "run", kind |-> req[u].kind, todo |-> req[u].todo]
             /\ u = Worker => req[u].kind \notin {"claim", "select"}
             /\ Holds(u, req[u].kind)
             /\ Statements(u, req[u].kind, req[u].todo)
    <2>1. PICK kind, todo : kind = req[u].kind /\ todo = req[u].todo
      OBVIOUS
    <2>2. Holds(u, kind)'
      BY <1>1, <1>3, <2>1 DEF Holds
    <2>3. Statements(u, kind, todo)'
      BY <1>3, <2>1, StatementsStay
    <2>4. Holds(u, req[u].kind)' /\ Statements(u, req[u].kind, req[u].todo)'
      BY <1>1, <2>1, <2>2, <2>3 DEF Holds, Statements
    <2> QED BY <1>1, <1>3, <2>4 DEF InFlight
  <1> QED BY <1>2, <1>3 DEF DevInv, InFlight

LEMMA CommitKeeps ==
  ASSUME OneRequest, DevInv, NEW t \in Txn, Active(t), Commit(t)
  PROVE  DevInv'
  <1>1. Typed'
    BY CommitEffect DEF DevInv
  <1>2. InFlight(t)'
    <2>1. req'[t] = Idle /\ \A row \in Row : holder'[row] # t
      BY CommitEffect DEF Txn
    <2> QED BY <2>1 DEF InFlight, Idle
  <1>3. CASE t = Worker
    <2>1. Rows'
      BY <1>3, WorkerRows
    <2>2. ASSUME NEW u \in Txn \ {t} PROVE InFlight(u)'
      <3>1. \A kind, row, value : Keeps(u, kind, row, value) => Keeps(u, kind, row, value)'
        BY <1>3, <2>2, WorkerSparesClient DEF Keeps
      <3>2. \A kind, s : Task(u, kind, s) => Task(u, kind, s)'
        BY <1>3, <2>2, WorkerSparesClient DEF Task
      <3> QED BY <3>1, <3>2, OtherCommits
    <2> QED BY <1>1, <1>2, <2>1, <2>2 DEF DevInv
  <1>4. CASE t \in Client
    <2>1. Rows'
      BY <1>4, ClientRowTypes, ClientRewards, ClientPrerequisites DEF Rows
    <2>2. ASSUME NEW u \in Txn \ {t} PROVE InFlight(u)'
      <3>1. u = Worker
        BY <1>4, <2>2 DEF OneRequest, Txn
      <3>2. \A kind, row, value : Keeps(u, kind, row, value) => Keeps(u, kind, row, value)'
        BY <1>4, <3>1, ClientSparesWorker DEF Keeps
      <3>3. \A kind, s : Task(u, kind, s) => Task(u, kind, s)'
        BY <1>4, <3>1, ClientSparesWorker DEF Task
      <3> QED BY <3>2, <3>3, OtherCommits
    <2> QED BY <1>1, <1>2, <2>1, <2>2 DEF DevInv
  <1> QED BY <1>3, <1>4 DEF Txn

-----------------------------------------------------------------------------
(* The theorems.                                                           *)

LEMMA DevInit == Init => DevInv
  <1> SUFFICES ASSUME Init PROVE DevInv
    OBVIOUS
  <1>1. \A row \in Row : store[row] = IF row = Ruler THEN Status("free") ELSE Absent
    BY DEF Init
  <1>2. /\ \A k \in Tech : store[TechOf(k)] = Absent
        /\ \A b \in BuildingId : store[BuildingOf(b)] = Absent
        /\ \A u \in Unit : store[UnitOf(u)] = Absent
        /\ \A m \in Mission : store[MissionOf(m)] = Absent
    BY <1>1, RowsAre, RowKeys
  <1>3. Typed
    BY DEF Init, Typed
  <1>4. RowTypes /\ Fresh /\ PrerequisitesHeld
    BY <1>2 DEF RowTypes, Fresh, PrerequisitesHeld
  <1>5. Rewards
    BY <1>2, StatusFacts DEF Init, Rewards, Pending
  <1>6. \A t \in Txn : InFlight(t)
    BY DEF Init, InFlight, Txn
  <1> QED BY <1>3, <1>4, <1>5, <1>6 DEF DevInv, Rows

LEMMA StepKeeps ==
  ASSUME OneRequest, DevInv, NEW t \in Txn, Step(t)
  PROVE  DevInv'
  BY CommitKeeps, LookKeeps, ExecuteKeeps, CreateKeeps DEF Step

LEMMA DevNext == OneRequest /\ DevInv /\ [Next]_vars => DevInv'
  <1> SUFFICES ASSUME OneRequest, DevInv, [Next]_vars PROVE DevInv'
    OBVIOUS
  <1>1. CASE \E t \in Client : Request(t)
    BY <1>1, RequestKeeps
  <1>2. CASE Phase
    BY <1>2, PhaseKeeps
  <1>3. CASE \E t \in Txn : Step(t) \/ Fail(t)
    BY <1>3, StepKeeps, FailKeeps
  <1>4. CASE \E row \in TechRow \cup BuildingRow : Expire(row)
    BY <1>4, ExpireKeeps
  <1>5. CASE UNCHANGED vars
    <2>1. Quiet /\ reigns' = reigns /\ rewarded' = rewarded /\ Typed'
      BY <1>5 DEF vars, Quiet, DevInv, Typed
    <2>2. \A t \in Txn : InFlight(t)'
      BY <1>5, <2>1, OthersStay DEF DevInv, vars
    <2> QED BY <2>1, <2>2, RowsStay DEF DevInv, Typed
  <1> QED BY <1>1, <1>2, <1>3, <1>4, <1>5 DEF Next

LEMMA DevHolds == ASSUME OneRequest PROVE Spec => []DevInv
  <1>1. DevInv /\ [Next]_vars => DevInv' BY DevNext
  <1> QED BY <1>1, DevInit, PTL DEF Spec

\* One API request at a time next to the worker: what is researched, built or
\* trained has the technologies and buildings it asks for, in every reign.
\* (ResearchService.queue, ProductionService.start_construction,
\* MilitaryService.train)
THEOREM PrerequisitesStay == ASSUME OneRequest PROVE Spec => []PrerequisitesHeld
  <1>1. DevInv => PrerequisitesHeld
    BY DEF DevInv, Rows
  <1> QED BY <1>1, DevHolds, PTL

\* ... a mission is rewarded at most once for each selection of the country,
\* whatever the evaluations did with their copies of it.
\* (MissionService.claim, evaluate, seed_for_country)
THEOREM RewardsAreCounted == ASSUME OneRequest PROVE Spec => []RewardedOncePerReign
  <1>1. DevInv => RewardedOncePerReign
    BY DEF DevInv, Typed, Rows, Rewards, RewardedOncePerReign
  <1> QED BY <1>1, DevHolds, PTL

\* Only a commit changes what is committed.
LEMMA NothingElse ==
  ASSUME DevInv, Next, store' # store
  PROVE  \E t \in Txn : Active(t) /\ Commit(t)
  <1>1. ASSUME NEW t \in Client, Request(t) PROVE store' = store
    BY <1>1 DEF Request, Select, Write, Queue, Construct, Upgrade, Train, Claim, Abandon, Begin
  <1>2. ASSUME Phase PROVE store' = store
    BY <1>2 DEF Phase, Complete, Advance, Evaluate, Begin
  <1>3. ASSUME NEW t \in Txn, Fail(t) PROVE store' = store
    BY <1>3 DEF Fail, ForgetWrites
  <1>4. ASSUME NEW t \in Txn, Look(t) PROVE store' = store
    BY <1>4 DEF Look, Becomes
  <1>5. ASSUME NEW t \in Txn, Execute(t) \/ CreateBuilding(t) PROVE store' = store
    BY <1>5 DEF Execute, CreateBuilding, Write
  <1>6. ASSUME NEW row, Expire(row) PROVE store' = store
    BY <1>6 DEF Expire
  <1> QED BY <1>1, <1>2, <1>3, <1>4, <1>5, <1>6 DEF Next, Step

\* A technology that is completed stays so, whatever a request or a phase read
\* before it was.  (ResearchService.queue and its upsert, advance_research_tick)
THEOREM TechnologiesStay == ASSUME OneRequest PROVE Spec => CompletedIsFinal
  <1>1. DevInv /\ [Next]_vars => [\A k \in Tech : Has(k) => Has(k)']_vars
    <2> SUFFICES ASSUME DevInv, Next, NEW k \in Tech, Has(k) PROVE Has(k)'
      BY DEF vars
    <2>1. CASE store' = store
      BY <2>1 DEF Has
    <2>2. CASE store' # store
      <3>1. PICK t \in Txn : Active(t) /\ Commit(t)
        BY <2>2, NothingElse
      <3>2. Grows
        BY <3>1, ClientGrows, WorkerGrows DEF Txn
      <3> QED BY <3>2 DEF Grows
    <2> QED BY <2>1, <2>2
  <1> QED BY <1>1, DevHolds, PTL DEF Spec, CompletedIsFinal

\* Nothing is completed or active at a new level before its time: the worker
\* finishes the work whose time was over when the work was the one under way.
\* (complete_constructions, advance_research_tick, upgrade)
THEOREM WorkIsTimed == ASSUME OneRequest PROVE Spec => WorkTakesItsTime
  <1>1. DevInv /\ [Next]_vars =>
          [\A row \in TechRow \cup BuildingRow :
             /\ store[row].status \in {"in_progress", "under_construction"}
             /\ store'[row].status \in {"completed", "active"}
             => row \in expired]_vars
    <2> SUFFICES ASSUME DevInv, Next, NEW row \in TechRow \cup BuildingRow,
                        store[row].status \in {"in_progress", "under_construction"},
                        store'[row].status \in {"completed", "active"}
                 PROVE  row \in expired
      BY DEF vars
    <2>1. store'[row] # store[row]
      OBVIOUS
    <2>2. PICK t \in Txn : Active(t) /\ Commit(t)
      BY <2>1, NothingElse
    <2>3. CASE t = Worker
      BY <2>1, <2>2, <2>3, WorkerCommits DEF TechRow, BuildingRow, Advances, Completes
    <2>4. CASE t \in Client
      <3>1. PICK kind : kind = req[t].kind
        OBVIOUS
      <3>2. ASSUME NEW k \in Tech, row = TechOf(k) PROVE FALSE
        BY <2>1, <2>2, <2>4, <3>1, <3>2, ClientCommits, StatusFacts DEF KeepsTech
      <3>3. ASSUME NEW b \in BuildingId, row = BuildingOf(b) PROVE FALSE
        BY <2>1, <2>2, <2>4, <3>1, <3>3, ClientCommits DEF KeepsBuilding, Working
      <3> QED BY <3>2, <3>3 DEF TechRow, BuildingRow
    <2> QED BY <2>3, <2>4 DEF Txn
  <1> QED BY <1>1, DevHolds, PTL DEF Spec, WorkTakesItsTime
=============================================================================
