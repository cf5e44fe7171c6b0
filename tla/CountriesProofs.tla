--------------------------- MODULE CountriesProofs --------------------------
(***************************************************************************)
(* When no player has two requests in flight, whoever plays a country is   *)
(* its ruler, and a country is vacated before it gets another one; however *)
(* many they have, a full world has its successor: for any number of       *)
(* players, countries, worlds and requests.                                *)
(***************************************************************************)
EXTENDS Countries, TLAPS

-----------------------------------------------------------------------------
(* The inductive invariant.                                                *)

\* A request of the startup has no player; the others have a country.
Shape(R) ==
  /\ R.player = Nobody =>
       R.country = NoCountry /\ R.seen = Nobody /\ R.pc \in {"find", "slug", "insert", "commit"}
  /\ R.player # Nobody => R.country \in Country
  /\ R.pc \in {"find", "slug", "insert"} => R.number \in Number

Typed == TypeOK /\ \A t \in Txn : Active(t) => Shape(req[t])

Leaving(R) == R.pc \in {"read", "leave", "vacate"} \/ (R.pc = "commit" /\ R.seen # Nobody)
Selecting(R) == R.player # Nobody /\ ~Leaving(R)

\* What a request holds, and what it may rely on.
Mine(t, R) ==
  /\ Selecting(R) =>
       /\ R.seen = Nobody
       /\ holder[RulerOf(R.country)] = t
       /\ pending[RulerOf(R.country)] = R.player
       /\ store[RulerOf(R.country)] = Nobody
  /\ Selecting(R) /\ R.pc # "move" =>
       holder[RealmOf(R.player)] = t /\ pending[RealmOf(R.player)] = R.country
  /\ Leaving(R) => store[RealmOf(R.player)] = R.country
  /\ R.pc \in {"leave", "vacate"} \/ (Leaving(R) /\ R.pc = "commit") => R.seen = R.player
  /\ R.pc = "vacate" \/ (Leaving(R) /\ R.pc = "commit") =>
       holder[RealmOf(R.player)] = t /\ pending[RealmOf(R.player)] = NoCountry
  /\ Leaving(R) /\ R.pc = "commit" =>
       holder[RulerOf(R.country)] = t /\ pending[RulerOf(R.country)] = Nobody

\* Who holds a player's or a country's row works for that player or country.
Held ==
  /\ \A p \in Player : holder[RealmOf(p)] # NoTxn =>
       Active(holder[RealmOf(p)]) /\ req[holder[RealmOf(p)]].player = p
  /\ \A c \in Country : holder[RulerOf(c)] # NoTxn =>
       /\ Active(holder[RulerOf(c)])
       /\ req[holder[RulerOf(c)]].country = c
       /\ req[holder[RulerOf(c)]].player # Nobody
       /\ req[holder[RulerOf(c)]].pc \notin {"read", "leave", "vacate"}

Alone ==
  \A t, u \in Txn :
    Active(t) /\ Active(u) /\ req[t].player = req[u].player /\ req[t].player # Nobody => t = u

Owned ==
  /\ RulerRules
  /\ Held
  /\ Alone
  /\ \A t \in Txn : Active(t) => Mine(t, req[t])

IInv == Typed /\ Owned

-----------------------------------------------------------------------------
(* Rows and types.                                                         *)

LEMMA Rows ==
  /\ \A p \in Player : RealmOf(p) \in Row /\ RowType(RealmOf(p)) = Country \cup {NoCountry}
  /\ \A c \in Country : RulerOf(c) \in Row /\ RowType(RulerOf(c)) = Player \cup {Nobody}
  /\ \A w \in WorldId : WorldOf(w) \in Row /\ RowType(WorldOf(w)) = WorldUpTo(Capacity)
  /\ \A n \in Number : SlugOf(n) \in Row /\ RowType(SlugOf(n)) = WorldId \cup {0}
BY DEF RealmOf, RulerOf, WorldOf, SlugOf, Row, RowType, CountryRow, PlayerRow, WorldRow, SlugRow

\* Different names, different rows.
LEMMA RowsApart ==
  /\ \A p, q : RealmOf(p) = RealmOf(q) => p = q
  /\ \A c, d : RulerOf(c) = RulerOf(d) => c = d
  /\ \A p, c : RealmOf(p) # RulerOf(c)
  /\ \A p, w : RealmOf(p) # WorldOf(w) /\ RealmOf(p) # SlugOf(w)
  /\ \A c, w : RulerOf(c) # WorldOf(w) /\ RulerOf(c) # SlugOf(w)
BY DEF RealmOf, RulerOf, WorldOf, SlugOf

LEMMA ActiveType ==
  ASSUME Typed, NEW t \in Txn, Active(t)
  PROVE  req[t] \in Request /\ Shape(req[t])
BY DEF Typed, TypeOK, Active, Idle

\* The rows after a statement that writes one of them.
LEMMA WriteType ==
  ASSUME TypeOK, NEW t \in Txn, NEW r, NEW value, r \in Row => value \in RowType(r),
         Write(t, r, value)
  PROVE  /\ store' = [s \in Row |-> store'[s]] /\ pending' = [s \in Row |-> pending'[s]]
         /\ \A s \in Row : store'[s] \in RowType(s) /\ pending'[s] \in RowType(s)
         /\ holder' \in [Row -> Txn \cup {NoTxn}]
BY DEF TypeOK, Write

\* ... and after the transaction's end.
LEMMA EndType ==
  ASSUME TypeOK, NEW t \in Txn, CommitWrites(t) \/ ForgetWrites(t)
  PROVE  /\ store' = [s \in Row |-> store'[s]] /\ pending' = [s \in Row |-> pending'[s]]
         /\ \A s \in Row : store'[s] \in RowType(s) /\ pending'[s] \in RowType(s)
         /\ holder' \in [Row -> Txn \cup {NoTxn}]
BY DEF TypeOK, CommitWrites, ForgetWrites, Release, Seen

LEMMA SeenType ==
  ASSUME TypeOK, NEW t \in Txn, NEW r \in Row
  PROVE  Seen(t, r) \in RowType(r)
BY DEF TypeOK, Seen

\* A request's record is replaced.
LEMMA RequestType ==
  ASSUME Typed, NEW t \in Txn, NEW R \in Request, Shape(R), req' = [req EXCEPT ![t] = R]
  PROVE  /\ req' \in [Txn -> Request \cup {Idle}]
         /\ \A u \in Txn : Active(u)' => Shape(req'[u])
BY DEF Typed, TypeOK, Active

LEMMA FinishType ==
  ASSUME Typed, NEW t \in Txn, Finish(t)
  PROVE  /\ req' \in [Txn -> Request \cup {Idle}]
         /\ \A u \in Txn : Active(u)' => Shape(req'[u])
BY DEF Typed, TypeOK, Active, Finish, Idle

LEMMA GotoRecord ==
  ASSUME Typed, NEW t \in Txn, Active(t), NEW pc, Goto(t, pc)
  PROVE  req' = [req EXCEPT ![t] = [req[t] EXCEPT !.pc = pc]]
BY DEF Goto, Typed, TypeOK

-----------------------------------------------------------------------------
(* Type correctness, action by action.                                     *)

LEMMA MoveType ==
  ASSUME Typed, NEW t \in Txn, Active(t), NEW pc,
         Goto(t, pc), [req[t] EXCEPT !.pc = pc] \in Request,
         Shape([req[t] EXCEPT !.pc = pc]),
         \/ UNCHANGED <<store, holder, pending>>
         \/ \E r, value : (r \in Row => value \in RowType(r)) /\ Write(t, r, value),
         nextWorld' \in 1 .. MaxWorlds + 1, joins' \in [WorldId -> 0 .. Capacity]
  PROVE  Typed'
<1>1. req' = [req EXCEPT ![t] = [req[t] EXCEPT !.pc = pc]]
  BY GotoRecord
<1>2. /\ store' = [s \in Row |-> store'[s]] /\ pending' = [s \in Row |-> pending'[s]]
      /\ \A s \in Row : store'[s] \in RowType(s) /\ pending'[s] \in RowType(s)
      /\ holder' \in [Row -> Txn \cup {NoTxn}]
  BY WriteType DEF Typed, TypeOK
<1> QED
  BY <1>1, <1>2, RequestType DEF Typed, TypeOK

LEMMA EndStep ==
  ASSUME Typed, NEW t \in Txn, CommitWrites(t) \/ ForgetWrites(t), Finish(t),
         nextWorld' \in 1 .. MaxWorlds + 1, joins' \in [WorldId -> 0 .. Capacity]
  PROVE  Typed'
BY EndType, FinishType DEF Typed, TypeOK

LEMMA RollbackType == ASSUME Typed, NEW t \in Txn, Rollback(t) PROVE Typed'
BY EndStep DEF Rollback, Typed, TypeOK

LEMMA SelectType ==
  ASSUME Typed, NEW t \in Txn, NEW p \in Player, NEW c \in Country, Select(t, p, c)
  PROVE  Typed'
<1>1. PICK R \in Request : /\ R.player = p /\ R.country = c /\ R.pc = "move"
                           /\ req' = [req EXCEPT ![t] = R]
  <2>1. NoChange \in [count : 0 .. Capacity + 1, fills : BOOLEAN]
    BY CapacityAssumption DEF NoChange
  <2> QED
    BY <2>1 DEF Select, Request
<1>2. Shape(R)
  BY <1>1, TxnAssumption DEF Shape
<1>3. RulerOf(c) \in Row /\ p \in RowType(RulerOf(c))
  BY Rows
<1> QED
  BY <1>1, <1>2, <1>3, WriteType, RequestType DEF Select, Typed, TypeOK

LEMMA AbandonType ==
  ASSUME Typed, NEW t \in Txn, NEW p \in Player, Abandon(t, p)
  PROVE  Typed'
<1>1. store[RealmOf(p)] \in Country
  BY Rows DEF Abandon, Typed, TypeOK
<1>2. PICK R \in Request : /\ R.player = p /\ R.country = store[RealmOf(p)]
                           /\ R.pc = "read" /\ req' = [req EXCEPT ![t] = R]
  <2>1. NoChange \in [count : 0 .. Capacity + 1, fills : BOOLEAN]
    BY CapacityAssumption DEF NoChange
  <2> QED
    BY <1>1, <2>1 DEF Abandon, Request
<1>3. Shape(R)
  BY <1>1, <1>2, TxnAssumption DEF Shape
<1> QED
  BY <1>2, <1>3, RequestType DEF Abandon, Typed, TypeOK

LEMMA EnsureType == ASSUME Typed, NEW t \in Txn, EnsureWorlds(t) PROVE Typed'
<1>1. PICK R \in Request : /\ R.player = Nobody /\ R.country = NoCountry /\ R.pc = "find"
                           /\ R.seen = Nobody /\ R.number = 1
                          /\ req' = [req EXCEPT ![t] = R]
  <2>1. NoChange \in [count : 0 .. Capacity + 1, fills : BOOLEAN] /\ 1 \in Number
    BY CapacityAssumption, WorldsAssumption DEF NoChange, Number
  <2> QED
    BY <2>1 DEF EnsureWorlds, Request
<1>2. Shape(R)
  BY <1>1, WorldsAssumption DEF Shape, Number
<1> QED
  BY <1>1, <1>2, RequestType DEF EnsureWorlds, Typed, TypeOK

\* The record of a selection that has read the world's count.
LEMMA CountRecord ==
  ASSUME Typed, NEW t \in Txn, CountPlayer(t)
  PROVE  \E R \in Request :
           /\ req' = [req EXCEPT ![t] = R]
           /\ R.player = req[t].player /\ R.country = req[t].country /\ R.seen = req[t].seen
           /\ R.pc = "world" \/ (R.pc = "find" /\ R.number \in Number)
<1>1. req[t] \in Request /\ Shape(req[t]) /\ req[t].country \in Country
  BY ActiveType DEF CountPlayer, Active, Shape
<1>2. PICK w \in WorldId : w = req[t].country[1]
  BY <1>1 DEF Country
<1>3. Seen(t, WorldOf(w)) \in WorldUpTo(Capacity)
  BY Rows, SeenType DEF Typed
<1>4. PICK count \in 0 .. Capacity + 1 : count = Joined(Seen(t, WorldOf(w)).count)
  BY <1>3, CapacityAssumption DEF WorldUpTo, Joined
<1>5. PICK change \in [count : 0 .. Capacity + 1, fills : BOOLEAN] :
        change = [count |-> count, fills |-> Fills(count)]
  <2>1. Fills(count) \in BOOLEAN
    BY DEF Fills
  <2> QED
    BY <2>1
<1>6. PICK next \in Number \cup {0} : next = IF Fills(count) /\ AutoCreate THEN w + 1 ELSE 0
  BY <1>2, WorldsAssumption DEF WorldId, Number
<1>7. PICK pc \in {"world", "find"} : pc = IF next = 0 THEN "world" ELSE "find"
  OBVIOUS
<1>8. req' = [req EXCEPT ![t].pc = pc, ![t].change = change, ![t].number = next]
  BY <1>2, <1>4, <1>5, <1>6, <1>7 DEF CountPlayer
<1>9. PICK R : R = [req[t] EXCEPT !.pc = pc, !.change = change, !.number = next]
  OBVIOUS
<1>10. R \in Request /\ R.player = req[t].player /\ R.country = req[t].country
       /\ R.seen = req[t].seen /\ R.pc = pc /\ R.number = next
  BY <1>1, <1>9 DEF Request
<1>11. req' = [req EXCEPT ![t] = R]
  BY <1>8, <1>9 DEF Typed, TypeOK
<1> QED
  BY <1>7, <1>10, <1>11

LEMMA CountType == ASSUME Typed, NEW t \in Txn, CountPlayer(t) PROVE Typed'
<1>1. req[t] \in Request /\ Shape(req[t]) /\ req[t].country \in Country
  BY ActiveType DEF CountPlayer, Active, Shape
<1>2. PICK R \in Request :
        /\ req' = [req EXCEPT ![t] = R]
        /\ R.player = req[t].player /\ R.country = req[t].country
        /\ R.pc = "world" \/ (R.pc = "find" /\ R.number \in Number)
  BY CountRecord
<1>3. Shape(R)
  BY <1>1, <1>2 DEF Shape, CountPlayer
<1> QED
  BY <1>2, <1>3, RequestType DEF CountPlayer, Typed, TypeOK

LEMMA MoveTypes ==
  ASSUME Typed, NEW t \in Txn,
         \/ MovePlayer(t) \/ InsertWorld(t) \/ LeaveCountry(t) \/ VacateCountry(t)
  PROVE  Typed'
<1>1. Active(t) /\ req[t] \in Request /\ Shape(req[t])
  BY ActiveType DEF MovePlayer, InsertWorld, LeaveCountry, VacateCountry, Active
<1>2. nextWorld' \in 1 .. MaxWorlds + 1 /\ joins' \in [WorldId -> 0 .. Capacity]
  BY DEF MovePlayer, InsertWorld, LeaveCountry, VacateCountry, Typed, TypeOK
<1>3. CASE MovePlayer(t)
  <2>1. req[t].player \in Player /\ req[t].country \in Country
    BY <1>1, <1>3, TxnAssumption DEF MovePlayer, Shape, Request
  <2>2. RealmOf(req[t].player) \in Row => req[t].country \in RowType(RealmOf(req[t].player))
    BY <2>1, Rows
  <2>3. [req[t] EXCEPT !.pc = "count"] \in Request /\ Shape([req[t] EXCEPT !.pc = "count"])
    BY <1>1, <2>1, TxnAssumption DEF Request, Shape
  <2> QED
    BY <1>1, <1>2, <1>3, <2>2, <2>3, MoveType DEF MovePlayer
<1>4. CASE InsertWorld(t)
  <2>1. req[t].number \in Number
    BY <1>1, <1>4 DEF InsertWorld, Shape
  <2> DEFINE r == WorldOf(pending[SlugOf(req[t].number)])
             world == [status |-> "open", count |-> 0]
  <2>2. r \in Row => world \in RowType(r)
    <3>1. r \in Row => r \in WorldRow
      BY DEF WorldOf, Row, WorldRow, CountryRow, PlayerRow, SlugRow
    <3>2. world \in WorldUpTo(Capacity)
      BY CapacityAssumption DEF WorldUpTo
    <3> QED
      BY <3>1, <3>2 DEF RowType, WorldOf, WorldRow, CountryRow, PlayerRow
  <2>3. [req[t] EXCEPT !.pc = "commit"] \in Request /\ Shape([req[t] EXCEPT !.pc = "commit"])
    BY <1>1 DEF Request, Shape
  <2> QED
    BY <1>1, <1>2, <1>4, <2>2, <2>3, MoveType DEF InsertWorld
<1>5. CASE LeaveCountry(t)
  <2>1. req[t].player \in Player
    BY <1>1, <1>5 DEF LeaveCountry, Shape, Request
  <2>2. RealmOf(req[t].player) \in Row => NoCountry \in RowType(RealmOf(req[t].player))
    BY <2>1, Rows
  <2>3. [req[t] EXCEPT !.pc = "vacate"] \in Request /\ Shape([req[t] EXCEPT !.pc = "vacate"])
    BY <1>1, <1>5 DEF Request, Shape, LeaveCountry
  <2> QED
    BY <1>1, <1>2, <1>5, <2>2, <2>3, MoveType DEF LeaveCountry
<1>6. CASE VacateCountry(t)
  <2>1. req[t].country \in Country
    BY <1>1, <1>6 DEF VacateCountry, Shape, Request
  <2>2. RulerOf(req[t].country) \in Row => Nobody \in RowType(RulerOf(req[t].country))
    BY <2>1, Rows
  <2>3. [req[t] EXCEPT !.pc = "commit"] \in Request /\ Shape([req[t] EXCEPT !.pc = "commit"])
    BY <1>1 DEF Request, Shape
  <2> QED
    BY <1>1, <1>2, <1>6, <2>2, <2>3, MoveType DEF VacateCountry
<1> QED
  BY <1>3, <1>4, <1>5, <1>6

LEMMA ReadType == ASSUME Typed, NEW t \in Txn, ReadCountry(t) PROVE Typed'
<1>1. req[t] \in Request /\ Shape(req[t]) /\ req[t].country \in Country
  BY ActiveType DEF ReadCountry, Active, Shape
<1>2. PICK ruler \in Player \cup {Nobody} : ruler = Seen(t, RulerOf(req[t].country))
  BY <1>1, Rows, SeenType DEF Typed
<1>3. PICK R : R = [req[t] EXCEPT !.pc = "leave", !.seen = ruler]
  OBVIOUS
<1>4. R \in Request /\ Shape(R)
  <2>1. R \in Request /\ R.player = req[t].player /\ R.country = req[t].country /\ R.pc = "leave"
    BY <1>1, <1>3 DEF Request
  <2> QED
    BY <1>1, <2>1 DEF Shape, ReadCountry
<1>5. req' = [req EXCEPT ![t] = R]
  BY <1>1, <1>2, <1>3 DEF ReadCountry, Typed, TypeOK
<1> QED
  BY <1>4, <1>5, RequestType DEF ReadCountry, Typed, TypeOK

LEMMA FindType == ASSUME Typed, NEW t \in Txn, FindSlug(t) PROVE Typed'
<1>1. Active(t) /\ req[t] \in Request /\ Shape(req[t])
  BY ActiveType DEF FindSlug, Active
<1>2. CASE Seen(t, SlugOf(req[t].number)) = 0
  <2>1. PICK pc \in {"slug", "world"} :
          /\ pc = IF req[t].country = NoCountry THEN "slug" ELSE "world"
          /\ Goto(t, pc)
    BY <1>2 DEF FindSlug
  <2>2. req[t].player = Nobody => pc = "slug"
    BY <1>1, <2>1 DEF Shape
  <2>3. [req[t] EXCEPT !.pc = pc] \in Request /\ Shape([req[t] EXCEPT !.pc = pc])
    BY <1>1, <2>2 DEF Request, Shape, FindSlug
  <2> QED
    BY <1>1, <1>2, <2>1, <2>3, MoveType DEF FindSlug, Typed, TypeOK
<1> QED
  BY <1>2, RollbackType DEF FindSlug

LEMMA WriteWorldType == ASSUME Typed, NEW t \in Txn, WriteWorld(t) PROVE Typed'
<1>1. Active(t) /\ req[t] \in Request /\ Shape(req[t]) /\ req[t].country \in Country
  BY ActiveType DEF WriteWorld, Active, Shape
<1>2. CASE Fits(req[t].change)
  <2>1. PICK w \in WorldId : w = req[t].country[1]
    BY <1>1 DEF Country
  <2>2. Changed(Seen(t, WorldOf(w)), req[t].change) \in RowType(WorldOf(w))
    <3>1. Seen(t, WorldOf(w)) \in WorldUpTo(Capacity)
      BY Rows, SeenType DEF Typed
    <3>2. req[t].change.count \in 0 .. Capacity
      BY <1>1, <1>2, CapacityAssumption DEF Request, Fits
    <3> QED
      BY <3>1, <3>2, Rows DEF Changed, WorldUpTo
  <2>3. PICK pc \in {"slug", "commit"} :
          pc = (IF req[t].number = 0 THEN "commit" ELSE "slug") /\ Goto(t, pc)
    BY <1>2 DEF WriteWorld, CreateNext
  <2>4. [req[t] EXCEPT !.pc = pc] \in Request /\ Shape([req[t] EXCEPT !.pc = pc])
    BY <1>1, <2>3 DEF Request, Shape
  <2> QED
    BY <1>1, <1>2, <2>1, <2>2, <2>3, <2>4, MoveType DEF WriteWorld, Typed, TypeOK
<1> QED
  BY <1>2, RollbackType DEF WriteWorld

LEMMA InsertSlugType == ASSUME Typed, NEW t \in Txn, InsertSlug(t) PROVE Typed'
<1>1. Active(t) /\ req[t] \in Request /\ Shape(req[t]) /\ req[t].number \in Number
  BY ActiveType DEF InsertSlug, Active, Shape
<1>2. nextWorld' \in 1 .. MaxWorlds + 1 /\ joins' \in [WorldId -> 0 .. Capacity]
  BY WorldsAssumption DEF InsertSlug, Typed, TypeOK
<1>3. CASE Write(t, SlugOf(req[t].number), nextWorld) /\ Goto(t, "insert")
            /\ nextWorld <= MaxWorlds
  <2>1. nextWorld \in RowType(SlugOf(req[t].number))
    BY <1>1, <1>3, Rows, WorldsAssumption DEF Typed, TypeOK, WorldId
  <2>2. [req[t] EXCEPT !.pc = "insert"] \in Request /\ Shape([req[t] EXCEPT !.pc = "insert"])
    BY <1>1 DEF Request, Shape, InsertSlug
  <2> QED
    BY <1>1, <1>2, <1>3, <2>1, <2>2, MoveType
<1>4. CASE ForgetWrites(t) /\ Finish(t)
  BY <1>2, <1>4, EndStep
<1> QED
  BY <1>3, <1>4 DEF InsertSlug

LEMMA TypedStep == ASSUME Typed, [Next]_vars PROVE Typed'
<1>1. ASSUME NEW t \in Txn, Step(t) PROVE Typed'
  <2>1. CASE Commit(t)
    <3>1. joins' \in [WorldId -> 0 .. Capacity]
      BY <2>1, CapacityAssumption DEF Commit, Typed, TypeOK
    <3> QED
      BY <2>1, <3>1, EndStep DEF Commit, Typed, TypeOK
  <2> QED
    BY <1>1, <2>1, MoveTypes, CountType, FindType, WriteWorldType, InsertSlugType,
       ReadType DEF Step
<1>2. ASSUME NEW t \in Txn, Fail(t) PROVE Typed'
  BY <1>2, RollbackType DEF Fail
<1>3. CASE UNCHANGED vars
  BY <1>3 DEF vars, Typed, TypeOK, Active, Shape
<1> QED
  BY <1>1, <1>2, <1>3, SelectType, AbandonType, EnsureType DEF Next

LEMMA TypedInit == ASSUME Init PROVE Typed
<1>1. \A r \in Row : store[r] \in RowType(r)
  <2>1. NoWorld \in WorldUpTo(Capacity)
    BY CapacityAssumption DEF WorldUpTo, NoWorld
  <2> QED
    BY <2>1 DEF Init, RowType
<1>2. \A r \in Row : pending[r] \in RowType(r)
  BY <1>1 DEF Init
<1>3. store = [r \in Row |-> store[r]] /\ pending = [r \in Row |-> pending[r]]
  BY DEF Init
<1>4. /\ holder \in [Row -> Txn \cup {NoTxn}] /\ nextWorld \in 1 .. MaxWorlds + 1
      /\ joins \in [WorldId -> 0 .. Capacity]
  BY WorldsAssumption, CapacityAssumption DEF Init
<1>5. req \in [Txn -> Request \cup {Idle}] /\ \A t \in Txn : ~Active(t)
  BY DEF Init, Active, Idle
<1> QED
  BY <1>1, <1>2, <1>3, <1>4, <1>5 DEF Typed, TypeOK

(* Every row, lock and request is what its table and its code say: above all, *)
(* no committed world counts more players than its capacity.                  *)
THEOREM TypeCorrect == Spec => []TypeOK
<1>1. Init => Typed
  BY TypedInit
<1>2. Typed /\ [Next]_vars => Typed'
  BY TypedStep
<1>3. Typed => TypeOK
  BY DEF Typed
<1> QED
  BY <1>1, <1>2, <1>3, PTL DEF Spec

-----------------------------------------------------------------------------
(* Who rules what, action by action.                                       *)

LEMMA Others ==
  ASSUME Typed, Typed', Owned, NEW t \in Txn, NEW R,
         req' = [req EXCEPT ![t] = R], R.pc # "idle", UNCHANGED store,
         \A r \in Row : holder'[r] # holder[r] \/ pending'[r] # pending[r] =>
                          holder[r] \in {t, NoTxn} /\ holder'[r] = t,
         \A u \in Txn : u # t /\ Active(u) /\ req[u].player = R.player => R.player = Nobody,
         \A p \in Player : holder'[RealmOf(p)] = t => p = R.player,
         \A c \in Country : holder'[RulerOf(c)] = t =>
            c = R.country /\ R.player # Nobody /\ R.pc \notin {"read", "leave", "vacate"},
         Mine(t, R)'
  PROVE  Owned'
<1>1. Active(t)' /\ req'[t] = R /\ t # NoTxn
  BY TxnAssumption DEF Typed, TypeOK, Active
<1>2. ASSUME NEW u \in Txn, u # t PROVE req'[u] = req[u] /\ Active(u)' = Active(u)
  BY <1>2 DEF Typed, TypeOK, Active
<1>3. \A r \in Row : holder[r] \in Txn \cup {NoTxn} /\ holder'[r] \in Txn \cup {NoTxn}
  BY DEF Typed, TypeOK
<1>4. RulerRules'
  BY DEF Owned, RulerRules, Realm, Ruler
<1>5. Held'
  <2>1. ASSUME NEW p \in Player, holder'[RealmOf(p)] # NoTxn
        PROVE  Active(holder[RealmOf(p)])' /\ req'[holder'[RealmOf(p)]].player = p
    <3>1. CASE holder'[RealmOf(p)] = t
      BY <1>1, <3>1
    <3>2. CASE holder'[RealmOf(p)] # t
      <4>1. PICK u \in Txn : u = holder[RealmOf(p)] /\ u = holder'[RealmOf(p)] /\ u # t
        BY <1>3, <2>1, <3>2, Rows
      <4>2. Active(u) /\ req[u].player = p
        BY <4>1, <2>1 DEF Owned, Held, Active
      <4>3. req'[u] = req[u]
        BY <1>2, <4>1
      <4> QED
        BY <4>1, <4>2, <4>3 DEF Active
    <3> QED
      BY <3>1, <3>2
  <2>2. ASSUME NEW c \in Country, holder'[RulerOf(c)] # NoTxn
        PROVE  /\ Active(holder[RulerOf(c)])'
               /\ req'[holder'[RulerOf(c)]].country = c
               /\ req'[holder'[RulerOf(c)]].player # Nobody
               /\ req'[holder'[RulerOf(c)]].pc \notin {"read", "leave", "vacate"}
    <3>1. CASE holder'[RulerOf(c)] = t
      BY <1>1, <3>1
    <3>2. CASE holder'[RulerOf(c)] # t
      <4>1. PICK u \in Txn : u = holder[RulerOf(c)] /\ u = holder'[RulerOf(c)] /\ u # t
        BY <1>3, <2>2, <3>2, Rows
      <4>2. Active(u) /\ req[u].country = c /\ req[u].player # Nobody
            /\ req[u].pc \notin {"read", "leave", "vacate"}
        <5>1. Held
          BY DEF Owned
        <5> QED
          BY <4>1, <2>2, <5>1 DEF Held, Active
      <4>3. req'[u] = req[u]
        BY <1>2, <4>1
      <4> QED
        BY <4>1, <4>2, <4>3 DEF Active
    <3> QED
      BY <3>1, <3>2
  <2> QED
    BY <2>1, <2>2 DEF Held
<1>6. Alone'
  BY <1>1, <1>2 DEF Owned, Alone
<1>7. ASSUME NEW u \in Txn, u # t, Active(u)' PROVE Mine(u, req[u])'
  <2>1. Active(u) /\ req'[u] = req[u] /\ Mine(u, req[u])
    BY <1>2, <1>7 DEF Owned
  <2>2. u # NoTxn
    BY TxnAssumption
  <2>3. \A r \in Row : holder[r] = u => holder'[r] = u /\ pending'[r] = pending[r]
    BY <1>7, <2>2
  <2>4. req[u].player # Nobody => /\ RealmOf(req[u].player) \in Row
                                  /\ RulerOf(req[u].country) \in Row
    BY <2>1, ActiveType, Rows DEF Shape, Request
  <2>5. Leaving(req[u]) => req[u].player # Nobody
    BY <2>1, ActiveType DEF Leaving, Shape
  <2>6. PICK Q : Q = req[u]
    OBVIOUS
  <2>7. Mine(u, Q)
    BY <2>1, <2>6
  <2>8. Mine(u, Q)'
    <3>1. Selecting(Q) => Q.player # Nobody
      BY DEF Selecting
    <3>2. Q.player # Nobody =>
            /\ (holder[RulerOf(Q.country)] = u => /\ holder'[RulerOf(Q.country)] = u
                   /\ pending'[RulerOf(Q.country)] = pending[RulerOf(Q.country)])
            /\ (holder[RealmOf(Q.player)] = u => /\ holder'[RealmOf(Q.player)] = u
                   /\ pending'[RealmOf(Q.player)] = pending[RealmOf(Q.player)])
      BY <2>3, <2>4, <2>6
    <3>3. Leaving(Q) => /\ Q.player # Nobody
                        /\ store'[RealmOf(Q.player)] = store[RealmOf(Q.player)]
      BY <2>5, <2>6
    <3>4. Selecting(Q) => store'[RulerOf(Q.country)] = store[RulerOf(Q.country)]
      OBVIOUS
    <3>5. Q.pc = "vacate" => Leaving(Q)
      BY DEF Leaving
    <3> QED
      BY ONLY <2>7, <3>1, <3>2, <3>3, <3>4, <3>5 DEF Mine
  <2> QED
    BY <2>1, <2>6, <2>8
<1>8. Mine(t, req[t])'
  BY <1>1
<1> QED
  BY <1>4, <1>5, <1>6, <1>7, <1>8 DEF Owned

\* What a transaction holds says what its request is about.
LEMMA RowsOf ==
  ASSUME Typed, Owned, NEW t \in Txn
  PROVE  /\ \A p \in Player : holder[RealmOf(p)] = t => Active(t) /\ p = req[t].player
         /\ \A c \in Country : holder[RulerOf(c)] = t =>
              /\ Active(t) /\ c = req[t].country /\ req[t].player # Nobody
              /\ req[t].pc \notin {"read", "leave", "vacate"}
<1>1. Held /\ t # NoTxn
  BY TxnAssumption DEF Owned
<1>2. ASSUME NEW p \in Player, holder[RealmOf(p)] = t
      PROVE  Active(t) /\ p = req[t].player
  BY <1>1, <1>2 DEF Held
<1>3. ASSUME NEW c \in Country, holder[RulerOf(c)] = t
      PROVE  /\ Active(t) /\ c = req[t].country /\ req[t].player # Nobody
             /\ req[t].pc \notin {"read", "leave", "vacate"}
  BY <1>1, <1>3 DEF Held
<1> QED
  BY <1>2, <1>3

LEMMA WriteEffect ==
  ASSUME Typed, NEW t \in Txn, NEW r, NEW value, Write(t, r, value)
  PROVE  /\ UNCHANGED store
         /\ r \in Row => holder'[r] = t /\ pending'[r] = value
         /\ \A s \in Row : s # r => holder'[s] = holder[s] /\ pending'[s] = pending[s]
         /\ \A s \in Row : holder'[s] # holder[s] \/ pending'[s] # pending[s] =>
              holder[s] \in {t, NoTxn} /\ holder'[s] = t
BY DEF Typed, TypeOK, Write

LEMMA SelectOwned ==
  ASSUME Typed, Typed', Owned, Overlap = FALSE, NEW t \in Txn, NEW p \in Player,
         NEW c \in Country, Select(t, p, c)
  PROVE  Owned'
<1>1. PICK R : /\ R.player = p /\ R.country = c /\ R.pc = "move" /\ R.seen = Nobody
               /\ req' = [req EXCEPT ![t] = R]
  BY DEF Select
<1>2. RulerOf(c) \in Row /\ RealmOf(p) \in Row
  BY Rows
<1>3. Write(t, RulerOf(c), p) /\ store[RulerOf(c)] = Nobody /\ ~Active(t)
  BY DEF Select, Free
<1>4. \A u \in Txn : ~(Active(u) /\ req[u].player = p)
  BY DEF Select, MayStart
<1>5. \A q \in Player : holder'[RealmOf(q)] # t
  BY <1>3, Rows, RowsApart, RowsOf, WriteEffect
<1>6. \A d \in Country : holder'[RulerOf(d)] = t => d = c
  BY <1>3, Rows, RowsApart, RowsOf, WriteEffect
<1>7. Mine(t, R)'
  BY <1>1, <1>2, <1>3, WriteEffect DEF Mine, Selecting, Leaving
<1> QED
  BY <1>1, <1>3, <1>4, <1>5, <1>6, <1>7, TxnAssumption, WriteEffect, Others

LEMMA AbandonOwned ==
  ASSUME Typed, Typed', Owned, Overlap = FALSE, NEW t \in Txn, NEW p \in Player, Abandon(t, p)
  PROVE  Owned'
<1>1. PICK R : /\ R.player = p /\ R.country = store[RealmOf(p)] /\ R.pc = "read"
               /\ R.seen = Nobody /\ req' = [req EXCEPT ![t] = R]
  BY DEF Abandon
<1>2. UNCHANGED <<store, holder, pending>> /\ ~Active(t)
  BY DEF Abandon
<1>3. \A u \in Txn : ~(Active(u) /\ req[u].player = p)
  BY DEF Abandon, MayStart
<1>4. /\ \A q \in Player : holder'[RealmOf(q)] # t
      /\ \A d \in Country : holder'[RulerOf(d)] # t
  BY <1>2, RowsOf
<1>5. Mine(t, R)'
  BY <1>1, <1>2 DEF Mine, Selecting, Leaving
<1> QED
  BY <1>1, <1>2, <1>3, <1>4, <1>5, Others

LEMMA EnsureOwned ==
  ASSUME Typed, Typed', Owned, NEW t \in Txn, EnsureWorlds(t)
  PROVE  Owned'
<1>1. PICK R : /\ R.player = Nobody /\ R.pc = "find" /\ req' = [req EXCEPT ![t] = R]
  BY DEF EnsureWorlds
<1>2. UNCHANGED <<store, holder, pending>> /\ ~Active(t)
  BY DEF EnsureWorlds
<1>3. /\ \A q \in Player : holder'[RealmOf(q)] # t
      /\ \A d \in Country : holder'[RulerOf(d)] # t
  BY <1>2, RowsOf
<1>4. Mine(t, R)'
  BY <1>1 DEF Mine, Selecting, Leaving
<1> QED
  BY <1>1, <1>2, <1>3, <1>4, Others

\* A step of a request that writes at most one row, under what it keeps.
LEMMA ActiveOwned ==
  ASSUME Typed, Typed', Owned, NEW t \in Txn, Active(t), NEW R,
         req' = [req EXCEPT ![t] = R], R.pc # "idle",
         R.player = req[t].player, R.country = req[t].country,
         \/ UNCHANGED <<store, holder, pending>>
         \/ \E r, value :
              /\ Write(t, r, value)
              /\ \A p \in Player : r = RealmOf(p) => p = R.player
              /\ \A c \in Country : r = RulerOf(c) => c = R.country,
         (\E c \in Country : holder'[RulerOf(c)] = t) =>
            R.player # Nobody /\ R.pc \notin {"read", "leave", "vacate"},
         Mine(t, R)'
  PROVE  Owned'
<1>1. /\ UNCHANGED store
      /\ \A s \in Row : holder'[s] # holder[s] \/ pending'[s] # pending[s] =>
           holder[s] \in {t, NoTxn} /\ holder'[s] = t
      /\ \A p \in Player : holder'[RealmOf(p)] = t => p = R.player
      /\ \A c \in Country : holder'[RulerOf(c)] = t => c = R.country
  <2>1. CASE UNCHANGED <<store, holder, pending>>
    BY <2>1, RowsOf
  <2>2. CASE \E r, value :
              /\ Write(t, r, value)
              /\ \A p \in Player : r = RealmOf(p) => p = R.player
              /\ \A c \in Country : r = RulerOf(c) => c = R.country
    <3>1. PICK r, value :
              /\ Write(t, r, value)
              /\ \A p \in Player : r = RealmOf(p) => p = R.player
              /\ \A c \in Country : r = RulerOf(c) => c = R.country
      BY <2>2
    <3> QED
      BY <3>1, WriteEffect, RowsOf, Rows
  <2> QED
    BY <2>1, <2>2
<1>2. \A u \in Txn : u # t /\ Active(u) /\ req[u].player = R.player => R.player = Nobody
  BY DEF Owned, Alone
<1> QED
  BY <1>1, <1>2, Others

LEMMA MovePlayerOwned ==
  ASSUME Typed, Typed', Owned, NEW t \in Txn, MovePlayer(t) PROVE Owned'
<1>1. Active(t) /\ Shape(req[t]) /\ req[t] \in Request /\ Mine(t, req[t])
  BY ActiveType DEF MovePlayer, Active, Owned
<1>2. req[t].player \in Player /\ req[t].country \in Country
  BY <1>1, TxnAssumption DEF Shape, Request, MovePlayer
<1>3. PICK R : R = [req[t] EXCEPT !.pc = "count"] /\ req' = [req EXCEPT ![t] = R]
  BY <1>1, GotoRecord DEF MovePlayer
<1>4. R.pc = "count" /\ R.player = req[t].player /\ R.country = req[t].country
      /\ R.seen = req[t].seen
  BY <1>1, <1>3 DEF Request
<1>5. Write(t, RealmOf(R.player), R.country)
  BY <1>4 DEF MovePlayer
<1>6. Selecting(req[t])
  BY <1>1, <1>2, TxnAssumption DEF Selecting, Leaving, MovePlayer
<1>7. Mine(t, R)'
  <2>1. holder'[RealmOf(R.player)] = t /\ pending'[RealmOf(R.player)] = R.country
    BY <1>2, <1>4, <1>5, Rows, WriteEffect
  <2>2. /\ holder'[RulerOf(R.country)] = t /\ pending'[RulerOf(R.country)] = R.player
        /\ store'[RulerOf(R.country)] = Nobody /\ R.seen = Nobody
    BY <1>1, <1>2, <1>4, <1>5, <1>6, Rows, RowsApart, WriteEffect DEF Mine
  <2>3. ~Leaving(R) /\ R.pc = "count"
    BY <1>4 DEF Leaving
  <2> QED
    BY <2>1, <2>2, <2>3 DEF Mine
<1>8. R.player # Nobody
  BY <1>2, <1>4, TxnAssumption
<1>9. \E r, value :
          /\ Write(t, r, value)
          /\ \A p \in Player : r = RealmOf(p) => p = R.player
          /\ \A c \in Country : r = RulerOf(c) => c = R.country
  BY <1>5, RowsApart
<1>10. R.pc # "idle"
  BY <1>4
<1> QED
  BY <1>1, <1>3, <1>4, <1>7, <1>8, <1>9, <1>10, ActiveOwned

LEMMA ReadOwned ==
  ASSUME Typed, Typed', Owned, NEW t \in Txn, ReadCountry(t) PROVE Owned'
<1>1. Active(t) /\ Shape(req[t]) /\ req[t] \in Request /\ Mine(t, req[t])
  BY ActiveType DEF ReadCountry, Active, Owned
<1>2. req[t].player \in Player /\ req[t].country \in Country
  BY <1>1, TxnAssumption DEF Shape, Request, ReadCountry
<1>3. store[RealmOf(req[t].player)] = req[t].country
  BY <1>1 DEF Mine, Leaving, ReadCountry
<1>4. Seen(t, RulerOf(req[t].country)) = req[t].player
  <2>1. holder[RulerOf(req[t].country)] # t
    BY <1>2, RowsOf DEF ReadCountry
  <2>2. NoCountry \notin Country
    BY DEF NoCountry, Country
  <2> QED
    BY <1>2, <1>3, <2>1, <2>2 DEF Owned, RulerRules, Realm, Ruler, Seen
<1>5. PICK R : R = [req[t] EXCEPT !.pc = "leave", !.seen = req[t].player]
               /\ req' = [req EXCEPT ![t] = R]
  BY <1>1, <1>4 DEF ReadCountry, Typed, TypeOK
<1>6. R.pc = "leave" /\ R.player = req[t].player /\ R.country = req[t].country
      /\ R.seen = req[t].player
  BY <1>1, <1>5 DEF Request
<1>7. UNCHANGED <<store, holder, pending>>
  BY DEF ReadCountry
<1>8. Mine(t, R)'
  <2>1. ~Selecting(R)
    BY <1>6 DEF Selecting, Leaving
  <2> QED
    BY <1>3, <1>6, <1>7, <2>1 DEF Mine
<1>9. \A c \in Country : holder'[RulerOf(c)] # t
  BY <1>7, RowsOf DEF ReadCountry
<1> QED
  BY <1>1, <1>5, <1>6, <1>7, <1>8, <1>9, ActiveOwned

LEMMA LeaveOwned ==
  ASSUME Typed, Typed', Owned, NEW t \in Txn, LeaveCountry(t) PROVE Owned'
<1>1. Active(t) /\ Shape(req[t]) /\ req[t] \in Request /\ Mine(t, req[t])
  BY ActiveType DEF LeaveCountry, Active, Owned
<1>2. req[t].player \in Player /\ req[t].country \in Country
  BY <1>1, TxnAssumption DEF Shape, Request, LeaveCountry
<1>3. PICK R : R = [req[t] EXCEPT !.pc = "vacate"] /\ req' = [req EXCEPT ![t] = R]
  BY <1>1, GotoRecord DEF LeaveCountry
<1>4. R.pc = "vacate" /\ R.player = req[t].player /\ R.country = req[t].country
      /\ R.seen = req[t].seen
  BY <1>1, <1>3 DEF Request
<1>5. Write(t, RealmOf(R.player), NoCountry)
  BY <1>4 DEF LeaveCountry
<1>6. Mine(t, R)'
  <2>1. ~Selecting(R)
    BY <1>4 DEF Selecting, Leaving
  <2>2. req[t].seen = req[t].player /\ store[RealmOf(req[t].player)] = req[t].country
    BY <1>1 DEF Mine, LeaveCountry, Leaving
  <2>3. /\ holder'[RealmOf(R.player)] = t /\ pending'[RealmOf(R.player)] = NoCountry
        /\ UNCHANGED store
    BY <1>2, <1>4, <1>5, Rows, WriteEffect
  <2> QED
    BY <1>4, <2>1, <2>2, <2>3 DEF Mine
<1>7. \A c \in Country : holder'[RulerOf(c)] # t
  BY <1>5, Rows, RowsApart, RowsOf, WriteEffect DEF LeaveCountry
<1>8. \E r, value :
          /\ Write(t, r, value)
          /\ \A p \in Player : r = RealmOf(p) => p = R.player
          /\ \A c \in Country : r = RulerOf(c) => c = R.country
  BY <1>5, RowsApart
<1>9. R.pc # "idle"
  BY <1>4
<1> QED
  BY <1>1, <1>3, <1>4, <1>6, <1>7, <1>8, <1>9, ActiveOwned

LEMMA VacateOwned ==
  ASSUME Typed, Typed', Owned, NEW t \in Txn, VacateCountry(t) PROVE Owned'
<1>1. Active(t) /\ Shape(req[t]) /\ req[t] \in Request /\ Mine(t, req[t])
  BY ActiveType DEF VacateCountry, Active, Owned
<1>2. req[t].player \in Player /\ req[t].country \in Country
  BY <1>1, TxnAssumption DEF Shape, Request, VacateCountry
<1>3. PICK R : R = [req[t] EXCEPT !.pc = "commit"] /\ req' = [req EXCEPT ![t] = R]
  BY <1>1, GotoRecord DEF VacateCountry
<1>4. R.pc = "commit" /\ R.player = req[t].player /\ R.country = req[t].country
      /\ R.seen = req[t].seen
  BY <1>1, <1>3 DEF Request
<1>5. /\ req[t].seen = req[t].player /\ store[RealmOf(req[t].player)] = req[t].country
      /\ holder[RealmOf(req[t].player)] = t /\ pending[RealmOf(req[t].player)] = NoCountry
  BY <1>1 DEF Mine, VacateCountry, Leaving
<1>6. R.player # Nobody /\ req[t].seen # Nobody
  BY <1>2, <1>4, <1>5, TxnAssumption
<1>7. Write(t, RulerOf(R.country), Nobody)
  BY <1>4, <1>6 DEF VacateCountry
<1>8. Mine(t, R)'
  <2>1. ~Selecting(R)
    BY <1>4, <1>6 DEF Selecting, Leaving
  <2>2. holder'[RulerOf(R.country)] = t /\ pending'[RulerOf(R.country)] = Nobody
    BY <1>2, <1>4, <1>7, Rows, WriteEffect
  <2>3. /\ holder'[RealmOf(R.player)] = t /\ pending'[RealmOf(R.player)] = NoCountry
        /\ store'[RealmOf(R.player)] = R.country
    BY <1>2, <1>4, <1>5, <1>7, Rows, RowsApart, WriteEffect
  <2> QED
    BY <1>4, <1>5, <2>1, <2>2, <2>3 DEF Mine
<1>9. \E r, value :
          /\ Write(t, r, value)
          /\ \A p \in Player : r = RealmOf(p) => p = R.player
          /\ \A c \in Country : r = RulerOf(c) => c = R.country
  BY <1>7, RowsApart
<1>10. R.pc # "idle"
  BY <1>4
<1> QED
  BY <1>1, <1>3, <1>4, <1>6, <1>8, <1>9, <1>10, ActiveOwned

\* The rest of a selection, and the creation of a world: no player's and no
\* country's row is written.
LEMMA WorldOwned ==
  ASSUME Typed, Typed', Owned, NEW t \in Txn, NEW R, req' = [req EXCEPT ![t] = R],
         req[t].pc \in {"count", "find", "world", "slug", "insert"},
         R.pc \in {"find", "world", "slug", "insert", "commit"},
         R.player = req[t].player, R.country = req[t].country, R.seen = req[t].seen,
         \/ UNCHANGED <<store, holder, pending>>
         \/ \E r, value :
              Write(t, r, value) /\ \A x : r # RealmOf(x) /\ r # RulerOf(x)
  PROVE  Owned'
<1>1. Active(t) /\ Shape(req[t]) /\ req[t] \in Request /\ Mine(t, req[t])
  BY ActiveType DEF Active, Owned
<1>2. /\ UNCHANGED store
      /\ \A p \in Player : /\ holder'[RealmOf(p)] = holder[RealmOf(p)]
                           /\ pending'[RealmOf(p)] = pending[RealmOf(p)]
      /\ \A c \in Country : /\ holder'[RulerOf(c)] = holder[RulerOf(c)]
                            /\ pending'[RulerOf(c)] = pending[RulerOf(c)]
  BY Rows, WriteEffect
<1>3. (\E c \in Country : holder'[RulerOf(c)] = t) => R.player # Nobody
  BY <1>2, RowsOf
<1>4. ~Leaving(R) /\ Mine(t, R)'
  <2>1. CASE req[t].player = Nobody
    BY <1>1, <2>1 DEF Mine, Selecting, Leaving, Shape
  <2>2. CASE req[t].player # Nobody
    <3>1. req[t].player \in Player /\ req[t].country \in Country
      BY <1>1, <2>2 DEF Shape, Request
    <3>2. Selecting(req[t])
      BY <2>2 DEF Selecting, Leaving
    <3>3. R.seen = Nobody
      BY <1>1, <3>2 DEF Mine
    <3>4. ~Leaving(R)
      BY <3>3 DEF Leaving
    <3> QED
      BY <1>1, <1>2, <3>1, <3>2, <3>3, <3>4 DEF Mine, Selecting
  <2> QED
    BY <2>1, <2>2
<1> QED
  BY <1>1, <1>3, <1>4, ActiveOwned

\* A transaction that ends leaves the others as they are.
LEMMA EndOwned ==
  ASSUME Typed, Owned, NEW t \in Txn, Release(t), Finish(t),
         \A r \in Row : holder[r] # t => store'[r] = store[r] /\ pending'[r] = pending[r],
         RulerRules'
  PROVE  Owned'
<1>1. /\ t # NoTxn /\ ~Active(t)'
      /\ \A u \in Txn : u # t => req'[u] = req[u]
  BY TxnAssumption DEF Finish, Active, Idle, Typed, TypeOK
<1>2. \A r \in Row : /\ holder[r] = t => holder'[r] = NoTxn
                     /\ holder[r] # t => holder'[r] = holder[r]
  BY DEF Release
<1>3. ASSUME NEW u \in Txn, Active(u)' PROVE Mine(u, req[u])'
  <2>1. u # t /\ Active(u) /\ req'[u] = req[u] /\ Mine(u, req[u])
    BY <1>1, <1>3 DEF Active, Owned
  <2>2. PICK Q \in Request : Q = req[u] /\ Shape(Q) /\ Mine(u, Q)
    BY <2>1, ActiveType
  <2>3. Q.player # Nobody => RealmOf(Q.player) \in Row /\ RulerOf(Q.country) \in Row
    BY <2>2, Rows DEF Shape, Request
  <2>4. (Selecting(Q) \/ Leaving(Q) => Q.player # Nobody) /\ (Q.pc = "vacate" => Leaving(Q))
    BY <2>2 DEF Selecting, Leaving, Shape
  <2>5. Leaving(Q) => holder[RealmOf(Q.player)] # t
    <3>1. Leaving(Q) => Q.player \in Player
      BY <2>2, <2>4 DEF Request
    <3>2. Alone
      BY DEF Owned
    <3> QED
      BY <2>1, <2>2, <2>4, <3>1, <3>2, RowsOf DEF Alone
  <2>6. Mine(u, Q)'
    BY <1>1, <1>2, <2>1, <2>2, <2>3, <2>4, <2>5 DEF Mine
  <2> QED
    BY <2>1, <2>2, <2>6
<1>4. Alone'
  BY <1>1 DEF Owned, Alone, Active
<1>5. Held'
  <2>1. \A r \in Row : holder'[r] # NoTxn => holder[r] \in Txn \ {t} /\ holder'[r] = holder[r]
    <3>1. \A r \in Row : holder[r] \in Txn \cup {NoTxn}
      BY DEF Typed, TypeOK
    <3>2. ASSUME NEW r \in Row, holder'[r] # NoTxn
          PROVE  holder[r] \in Txn \ {t} /\ holder'[r] = holder[r]
      <4>1. holder[r] # t
        BY <1>2, <3>2
      <4>2. holder'[r] = holder[r]
        BY <1>2, <4>1
      <4> QED
        BY <3>1, <3>2, <4>1, <4>2
    <3> QED
      BY <3>2
  <2>2. ASSUME NEW p \in Player, holder'[RealmOf(p)] # NoTxn
        PROVE  Active(holder[RealmOf(p)])' /\ req'[holder'[RealmOf(p)]].player = p
    <3>1. PICK u \in Txn : u = holder[RealmOf(p)] /\ u = holder'[RealmOf(p)] /\ u # t
      BY <2>1, <2>2, Rows
    <3>2. Active(u) /\ req[u].player = p /\ req'[u] = req[u]
      BY <1>1, <3>1, RowsOf
    <3> QED
      BY <3>1, <3>2 DEF Active
  <2>3. ASSUME NEW c \in Country, holder'[RulerOf(c)] # NoTxn
        PROVE  /\ Active(holder[RulerOf(c)])'
               /\ req'[holder'[RulerOf(c)]].country = c
               /\ req'[holder'[RulerOf(c)]].player # Nobody
               /\ req'[holder'[RulerOf(c)]].pc \notin {"read", "leave", "vacate"}
    <3>1. PICK u \in Txn : u = holder[RulerOf(c)] /\ u = holder'[RulerOf(c)] /\ u # t
      BY <2>1, <2>3, Rows
    <3>2. /\ Active(u) /\ req[u].country = c /\ req[u].player # Nobody
          /\ req[u].pc \notin {"read", "leave", "vacate"} /\ req'[u] = req[u]
      BY <1>1, <3>1, RowsOf
    <3> QED
      BY <3>1, <3>2 DEF Active
  <2> QED
    BY <2>2, <2>3 DEF Held
<1> QED
  BY <1>3, <1>4, <1>5 DEF Owned

LEMMA ForgottenOwned ==
  ASSUME Typed, Owned, NEW t \in Txn, ForgetWrites(t), Finish(t) PROVE Owned'
<1>1. RulerRules'
  BY DEF Owned, RulerRules, Realm, Ruler, ForgetWrites
<1> QED
  BY <1>1, EndOwned DEF ForgetWrites

LEMMA WorldSteps ==
  ASSUME Typed, Typed', Owned, NEW t \in Txn,
         \/ CountPlayer(t) \/ FindSlug(t) \/ WriteWorld(t) \/ InsertSlug(t) \/ InsertWorld(t)
  PROVE  Owned'
<1>1. Active(t) /\ req[t] \in Request
  BY ActiveType DEF CountPlayer, FindSlug, WriteWorld, InsertSlug, InsertWorld, Active
<1>2. \A n, x : /\ WorldOf(n) # RealmOf(x) /\ WorldOf(n) # RulerOf(x)
                /\ SlugOf(n) # RealmOf(x) /\ SlugOf(n) # RulerOf(x)
  BY RowsApart
<1>3. ASSUME NEW pc \in {"find", "world", "slug", "insert", "commit"}, Goto(t, pc),
             req[t].pc \in {"count", "find", "world", "slug", "insert"},
             \/ UNCHANGED <<store, holder, pending>>
             \/ \E n, value : Write(t, WorldOf(n), value) \/ Write(t, SlugOf(n), value)
      PROVE  Owned'
  <2>1. PICK R : R = [req[t] EXCEPT !.pc = pc] /\ req' = [req EXCEPT ![t] = R]
    BY <1>1, <1>3, GotoRecord
  <2>2. R.pc = pc /\ R.player = req[t].player /\ R.country = req[t].country
        /\ R.seen = req[t].seen
    BY <1>1, <2>1 DEF Request
  <2>3. \/ UNCHANGED <<store, holder, pending>>
        \/ \E r, value : Write(t, r, value) /\ \A x : r # RealmOf(x) /\ r # RulerOf(x)
    BY <1>2, <1>3
  <2> QED
    BY <1>3, <2>1, <2>2, <2>3, WorldOwned
<1>4. CASE CountPlayer(t)
  <2>1. PICK R : /\ req' = [req EXCEPT ![t] = R] /\ R.pc \in {"world", "find"}
                 /\ R.player = req[t].player /\ R.country = req[t].country
                 /\ R.seen = req[t].seen
    BY <1>4, CountRecord
  <2> QED
    BY <1>4, <2>1, WorldOwned DEF CountPlayer
<1>5. CASE FindSlug(t) /\ ~Rollback(t)
  <2>1. PICK pc \in {"slug", "world"} : Goto(t, pc) /\ UNCHANGED <<store, holder, pending>>
    BY <1>5 DEF FindSlug
  <2> QED
    BY <1>3, <1>5, <2>1 DEF FindSlug
<1>6. CASE WriteWorld(t) /\ ~Rollback(t)
  <2>1. PICK pc \in {"slug", "commit"} :
          /\ Goto(t, pc)
          /\ \E value : Write(t, WorldOf(req[t].country[1]), value)
    BY <1>6 DEF WriteWorld, CreateNext
  <2> QED
    BY <1>3, <1>6, <2>1 DEF WriteWorld
<1>7. CASE InsertSlug(t)
  <2>1. CASE Write(t, SlugOf(req[t].number), nextWorld) /\ Goto(t, "insert")
    BY <1>3, <1>7, <2>1 DEF InsertSlug
  <2>2. CASE ForgetWrites(t) /\ Finish(t)
    BY <2>2, ForgottenOwned
  <2> QED
    BY <1>7, <2>1, <2>2 DEF InsertSlug
<1>8. CASE InsertWorld(t)
  BY <1>3, <1>8 DEF InsertWorld
<1> QED
  BY <1>4, <1>5, <1>6, <1>7, <1>8, ForgottenOwned DEF Rollback

\* What a transaction commits: nothing of players and countries, or a player and
\* a country that was free, or a country given up by its ruler.
LEMMA CommitEffect ==
  ASSUME Typed, Owned, NEW t \in Txn, Commit(t)
  PROVE  \/ /\ \A q \in Player : Realm(q)' = Realm(q)
            /\ \A d \in Country : Ruler(d)' = Ruler(d)
         \/ \E p \in Player, c \in Country :
              /\ \A q \in Player : q # p => Realm(q)' = Realm(q)
              /\ \A d \in Country : d # c => Ruler(d)' = Ruler(d)
              /\ \/ Ruler(c) = Nobody /\ Ruler(c)' = p /\ Realm(p)' = c
                 \/ Realm(p) = c /\ Ruler(c)' = Nobody /\ Realm(p)' = NoCountry
<1>1. Active(t) /\ req[t].pc = "commit" /\ req[t] \in Request /\ Shape(req[t])
      /\ Mine(t, req[t])
  BY ActiveType DEF Commit, Active, Owned
<1>2. \A r \in Row : store'[r] = IF holder[r] = t THEN pending[r] ELSE store[r]
  BY DEF Commit, CommitWrites, Seen
<1>3. \A q \in Player : q # req[t].player => Realm(q)' = Realm(q)
  BY <1>2, Rows, RowsOf DEF Realm
<1>4. \A d \in Country : d # req[t].country \/ req[t].player = Nobody => Ruler(d)' = Ruler(d)
  BY <1>2, Rows, RowsOf DEF Ruler
<1>5. CASE req[t].player = Nobody
  BY <1>3, <1>4, <1>5, TxnAssumption
<1>6. CASE req[t].player # Nobody
  <2>1. PICK p \in Player, c \in Country : p = req[t].player /\ c = req[t].country
    BY <1>1, <1>6 DEF Shape, Request
  <2>2. RealmOf(p) \in Row /\ RulerOf(c) \in Row
    BY Rows
  <2>3. CASE Selecting(req[t])
    <3>1. /\ holder[RulerOf(c)] = t /\ pending[RulerOf(c)] = p /\ store[RulerOf(c)] = Nobody
          /\ holder[RealmOf(p)] = t /\ pending[RealmOf(p)] = c
      BY <1>1, <2>1, <2>3 DEF Mine
    <3>2. Ruler(c) = Nobody /\ Ruler(c)' = p /\ Realm(p)' = c
      BY <1>2, <2>2, <3>1 DEF Ruler, Realm
    <3> QED
      BY <1>3, <1>4, <2>1, <3>2
  <2>4. CASE Leaving(req[t])
    <3>1. /\ holder[RulerOf(c)] = t /\ pending[RulerOf(c)] = Nobody
          /\ holder[RealmOf(p)] = t /\ pending[RealmOf(p)] = NoCountry
          /\ store[RealmOf(p)] = c
      BY <1>1, <2>1, <2>4 DEF Mine
    <3>2. Realm(p) = c /\ Ruler(c)' = Nobody /\ Realm(p)' = NoCountry
      BY <1>2, <2>2, <3>1 DEF Ruler, Realm
    <3> QED
      BY <1>3, <1>4, <2>1, <3>2
  <2> QED
    BY <1>6, <2>3, <2>4 DEF Selecting
<1> QED
  BY <1>5, <1>6

LEMMA CommitOwned ==
  ASSUME Typed, Owned, NEW t \in Txn, Commit(t) PROVE Owned'
<1>1. RulerRules'
  <2>1. RulerRules /\ \A p \in Player : Realm(p) \in Country \cup {NoCountry}
    BY Rows DEF Owned, Typed, TypeOK, Realm
  <2>2. CASE /\ \A q \in Player : Realm(q)' = Realm(q)
             /\ \A d \in Country : Ruler(d)' = Ruler(d)
    BY <2>1, <2>2 DEF RulerRules, Ruler, Realm
  <2>3. ASSUME NEW p \in Player, NEW c \in Country,
               \A q \in Player : q # p => Realm(q)' = Realm(q),
               \A d \in Country : d # c => Ruler(d)' = Ruler(d),
               \/ Ruler(c) = Nobody /\ Ruler(c)' = p /\ Realm(p)' = c
               \/ Realm(p) = c /\ Ruler(c)' = Nobody /\ Realm(p)' = NoCountry
        PROVE  RulerRules'
    <3>1. NoCountry \notin Country
      BY DEF NoCountry, Country
    <3>2. ASSUME NEW q \in Player, q # p, Realm(q)' # NoCountry
          PROVE  Ruler(Realm(q))' = q
      <4>1. PICK d \in Country : d = Realm(q) /\ d = Realm(q)' /\ Ruler(d) = q
        BY <2>1, <2>3, <3>2 DEF RulerRules
      <4>2. d # c
        BY <2>1, <2>3, <3>1, <3>2, <4>1, TxnAssumption DEF RulerRules
      <4> QED
        BY <2>3, <4>1, <4>2 DEF Ruler
    <3>3. ASSUME Realm(p)' # NoCountry PROVE Ruler(Realm(p))' = p
      BY <2>3, <3>3 DEF Ruler
    <3> QED
      BY <3>2, <3>3 DEF RulerRules
  <2> QED
    BY <2>2, <2>3, CommitEffect
<1> QED
  BY <1>1, EndOwned DEF Commit, CommitWrites, Seen

LEMMA OwnedStep ==
  ASSUME Typed, Typed', Owned, Overlap = FALSE, [Next]_vars PROVE Owned'
<1>1. ASSUME NEW t \in Txn, Step(t) PROVE Owned'
  BY <1>1, MovePlayerOwned, ReadOwned, LeaveOwned, VacateOwned, WorldSteps, CommitOwned,
     ForgottenOwned DEF Step, Rollback
<1>2. ASSUME NEW t \in Txn, Fail(t) PROVE Owned'
  BY <1>2, ForgottenOwned DEF Fail, Rollback
<1>3. CASE UNCHANGED vars
  <2>1. RulerRules' /\ Held' /\ Alone'
    BY <1>3 DEF Owned, RulerRules, Ruler, Realm, Held, Alone, Active, vars
  <2>2. \A t \in Txn : Active(t)' => Mine(t, req[t])'
    BY <1>3 DEF Owned, Active, Mine, Selecting, Leaving, vars
  <2> QED
    BY <2>1, <2>2 DEF Owned
<1> QED
  BY <1>1, <1>2, <1>3, SelectOwned, AbandonOwned, EnsureOwned DEF Next

LEMMA OwnedInit == ASSUME Init PROVE Owned
<1>1. RulerRules
  BY Rows DEF Init, RulerRules, Realm, RealmOf, CountryRow, PlayerRow
<1>2. Held
  BY Rows DEF Init, Held
<1>3. \A t \in Txn : ~Active(t)
  BY DEF Init, Active, Idle
<1> QED
  BY <1>1, <1>2, <1>3 DEF Owned, Alone

(* The invariant is inductive: each request holds what it relies on.           *)
THEOREM InvariantHolds == ASSUME Overlap = FALSE PROVE Spec => []IInv
<1>1. Init => IInv
  BY TypedInit, OwnedInit DEF IInv
<1>2. IInv /\ [Next]_vars => IInv'
  BY TypedStep, OwnedStep DEF IInv
<1> QED
  BY <1>1, <1>2, PTL DEF Spec

(* When no player has two requests in flight, whoever plays a country is its   *)
(* ruler, so no two players ever play the same one.                            *)
THEOREM PlayersRule == ASSUME Overlap = FALSE PROVE Spec => []RulerRules
<1>1. IInv => RulerRules
  BY DEF IInv, Owned
<1> QED
  BY <1>1, InvariantHolds, PTL

(* ... and no country passes from one ruler to another without being vacated.  *)
THEOREM CountriesAreVacated == ASSUME Overlap = FALSE PROVE Spec => VacatedFirst
<1> DEFINE A == \A c \in Country : Ruler(c)' # Ruler(c) => Nobody \in {Ruler(c), Ruler(c)'}
<1>1. IInv /\ [Next]_vars => [A]_vars
  <2> SUFFICES ASSUME IInv, Next PROVE A
    BY DEF vars, Ruler
  <2>1. PICK t \in Txn : \/ Commit(t) \/ UNCHANGED store
    BY DEF Next, Step, EnsureWorlds, Select, Abandon, Fail, Rollback, ForgetWrites, MovePlayer,
       CountPlayer, FindSlug, WriteWorld, InsertSlug, InsertWorld, ReadCountry, LeaveCountry,
       VacateCountry, Write
  <2>2. CASE UNCHANGED store
    BY <2>2 DEF Ruler
  <2>3. CASE Commit(t)
    BY <2>3, CommitEffect DEF IInv
  <2> QED
    BY <2>1, <2>2, <2>3
<1> QED
  BY <1>1, InvariantHolds, PTL DEF Spec, VacatedFirst

-----------------------------------------------------------------------------
(***************************************************************************)
(* A world that is full is followed by another one, and was filled by as   *)
(* many selections as it has seats, whoever joins and however many         *)
(* requests a player has in flight.                                        *)
(***************************************************************************)
\* A world's row after n selections (and no more than its seats) of it committed.
Earned(x, n) ==
  /\ x.count <= n
  /\ x.count = Capacity => x.status = "full"
  /\ x.status = "full" => n = Capacity

OneMore(w) == IF joins[w] < Capacity THEN joins[w] + 1 ELSE joins[w]

\* What a request is going to write, and which world comes next.
Plan(t) ==
  Active(t) /\ req[t].player # Nobody /\ req[t].pc \in {"find", "world"} =>
    LET w == req[t].country[1] IN
    /\ req[t].change.count # 0 /\ req[t].change.count <= joins[w] + 1
    /\ req[t].change.count >= Capacity => req[t].change.fills
    /\ req[t].change.fills => /\ req[t].change.count >= Capacity
                              /\ AutoCreate => req[t].number = w + 1

\* A request that writes a world as full commits its successor with it, unless
\* somebody else has done so.
Pays(t, w) ==
  \/ store[SlugOf(w + 1)] # 0
  \/ req[t].pc = "slug" /\ req[t].number = w + 1
  \/ req[t].pc \in {"insert", "commit"} /\ holder[SlugOf(w + 1)] = t

\* What the holder of a world's row has written is right once it commits.
Settles(t, w) ==
  LET x == pending[WorldOf(w)] IN
  /\ Earned(x, joins[w]) \/ (Joins(t, w) /\ Earned(x, OneMore(w)))
  /\ x.status = "full" /\ AutoCreate => Pays(t, w)

Early(t) == ~Active(t) \/ req[t].pc \notin {"slug", "insert", "commit"}

CommittedAreEarned == \A w \in WorldId : Earned(store[WorldOf(w)], joins[w])
Followed ==
  \A w \in WorldId : store[WorldOf(w)].status = "full" /\ AutoCreate => store[SlugOf(w + 1)] # 0
PlansAreRight == \A t \in Txn : Plan(t)
NamesAreKept == \A n \in Number : holder[SlugOf(n)] # NoTxn => pending[SlugOf(n)] # 0
WrittenLate == \A t \in Txn, w \in WorldId : Early(t) => holder[WorldOf(w)] # t
HoldersSettle == \A t \in Txn, w \in WorldId : holder[WorldOf(w)] = t => Settles(t, w)

WorldInv ==
  /\ Typed
  /\ CommittedAreEarned
  /\ Followed
  /\ PlansAreRight
  /\ NamesAreKept
  /\ WrittenLate
  /\ HoldersSettle

LEMMA Successor == \A w \in WorldId : w + 1 \in Number
BY WorldsAssumption DEF WorldId, Number

\* Different names, different worlds and slugs.
LEMMA WorldsApart ==
  /\ \A v, w : WorldOf(v) = WorldOf(w) => v = w
  /\ \A m, n : SlugOf(m) = SlugOf(n) => m = n
  /\ \A w, n : WorldOf(w) # SlugOf(n)
BY DEF WorldOf, SlugOf

LEMMA CountsAreNumbers ==
  ASSUME Typed, NEW w \in WorldId
  PROVE  /\ joins[w] \in 0 .. Capacity /\ OneMore(w) \in joins[w] .. Capacity
         /\ store[WorldOf(w)] \in WorldUpTo(Capacity) /\ store[WorldOf(w)].count \in 0 .. Capacity
         /\ pending[WorldOf(w)] \in WorldUpTo(Capacity) /\ pending[WorldOf(w)].count \in 0 .. Capacity
<1>1. joins[w] \in 0 .. Capacity
  BY DEF Typed, TypeOK
<1>2. OneMore(w) \in joins[w] .. Capacity
  BY <1>1, CapacityAssumption DEF OneMore
<1>3. store[WorldOf(w)] \in WorldUpTo(Capacity) /\ pending[WorldOf(w)] \in WorldUpTo(Capacity)
  BY Rows DEF Typed, TypeOK
<1> QED
  BY <1>1, <1>2, <1>3 DEF WorldUpTo

\* What was earned stays earned when more join.
LEMMA EarnedGrows ==
  ASSUME NEW m \in 0 .. Capacity, NEW n \in m .. Capacity, NEW x \in WorldUpTo(Capacity),
         Earned(x, m)
  PROVE  Earned(x, n)
BY CapacityAssumption DEF Earned, WorldUpTo

\* A step of t that commits nothing; what it writes and plans is right.
LEMMA StepKeepsWorlds ==
  ASSUME WorldInv, Typed', NEW t \in Txn, UNCHANGED <<store, joins>>,
         \A u \in Txn \ {t} : req'[u] = req[u],
         \A s \in Row : holder'[s] # holder[s] \/ pending'[s] # pending[s] =>
            holder[s] \in {t, NoTxn} /\ holder'[s] = t,
         \A n \in Number :
            \/ holder'[SlugOf(n)] = holder[SlugOf(n)] /\ pending'[SlugOf(n)] = pending[SlugOf(n)]
            \/ pending'[SlugOf(n)] # 0,
         Plan(t)',
         \A w \in WorldId : holder'[WorldOf(w)] = t => ~Early(t)' /\ Settles(t, w)'
  PROVE  WorldInv'
<1>1. CommittedAreEarned' /\ Followed'
  BY DEF WorldInv, CommittedAreEarned, Followed, Earned
<1>2. PlansAreRight'
  <2>1. \A u \in Txn \ {t} : Plan(u)'
    BY DEF WorldInv, PlansAreRight, Plan, Active
  <2> QED
    BY <2>1 DEF PlansAreRight
<1>3. NamesAreKept'
  BY DEF WorldInv, NamesAreKept
<1>4. WrittenLate'
  <2>1. ASSUME NEW u \in Txn, u # t, NEW w \in WorldId, Early(u)' PROVE holder'[WorldOf(w)] # u
    <3>1. Early(u) /\ WorldOf(w) \in Row
      BY <2>1, Rows DEF Early, Active
    <3> QED
      BY <2>1, <3>1 DEF WorldInv, WrittenLate
  <2> QED
    BY <2>1 DEF WrittenLate
<1>5. ASSUME NEW u \in Txn, NEW w \in WorldId, holder'[WorldOf(w)] = u PROVE Settles(u, w)'
  <2>1. CASE u = t
    BY <1>5, <2>1
  <2>2. CASE u # t
    <3>1. WorldOf(w) \in Row /\ SlugOf(w + 1) \in Row /\ u # NoTxn
      BY Rows, Successor, TxnAssumption
    <3>2. holder[WorldOf(w)] = u /\ pending'[WorldOf(w)] = pending[WorldOf(w)]
      BY <1>5, <2>2, <3>1
    <3>3. Settles(u, w)
      BY <3>2 DEF WorldInv, HoldersSettle
    <3>4. Pays(u, w) => Pays(u, w)'
      BY <2>2, <3>1 DEF Pays
    <3>5. Joins(u, w) => Joins(u, w)'
      BY <2>2 DEF Joins
    <3>6. OneMore(w)' = OneMore(w)
      BY DEF OneMore
    <3> QED
      BY <3>2, <3>3, <3>4, <3>5, <3>6 DEF Settles, Earned
  <2> QED
    BY <2>1, <2>2
<1> QED
  BY <1>1, <1>2, <1>3, <1>4, <1>5 DEF WorldInv, HoldersSettle

\* A statement about players and countries, or a SELECT.
LEMMA ElsewhereKeepsWorlds ==
  ASSUME WorldInv, Typed', NEW t \in Txn, Early(t), UNCHANGED joins,
         \A u \in Txn \ {t} : req'[u] = req[u], Plan(t)',
         \/ UNCHANGED <<store, holder, pending>>
         \/ \E r, value : Write(t, r, value) /\ \A n : r # WorldOf(n) /\ r # SlugOf(n)
  PROVE  WorldInv'
<1>1. /\ UNCHANGED store
      /\ \A s \in Row : holder'[s] # holder[s] \/ pending'[s] # pending[s] =>
            holder[s] \in {t, NoTxn} /\ holder'[s] = t
      /\ \A s \in Row : (\E n : s = WorldOf(n) \/ s = SlugOf(n)) =>
            holder'[s] = holder[s] /\ pending'[s] = pending[s]
  BY WriteEffect DEF WorldInv
<1>2. \A w \in WorldId : holder'[WorldOf(w)] = holder[WorldOf(w)]
  BY <1>1, Rows
<1>3. \A n \in Number : holder'[SlugOf(n)] = holder[SlugOf(n)] /\ pending'[SlugOf(n)] = pending[SlugOf(n)]
  BY <1>1, Rows
<1>4. \A w \in WorldId : holder'[WorldOf(w)] # t
  BY <1>2 DEF WorldInv, WrittenLate
<1> QED
  BY <1>1, <1>3, <1>4, StepKeepsWorlds

\* The transaction ends; what it leaves committed is right.
LEMMA EndKeepsWorlds ==
  ASSUME WorldInv, Typed', NEW t \in Txn, Finish(t), Release(t),
         \A w \in WorldId : joins'[w] \in joins[w] .. Capacity,
         CommittedAreEarned', Followed',
         \A s \in Row : holder[s] # t => pending'[s] = pending[s],
         \A n \in Number : store'[SlugOf(n)] = store[SlugOf(n)] \/ store'[SlugOf(n)] # 0
  PROVE  WorldInv'
<1>1. /\ t # NoTxn /\ ~Active(t)' /\ \A u \in Txn \ {t} : req'[u] = req[u]
      /\ \A s \in Row : holder'[s] = IF holder[s] = t THEN NoTxn ELSE holder[s]
  BY TxnAssumption DEF Finish, Release, Active, Idle, WorldInv, Typed, TypeOK
<1>2. PlansAreRight'
  <2>1. ASSUME NEW u \in Txn \ {t} PROVE Plan(u)'
    <3> SUFFICES ASSUME Active(u), req[u].player # Nobody, req[u].pc \in {"find", "world"}
                 PROVE  req[u].change.count <= joins'[req[u].country[1]] + 1
      BY <1>1, <2>1 DEF WorldInv, PlansAreRight, Plan, Active
    <3>1. req[u] \in Request /\ req[u].country \in Country
      BY ActiveType DEF WorldInv, Shape
    <3>2. PICK w \in WorldId : w = req[u].country[1]
      BY <3>1 DEF Country
    <3>3. req[u].change.count \in Int /\ joins[w] \in Int /\ joins'[w] \in Int /\ joins[w] <= joins'[w]
      BY <3>1, CountsAreNumbers, CapacityAssumption DEF Request, WorldInv
    <3>4. req[u].change.count <= joins[w] + 1
      BY <3>2 DEF WorldInv, PlansAreRight, Plan
    <3> QED
      BY <3>2, <3>3, <3>4
  <2>2. Plan(t)'
    BY <1>1 DEF Plan
  <2> QED
    BY <2>1, <2>2 DEF PlansAreRight
<1>3. NamesAreKept'
  BY <1>1, Rows DEF WorldInv, NamesAreKept
<1>4. WrittenLate'
  <2>1. ASSUME NEW u \in Txn, NEW w \in WorldId, Early(u)' PROVE holder'[WorldOf(w)] # u
    <3>1. u # NoTxn /\ WorldOf(w) \in Row
      BY Rows, TxnAssumption
    <3>2. u # t => Early(u)
      BY <1>1, <2>1 DEF Early, Active
    <3> QED
      BY <1>1, <3>1, <3>2 DEF WorldInv, WrittenLate
  <2> QED
    BY <2>1 DEF WrittenLate
<1>5. ASSUME NEW u \in Txn, NEW w \in WorldId, holder'[WorldOf(w)] = u PROVE Settles(u, w)'
  <2>1. WorldOf(w) \in Row /\ SlugOf(w + 1) \in Row /\ u # NoTxn
    BY Rows, Successor, TxnAssumption
  <2>2. u # t /\ holder[WorldOf(w)] = u /\ pending'[WorldOf(w)] = pending[WorldOf(w)]
    BY <1>1, <1>5, <2>1
  <2>3. Settles(u, w)
    BY <2>2 DEF WorldInv, HoldersSettle
  <2>4. Pays(u, w) => Pays(u, w)'
    BY <1>1, <2>1, <2>2, Successor DEF Pays
  <2>5. Joins(u, w) => Joins(u, w)'
    BY <1>1, <2>2 DEF Joins
  <2>6. /\ Earned(pending[WorldOf(w)], joins[w]) => Earned(pending[WorldOf(w)], joins'[w])
        /\ Earned(pending[WorldOf(w)], OneMore(w)) => Earned(pending[WorldOf(w)], OneMore(w)')
    <3>1. /\ joins[w] \in 0 .. Capacity /\ OneMore(w) \in 0 .. Capacity
          /\ joins'[w] \in joins[w] .. Capacity /\ OneMore(w)' \in OneMore(w) .. Capacity
      BY CountsAreNumbers, CapacityAssumption DEF WorldInv, OneMore
    <3>2. pending[WorldOf(w)] \in WorldUpTo(Capacity)
      BY CountsAreNumbers DEF WorldInv
    <3> QED
      BY <3>1, <3>2, EarnedGrows
  <2> QED
    BY <2>2, <2>3, <2>4, <2>5, <2>6 DEF Settles, Earned
<1> QED
  BY <1>2, <1>3, <1>4, <1>5 DEF WorldInv, HoldersSettle

LEMMA ForgetKeepsWorlds ==
  ASSUME WorldInv, Typed', NEW t \in Txn, ForgetWrites(t), Finish(t), UNCHANGED joins
  PROVE  WorldInv'
<1>1. /\ UNCHANGED store /\ Release(t)
      /\ \A s \in Row : holder[s] # t => pending'[s] = pending[s]
  BY DEF ForgetWrites
<1>2. \A w \in WorldId : joins'[w] \in joins[w] .. Capacity
  BY CountsAreNumbers DEF WorldInv
<1>3. CommittedAreEarned' /\ Followed'
  BY <1>1 DEF WorldInv, CommittedAreEarned, Followed, Earned
<1> QED
  BY <1>1, <1>2, <1>3, EndKeepsWorlds

LEMMA CommitKeepsWorlds ==
  ASSUME WorldInv, Typed', NEW t \in Txn, Commit(t)
  PROVE  WorldInv'
<1>1. /\ UNCHANGED pending /\ Release(t) /\ Finish(t) /\ req[t].pc = "commit" /\ t # NoTxn
      /\ \A s \in Row : store'[s] = IF holder[s] = t THEN pending[s] ELSE store[s]
  BY TxnAssumption DEF Commit, CommitWrites, Seen
<1>2. ASSUME NEW n \in Number PROVE store'[SlugOf(n)] = store[SlugOf(n)] \/ store'[SlugOf(n)] # 0
  BY <1>1, Rows DEF WorldInv, NamesAreKept
<1>3. ASSUME NEW w \in WorldId
      PROVE  joins'[w] \in joins[w] .. Capacity /\ joins'[w] = IF Joins(t, w) THEN OneMore(w) ELSE joins[w]
  <2>1. joins'[w] = IF Joins(t, w) THEN OneMore(w) ELSE joins[w]
    BY DEF Commit, OneMore
  <2> QED
    BY <2>1, CountsAreNumbers, CapacityAssumption DEF WorldInv
<1>4. ASSUME NEW w \in WorldId PROVE Earned(store'[WorldOf(w)], joins'[w])
  <2>1. joins[w] \in 0 .. Capacity /\ store[WorldOf(w)] \in WorldUpTo(Capacity)
        /\ pending[WorldOf(w)] \in WorldUpTo(Capacity)
    BY CountsAreNumbers DEF WorldInv
  <2>2. CASE holder[WorldOf(w)] = t
    <3>1. Settles(t, w) /\ store'[WorldOf(w)] = pending[WorldOf(w)]
      BY <1>1, <2>2, Rows DEF WorldInv, HoldersSettle
    <3> QED
      BY <1>3, <2>1, <3>1, EarnedGrows DEF Settles
  <2>3. CASE holder[WorldOf(w)] # t
    <3>1. store'[WorldOf(w)] = store[WorldOf(w)] /\ Earned(store[WorldOf(w)], joins[w])
      BY <1>1, <2>3, Rows DEF WorldInv, CommittedAreEarned
    <3> QED
      BY <1>3, <2>1, <3>1, EarnedGrows
  <2> QED
    BY <2>2, <2>3
<1>5. ASSUME NEW w \in WorldId, store'[WorldOf(w)].status = "full", AutoCreate
      PROVE  store'[SlugOf(w + 1)] # 0
  <2>1. CASE holder[WorldOf(w)] = t
    <3>1. Pays(t, w)
      BY <1>1, <1>5, <2>1, Rows DEF WorldInv, HoldersSettle, Settles
    <3> QED
      BY <1>1, <1>2, <3>1, Rows, Successor DEF WorldInv, NamesAreKept, Pays
  <2>2. CASE holder[WorldOf(w)] # t
    BY <1>1, <1>2, <1>5, <2>2, Rows, Successor DEF WorldInv, Followed
  <2> QED
    BY <2>1, <2>2
<1>6. CommittedAreEarned' /\ Followed'
  BY <1>4, <1>5 DEF CommittedAreEarned, Followed
<1> QED
  BY <1>1, <1>2, <1>3, <1>6, EndKeepsWorlds

LEMMA CountPlan == ASSUME WorldInv, NEW t \in Txn, CountPlayer(t) PROVE Plan(t)'
<1>1. req[t] \in Request /\ req[t].country \in Country /\ Early(t)
  BY ActiveType DEF CountPlayer, Active, Shape, WorldInv, Early
<1>2. PICK w \in WorldId : w = req[t].country[1]
  BY <1>1 DEF Country
<1>3. Seen(t, WorldOf(w)) = store[WorldOf(w)]
  BY <1>1 DEF WorldInv, WrittenLate, Seen
<1>4. PICK n \in 0 .. Capacity : n = store[WorldOf(w)].count /\ n <= joins[w]
  BY CountsAreNumbers DEF WorldInv, CommittedAreEarned, Earned
<1>5. PICK pc, next, change :
        /\ change = [count |-> n + 1, fills |-> n + 1 >= Capacity]
        /\ next = IF n + 1 >= Capacity /\ AutoCreate THEN w + 1 ELSE 0
        /\ req' = [req EXCEPT ![t].pc = pc, ![t].change = change, ![t].number = next]
  BY <1>2, <1>3, <1>4 DEF CountPlayer, Joined, Fills
<1>6. /\ req'[t].change = change /\ req'[t].number = next
      /\ req'[t].country = req[t].country /\ UNCHANGED joins
  BY <1>1, <1>5 DEF WorldInv, Typed, TypeOK, Request, CountPlayer
<1>7. change.count = n + 1 /\ (change.fills <=> n + 1 >= Capacity)
  BY <1>5
<1>8. change.count # 0 /\ change.count <= joins[w] + 1
  BY <1>4, <1>7, CountsAreNumbers, CapacityAssumption DEF WorldInv
<1>9. change.fills /\ AutoCreate => next = w + 1
  BY <1>5, <1>7
<1> QED
  BY <1>2, <1>6, <1>7, <1>8, <1>9 DEF Plan

LEMMA GotoEffect ==
  ASSUME Typed, NEW t \in Txn, Active(t), NEW pc, Goto(t, pc)
  PROVE  /\ req'[t].pc = pc /\ req'[t].player = req[t].player /\ req'[t].country = req[t].country
         /\ req'[t].change = req[t].change /\ req'[t].number = req[t].number
         /\ \A u \in Txn \ {t} : req'[u] = req[u]
<1>1. req' = [req EXCEPT ![t] = [req[t] EXCEPT !.pc = pc]] /\ req[t] \in Request
  BY GotoRecord, ActiveType
<1>2. req'[t] = [req[t] EXCEPT !.pc = pc] /\ \A u \in Txn \ {t} : req'[u] = req[u]
  BY <1>1 DEF Typed, TypeOK
<1> QED
  BY <1>1, <1>2 DEF Request

LEMMA WriteWorldKeeps ==
  ASSUME WorldInv, Typed', NEW t \in Txn, WriteWorld(t)
  PROVE  WorldInv'
<1>1. CASE Rollback(t)
  BY <1>1, ForgetKeepsWorlds DEF Rollback
<1>2. CASE ~Rollback(t)
  <2>1. /\ Active(t) /\ req[t] \in Request /\ Shape(req[t]) /\ req[t].pc = "world" /\ Early(t)
    BY ActiveType DEF WriteWorld, Active, WorldInv, Early
  <2>2. req[t].player # Nobody /\ req[t].country \in Country
    BY <2>1 DEF Shape
  <2>3. PICK w \in WorldId : w = req[t].country[1]
    BY <2>2 DEF Country
  <2>4. PICK x : x = Changed(store[WorldOf(w)], req[t].change)
    OBVIOUS
  <2>5. Seen(t, WorldOf(w)) = store[WorldOf(w)]
    BY <2>1 DEF WorldInv, WrittenLate, Seen
  <2>6. /\ req[t].change.count <= Capacity /\ Write(t, WorldOf(w), x)
        /\ Goto(t, IF req[t].number = 0 THEN "commit" ELSE "slug") /\ UNCHANGED joins
    BY <1>2, <2>3, <2>4, <2>5 DEF WriteWorld, Fits, CreateNext
  <2>7. /\ req[t].change.count # 0 /\ req[t].change.count <= joins[w] + 1
        /\ req[t].change.count >= Capacity => req[t].change.fills
        /\ req[t].change.fills => req[t].change.count >= Capacity
        /\ req[t].change.fills /\ AutoCreate => req[t].number = w + 1
    BY <2>1, <2>2, <2>3 DEF WorldInv, PlansAreRight, Plan
  <2>8. /\ req'[t].pc = (IF req[t].number = 0 THEN "commit" ELSE "slug")
        /\ req'[t].number = req[t].number /\ req'[t].country = req[t].country
        /\ req'[t].change = req[t].change /\ \A u \in Txn \ {t} : req'[u] = req[u]
    BY <2>1, <2>6, GotoEffect DEF WorldInv
  <2>9. /\ UNCHANGED store
        /\ holder'[WorldOf(w)] = t /\ pending'[WorldOf(w)] = x
        /\ \A s \in Row : s # WorldOf(w) => holder'[s] = holder[s] /\ pending'[s] = pending[s]
        /\ \A s \in Row : holder'[s] # holder[s] \/ pending'[s] # pending[s] =>
              holder[s] \in {t, NoTxn} /\ holder'[s] = t
    BY <2>6, Rows, WriteEffect DEF WorldInv
  <2>10. \A n \in Number : holder'[SlugOf(n)] = holder[SlugOf(n)] /\ pending'[SlugOf(n)] = pending[SlugOf(n)]
    BY <2>9, Rows, WorldsApart
  <2>11. Plan(t)' /\ ~Early(t)'
    BY <2>8 DEF Plan, Early, Active
  <2>12. Settles(t, w)'
    <3>1. x.count = req[t].change.count
          /\ x.status = IF req[t].change.fills THEN "full" ELSE store[WorldOf(w)].status
      BY <2>4 DEF Changed
    <3>2. /\ req[t].change.count \in Nat /\ joins[w] \in 0 .. Capacity
          /\ Earned(store[WorldOf(w)], joins[w])
      BY <2>1, CountsAreNumbers DEF WorldInv, CommittedAreEarned, Request
    <3>3. x.count <= OneMore(w) /\ (x.count = Capacity => x.status = "full")
      BY <2>6, <2>7, <3>1, <3>2, CapacityAssumption DEF OneMore
    <3>4. x.status = "full" => OneMore(w) = Capacity
      BY <2>7, <3>1, <3>2, CapacityAssumption DEF OneMore, Earned
    <3>5. Joins(t, w)'
      BY <2>3, <2>7, <2>8 DEF Joins, NoChange
    <3>6. x.status = "full" /\ AutoCreate => Pays(t, w)'
      <4>1. CASE req[t].change.fills
        BY <2>3, <2>7, <2>8, <4>1 DEF Pays, WorldId
      <4>2. CASE ~req[t].change.fills
        BY <2>9, <3>1, <4>2 DEF Pays, WorldInv, Followed
      <4> QED
        BY <4>1, <4>2
    <3>7. OneMore(w)' = OneMore(w)
      BY <2>6 DEF OneMore
    <3> QED
      BY <2>9, <3>3, <3>4, <3>5, <3>6, <3>7 DEF Settles, Earned
  <2>13. ASSUME NEW v \in WorldId, holder'[WorldOf(v)] = t PROVE v = w
    BY <2>1, <2>9, <2>13, Rows, WorldsApart DEF WorldInv, WrittenLate
  <2> QED
    BY <2>6, <2>8, <2>9, <2>10, <2>11, <2>12, <2>13, StepKeepsWorlds
<1> QED
  BY <1>1, <1>2

LEMMA InsertSlugKeeps ==
  ASSUME WorldInv, Typed', NEW t \in Txn, InsertSlug(t)
  PROVE  WorldInv'
<1>1. CASE ForgetWrites(t) /\ Finish(t)
  BY <1>1, ForgetKeepsWorlds DEF InsertSlug
<1>2. CASE Write(t, SlugOf(req[t].number), nextWorld) /\ Goto(t, "insert")
  <2>1. Active(t) /\ Shape(req[t]) /\ req[t].pc = "slug" /\ UNCHANGED joins
    BY ActiveType DEF InsertSlug, Active, WorldInv
  <2>2. PICK n \in Number : n = req[t].number
    BY <2>1 DEF Shape
  <2>3. /\ req'[t].pc = "insert" /\ \A u \in Txn \ {t} : req'[u] = req[u]
        /\ req'[t].country = req[t].country /\ req'[t].change = req[t].change
    BY <1>2, <2>1, GotoEffect DEF WorldInv
  <2>4. /\ UNCHANGED store /\ holder'[SlugOf(n)] = t /\ pending'[SlugOf(n)] # 0
        /\ \A s \in Row : s # SlugOf(n) => holder'[s] = holder[s] /\ pending'[s] = pending[s]
        /\ \A s \in Row : holder'[s] # holder[s] \/ pending'[s] # pending[s] =>
              holder[s] \in {t, NoTxn} /\ holder'[s] = t
    <3>1. nextWorld # 0
      BY DEF WorldInv, Typed, TypeOK
    <3> QED
      BY <1>2, <2>2, <3>1, Rows, WriteEffect DEF WorldInv
  <2>5. \A m \in Number : \/ holder'[SlugOf(m)] = holder[SlugOf(m)] /\ pending'[SlugOf(m)] = pending[SlugOf(m)]
                          \/ pending'[SlugOf(m)] # 0
    BY <2>4, Rows
  <2>6. Plan(t)' /\ ~Early(t)'
    BY <2>3 DEF Plan, Early, Active
  <2>7. ASSUME NEW w \in WorldId, holder'[WorldOf(w)] = t PROVE Settles(t, w)'
    <3>1. holder[WorldOf(w)] = t /\ pending'[WorldOf(w)] = pending[WorldOf(w)]
      BY <2>4, <2>7, Rows, WorldsApart
    <3>2. Settles(t, w)
      BY <3>1 DEF WorldInv, HoldersSettle
    <3>3. Pays(t, w) => Pays(t, w)'
      BY <2>1, <2>2, <2>3, <2>4 DEF Pays
    <3>4. Joins(t, w)' = Joins(t, w) /\ OneMore(w)' = OneMore(w)
      BY <2>1, <2>3 DEF Joins, OneMore
    <3> QED
      BY <2>1, <3>1, <3>2, <3>3, <3>4 DEF Settles, Earned
  <2> QED
    BY <2>1, <2>3, <2>4, <2>5, <2>6, <2>7, StepKeepsWorlds
<1> QED
  BY <1>1, <1>2 DEF InsertSlug

LEMMA InsertWorldKeeps ==
  ASSUME WorldInv, Typed', NEW t \in Txn, InsertWorld(t)
  PROVE  WorldInv'
<1> DEFINE new == [status |-> "open", count |-> 0]
<1>1. Active(t) /\ req[t].pc = "insert" /\ UNCHANGED joins
  BY DEF InsertWorld, Active
<1>2. PICK id : Write(t, WorldOf(id), new) /\ Goto(t, "commit")
  BY DEF InsertWorld
<1>3. /\ req'[t].pc = "commit" /\ \A u \in Txn \ {t} : req'[u] = req[u]
      /\ req'[t].country = req[t].country /\ req'[t].change = req[t].change
  BY <1>1, <1>2, GotoEffect DEF WorldInv
<1>4. new.status = "open" /\ new.count = 0
  OBVIOUS
<1> HIDE DEF new
<1>5. /\ UNCHANGED store
      /\ WorldOf(id) \in Row => pending'[WorldOf(id)] = new
      /\ \A s \in Row : s # WorldOf(id) => holder'[s] = holder[s] /\ pending'[s] = pending[s]
      /\ \A s \in Row : holder'[s] # holder[s] \/ pending'[s] # pending[s] =>
            holder[s] \in {t, NoTxn} /\ holder'[s] = t
  BY <1>2, WriteEffect DEF WorldInv
<1>6. \A n \in Number : holder'[SlugOf(n)] = holder[SlugOf(n)] /\ pending'[SlugOf(n)] = pending[SlugOf(n)]
  BY <1>5, Rows, WorldsApart
<1>7. Plan(t)' /\ ~Early(t)'
  BY <1>3 DEF Plan, Early, Active
<1>8. ASSUME NEW w \in WorldId, holder'[WorldOf(w)] = t PROVE Settles(t, w)'
  <2>1. CASE pending'[WorldOf(w)] = new
    <3>1. joins'[w] \in 0 .. Capacity
      BY <1>1, CountsAreNumbers DEF WorldInv
    <3>2. Earned(new, joins'[w])
      BY <1>4, <3>1, CapacityAssumption DEF Earned
    <3> QED
      BY <1>4, <2>1, <3>2 DEF Settles
  <2>2. CASE pending'[WorldOf(w)] # new
    <3>1. holder[WorldOf(w)] = t /\ pending'[WorldOf(w)] = pending[WorldOf(w)]
      BY <1>5, <1>8, <2>2, Rows
    <3>2. Settles(t, w)
      BY <3>1 DEF WorldInv, HoldersSettle
    <3>3. Pays(t, w) => Pays(t, w)'
      BY <1>1, <1>3, <1>5, <1>6, Successor DEF Pays
    <3>4. Joins(t, w)' = Joins(t, w) /\ OneMore(w)' = OneMore(w)
      BY <1>1, <1>3 DEF Joins, OneMore
    <3> QED
      BY <1>1, <3>1, <3>2, <3>3, <3>4 DEF Settles, Earned
  <2> QED
    BY <2>1, <2>2
<1> QED
  BY <1>1, <1>3, <1>5, <1>6, <1>7, <1>8, StepKeepsWorlds

LEMMA FindSlugKeeps ==
  ASSUME WorldInv, Typed', NEW t \in Txn, FindSlug(t)
  PROVE  WorldInv'
<1>1. CASE Rollback(t)
  BY <1>1, ForgetKeepsWorlds DEF Rollback
<1>2. CASE ~Rollback(t)
  <2>1. Active(t) /\ req[t].pc = "find" /\ Early(t)
    BY DEF FindSlug, Active, Early
  <2>2. PICK pc \in {"slug", "world"} : Goto(t, pc) /\ UNCHANGED <<store, holder, pending, joins>>
    BY <1>2 DEF FindSlug
  <2>3. Plan(t)' /\ \A u \in Txn \ {t} : req'[u] = req[u]
    <3>1. Plan(t)
      BY DEF WorldInv, PlansAreRight
    <3> QED
      BY <2>1, <2>2, <3>1, GotoEffect DEF WorldInv, Plan
  <2> QED
    BY <2>1, <2>2, <2>3, ElsewhereKeepsWorlds
<1> QED
  BY <1>1, <1>2

\* The statements about players and countries.
LEMMA MoveKeepsWorlds ==
  ASSUME WorldInv, Typed', NEW t \in Txn, MovePlayer(t) \/ LeaveCountry(t) \/ VacateCountry(t)
  PROVE  WorldInv'
<1>1. Active(t) /\ req[t].pc \in {"move", "leave", "vacate"} /\ Early(t) /\ UNCHANGED joins
  BY DEF MovePlayer, LeaveCountry, VacateCountry, Active, Early
<1>2. PICK pc \in {"count", "vacate", "commit"} : Goto(t, pc)
  BY DEF MovePlayer, LeaveCountry, VacateCountry
<1>3. req'[t].pc = pc /\ \A u \in Txn \ {t} : req'[u] = req[u]
  BY <1>1, <1>2, GotoEffect DEF WorldInv
<1>4. Plan(t)'
  BY <1>3 DEF Plan
<1>5. \/ UNCHANGED <<store, holder, pending>>
      \/ \E r, value : Write(t, r, value) /\ \A n : r # WorldOf(n) /\ r # SlugOf(n)
  BY RowsApart DEF MovePlayer, LeaveCountry, VacateCountry
<1> QED
  BY <1>1, <1>3, <1>4, <1>5, ElsewhereKeepsWorlds

\* A request starts, or reads.
LEMMA StartKeepsWorlds ==
  ASSUME WorldInv, Typed', NEW t \in Txn,
         EnsureWorlds(t) \/ (\E p \in Player, c \in Country : Select(t, p, c))
           \/ (\E p \in Player : Abandon(t, p)) \/ ReadCountry(t) \/ CountPlayer(t)
  PROVE  WorldInv'
<1>1. Early(t) /\ UNCHANGED joins
  BY DEF EnsureWorlds, Select, Abandon, ReadCountry, CountPlayer, Early
<1>2. \A u \in Txn \ {t} : req'[u] = req[u]
  BY DEF EnsureWorlds, Select, Abandon, ReadCountry, CountPlayer, WorldInv, Typed, TypeOK
<1>3. \/ UNCHANGED <<store, holder, pending>>
      \/ \E r, value : Write(t, r, value) /\ \A n : r # WorldOf(n) /\ r # SlugOf(n)
  BY RowsApart DEF EnsureWorlds, Select, Abandon, ReadCountry, CountPlayer
<1>4. Plan(t)'
  <2>1. CASE EnsureWorlds(t)
    BY <2>1 DEF EnsureWorlds, Plan, WorldInv, Typed, TypeOK
  <2>2. CASE \E p \in Player, c \in Country : Select(t, p, c)
    BY <2>2 DEF Select, Plan, WorldInv, Typed, TypeOK
  <2>3. CASE \E p \in Player : Abandon(t, p)
    BY <2>3 DEF Abandon, Plan, WorldInv, Typed, TypeOK
  <2>4. CASE ReadCountry(t)
    <3>1. Active(t) /\ req[t] \in Request
      BY <2>4, ActiveType DEF ReadCountry, Active, WorldInv
    <3>2. req'[t].pc = "leave"
      BY <2>4, <3>1 DEF ReadCountry, WorldInv, Typed, TypeOK, Request
    <3> QED
      BY <3>2 DEF Plan
  <2> QED
    BY <2>1, <2>2, <2>3, <2>4, CountPlan
<1> QED
  BY <1>1, <1>2, <1>3, <1>4, ElsewhereKeepsWorlds

LEMMA WorldStep == ASSUME WorldInv, [Next]_vars PROVE WorldInv'
<1>1. Typed'
  BY TypedStep DEF WorldInv
<1>2. CASE UNCHANGED vars
  <2>1. CommittedAreEarned' /\ Followed' /\ NamesAreKept'
    BY <1>2 DEF vars, WorldInv, CommittedAreEarned, Earned, Followed, NamesAreKept
  <2>2. PlansAreRight' /\ WrittenLate'
    BY <1>2 DEF vars, WorldInv, PlansAreRight, Plan, Active, WrittenLate, Early
  <2>3. HoldersSettle'
    BY <1>2 DEF vars, WorldInv, HoldersSettle, Settles, Earned, OneMore, Joins, Pays
  <2> QED
    BY <1>1, <2>1, <2>2, <2>3 DEF WorldInv
<1>3. ASSUME NEW t \in Txn, Fail(t) PROVE WorldInv'
  BY <1>1, <1>3, ForgetKeepsWorlds DEF Fail, Rollback
<1>4. ASSUME NEW t \in Txn, Step(t) PROVE WorldInv'
  BY <1>1, <1>4, MoveKeepsWorlds, StartKeepsWorlds, FindSlugKeeps, WriteWorldKeeps, InsertSlugKeeps,
     InsertWorldKeeps, CommitKeepsWorlds DEF Step
<1> QED
  BY <1>1, <1>2, <1>3, <1>4, StartKeepsWorlds DEF Next

(* A committed world never counts more players than were committed, is full    *)
(* once its count is its capacity and only after as many selections, and the   *)
(* next one is there by then: for any number of players, worlds and requests,  *)
(* also of one player at once.  (increment_player_count, create_world)         *)
THEOREM FullWorldsAreFollowed == Spec => []FullHasSuccessor
<1>1. Init => WorldInv
  <2> SUFFICES ASSUME Init PROVE WorldInv
    OBVIOUS
  <2>1. \A w \in WorldId : store[WorldOf(w)] = NoWorld /\ joins[w] = 0
    BY Rows DEF Init, WorldOf, CountryRow, PlayerRow, WorldRow
  <2>2. NoWorld.status = "absent" /\ NoWorld.count = 0 /\ NoWorld.count # Capacity
    BY CapacityAssumption DEF NoWorld
  <2>3. CommittedAreEarned /\ Followed
    BY <2>1, <2>2 DEF CommittedAreEarned, Earned, Followed
  <2>4. PlansAreRight
    BY DEF Init, PlansAreRight, Plan, Active, Idle
  <2>5. NamesAreKept /\ WrittenLate /\ HoldersSettle
    BY Rows, TxnAssumption DEF Init, NamesAreKept, WrittenLate, HoldersSettle
  <2> QED
    BY <2>3, <2>4, <2>5, TypedInit DEF WorldInv
<1>2. WorldInv => FullHasSuccessor
  BY DEF WorldInv, CommittedAreEarned, Earned, Followed, FullHasSuccessor
<1> QED
  BY <1>1, <1>2, WorldStep, PTL DEF Spec
=============================================================================
