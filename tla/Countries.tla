------------------------------ MODULE Countries -----------------------------
(***************************************************************************)
(* CountryService and WorldService: players take and abandon the countries *)
(* of worlds of limited capacity; a world that fills is followed by a new  *)
(* one.  A request is a transaction (Session), every SELECT and UPDATE a   *)
(* step.                                                                   *)
(*                                                                         *)
(* What a selection seeds (resources, buildings, technologies, missions)   *)
(* is left out: no row of it decides who rules what.                       *)
(***************************************************************************)
EXTENDS Integers, FiniteSets

CONSTANTS
  Player,
  Code,         \* the country templates of the game data
  Capacity,     \* WORLD_PLAYER_CAPACITY
  AutoCreate,   \* WORLD_AUTO_CREATE
  MaxWorlds,    \* bound on the identifiers of worlds
  Txn,          \* the requests in flight
  NoTxn,        \* the holder of a free row
  Nobody,       \* the player_id of a free country
  Overlap       \* may two requests of one player be in flight at once?

ASSUME CapacityAssumption == Capacity \in Nat \ {0}
ASSUME WorldsAssumption == MaxWorlds \in Nat \ {0} /\ AutoCreate \in BOOLEAN
ASSUME TxnAssumption == NoTxn \notin Txn /\ Nobody \notin Player
ASSUME OverlapAssumption == Overlap \in BOOLEAN

VARIABLES
  store,      \* committed rows: countries, players, worlds and their slugs
  holder,     \* the transaction holding a row's lock, or NoTxn
  pending,    \* the uncommitted version of a held row
  nextWorld,  \* the identifier of the next world (a sequence: never rolled back)
  req,        \* the local state of each request
  joins       \* history: the selections committed in each world, up to Capacity

vars == <<store, holder, pending, nextWorld, req, joins>>

WorldId == 1 .. MaxWorlds
Country == WorldId \X Code
Number == 1 .. MaxWorlds + 1    \* the n of a world named "World n"

CountryRow == {"country"} \X Country
PlayerRow == {"player"} \X Player
WorldRow == {"world"} \X WorldId
SlugRow == {"slug"} \X Number
Row == CountryRow \cup PlayerRow \cup WorldRow \cup SlugRow

INSTANCE Session

RulerOf(c) == <<"country", c>>     \* countries.player_id: a player or Nobody
RealmOf(p) == <<"player", p>>      \* players.country_id: a country or NoCountry
WorldOf(w) == <<"world", w>>       \* worlds: its status and player_count, or NoWorld
SlugOf(n) == <<"slug", n>>         \* the unique index: a world's id, or 0

NoCountry == <<>>
NoWorld == [status |-> "absent", count |-> 0]
WorldUpTo(count) == [status : {"open", "full", "absent"}, count : 0 .. count]

\* What the flush will write of a world: the count, and the status if it is set.
NoChange == [count |-> 0, fills |-> FALSE]

Idle == [pc |-> "idle"]
Active(t) == req[t].pc # "idle"
Goto(t, pc) == req' = [req EXCEPT ![t].pc = pc]
Finish(t) == req' = [req EXCEPT ![t] = Idle]

\* The transaction has counted a player who joins w.
Joins(t, w) == req[t].change # NoChange /\ req[t].country[1] = w

Commit(t) ==
  /\ req[t].pc = "commit"
  /\ CommitWrites(t)
  /\ Finish(t)
  /\ joins' = [w \in WorldId |->
                 IF Joins(t, w) /\ joins[w] < Capacity THEN joins[w] + 1 ELSE joins[w]]
  /\ UNCHANGED nextWorld

\* An exception in the service, a lost connection, or PostgreSQL aborts the
\* transaction to break a cycle of waits.
Rollback(t) == ForgetWrites(t) /\ Finish(t) /\ UNCHANGED <<nextWorld, joins>>
Fail(t) == Active(t) /\ Rollback(t)

MayStart(p) == Overlap \/ \A t \in Txn : Active(t) => req[t].player # p

-----------------------------------------------------------------------------
(***************************************************************************)
(* select_country: SELECT ... FOR UPDATE of a country without a ruler (it  *)
(* waits for the row's holder and looks again), then the new ruler.  The   *)
(* player's present country is not looked at, nor is the world's status.   *)
(***************************************************************************)
\* mutant: no player_id IS NULL
AnyRuler(c) == TRUE
Free(c) == store[RulerOf(c)] = Nobody

Select(t, p, c) ==
  /\ ~Active(t) /\ MayStart(p)
  /\ store[WorldOf(c[1])] # NoWorld
  /\ Free(c)
  /\ Write(t, RulerOf(c), p)
  /\ req' = [req EXCEPT ![t] =
       [pc |-> "move", player |-> p, country |-> c, seen |-> Nobody,
        change |-> NoChange, number |-> 0]]
  /\ UNCHANGED <<nextWorld, joins>>

\* UPDATE players: the world and the country of the player.
MovePlayer(t) ==
  /\ req[t].pc = "move"
  /\ Write(t, RealmOf(req[t].player), req[t].country)
  /\ Goto(t, "count")
  /\ UNCHANGED <<nextWorld, joins>>

(***************************************************************************)
(* increment_player_count: the world is read; its count will be written as *)
(* one more than the one read, its status only when this fills the world,  *)
(* which is followed by "World <id + 1>" then.                             *)
(***************************************************************************)
Joined(count) == count + 1

Fills(count) == count >= Capacity

CountPlayer(t) ==
  LET w == req[t].country[1]
      count == Joined(Seen(t, WorldOf(w)).count)
      next == IF Fills(count) /\ AutoCreate THEN w + 1 ELSE 0
  IN
  /\ req[t].pc = "count"
  /\ req' = [req EXCEPT ![t].pc = IF next = 0 THEN "world" ELSE "find",
       ![t].change = [count |-> count, fills |-> Fills(count)],
       ![t].number = next]
  /\ UNCHANGED <<store, holder, pending, nextWorld, joins>>

\* create_world: get_by_slug; a world of that name is a ConflictError.
FindSlug(t) ==
  /\ req[t].pc = "find"
  /\ IF Seen(t, SlugOf(req[t].number)) = 0
     THEN /\ Goto(t, IF req[t].country = NoCountry THEN "slug" ELSE "world")
          /\ UNCHANGED <<store, holder, pending, nextWorld, joins>>
     ELSE Rollback(t)

\* mutant: the next world is left to the next start
NothingNext(t) == Goto(t, "commit")
CreateNext(t) == Goto(t, IF req[t].number = 0 THEN "commit" ELSE "slug")

Fits(change) == change.count <= Capacity

\* The UPDATE names the columns that changed in the session, and finds the others
\* as they are when it runs.  (A status that was read as full is not written
\* again, which comes to the same: no request takes it back.)
Changed(world, change) ==
  [count |-> change.count, status |-> IF change.fills THEN "full" ELSE world.status]

\* The flush emits the UPDATE of the world before the INSERT of the next one;
\* the table checks that player_count <= player_capacity.
WriteWorld(t) ==
  LET row == WorldOf(req[t].country[1]) IN
  /\ req[t].pc = "world"
  /\ IF Fits(req[t].change)
     THEN /\ Write(t, row, Changed(Seen(t, row), req[t].change))
          /\ CreateNext(t)
          /\ UNCHANGED <<nextWorld, joins>>
     ELSE Rollback(t)

\* The INSERT of a world takes the next identifier, then enters its slug in the
\* unique index (it waits for the holder of an equal one), then the row.  An
\* INSERT beyond the bound on identifiers fails.
InsertSlug(t) ==
  LET slug == SlugOf(req[t].number) IN
  /\ req[t].pc = "slug"
  /\ holder[slug] = NoTxn
  /\ IF store[slug] = 0 /\ nextWorld <= MaxWorlds
     THEN Write(t, slug, nextWorld) /\ Goto(t, "insert")
     ELSE ForgetWrites(t) /\ Finish(t)
  /\ nextWorld' = IF nextWorld <= MaxWorlds THEN nextWorld + 1 ELSE nextWorld
  /\ UNCHANGED joins

InsertWorld(t) ==
  /\ req[t].pc = "insert"
  /\ Write(t, WorldOf(pending[SlugOf(req[t].number)]), [status |-> "open", count |-> 0])
  /\ Goto(t, "commit")
  /\ UNCHANGED <<nextWorld, joins>>

\* ensure_worlds, at startup: "World 1" when no world is open.
EnsureWorlds(t) ==
  /\ ~Active(t)
  /\ \A w \in WorldId : store[WorldOf(w)].status # "open"
  /\ req' = [req EXCEPT ![t] =
       [pc |-> "find", player |-> Nobody, country |-> NoCountry, seen |-> Nobody,
        change |-> NoChange, number |-> 1]]
  /\ UNCHANGED <<store, holder, pending, nextWorld, joins>>

-----------------------------------------------------------------------------
(***************************************************************************)
(* abandon_country: the player is read, then the country; both are written *)
(* from those copies.  The world keeps its player_count.                   *)
(***************************************************************************)
Abandon(t, p) ==
  /\ ~Active(t) /\ MayStart(p)
  /\ store[RealmOf(p)] # NoCountry
  /\ req' = [req EXCEPT ![t] =
       [pc |-> "read", player |-> p, country |-> store[RealmOf(p)], seen |-> Nobody,
        change |-> NoChange, number |-> 0]]
  /\ UNCHANGED <<store, holder, pending, nextWorld, joins>>

ReadCountry(t) ==
  /\ req[t].pc = "read"
  /\ req' = [req EXCEPT ![t].pc = "leave",
                        ![t].seen = Seen(t, RulerOf(req[t].country))]
  /\ UNCHANGED <<store, holder, pending, nextWorld, joins>>

\* UPDATE players first: the country's change waits for the flush.
LeaveCountry(t) ==
  /\ req[t].pc = "leave"
  /\ Write(t, RealmOf(req[t].player), NoCountry)
  /\ Goto(t, "vacate")
  /\ UNCHANGED <<nextWorld, joins>>

\* The flush writes the country only when the loaded player_id was not NULL.
VacateCountry(t) ==
  /\ req[t].pc = "vacate"
  /\ IF req[t].seen # Nobody
     THEN Write(t, RulerOf(req[t].country), Nobody)
     ELSE UNCHANGED <<store, holder, pending>>
  /\ Goto(t, "commit")
  /\ UNCHANGED <<nextWorld, joins>>

-----------------------------------------------------------------------------
Init ==
  /\ store = [r \in Row |-> IF r \in CountryRow THEN Nobody
                            ELSE IF r \in PlayerRow THEN NoCountry
                            ELSE IF r \in WorldRow THEN NoWorld ELSE 0]
  /\ holder = [r \in Row |-> NoTxn]
  /\ pending = store
  /\ nextWorld = 1
  /\ req = [t \in Txn |-> Idle]
  /\ joins = [w \in WorldId |-> 0]

Step(t) ==
  \/ MovePlayer(t) \/ CountPlayer(t) \/ FindSlug(t) \/ WriteWorld(t)
  \/ InsertSlug(t) \/ InsertWorld(t)
  \/ ReadCountry(t) \/ LeaveCountry(t) \/ VacateCountry(t)
  \/ Commit(t)

Next ==
  \E t \in Txn :
    \/ EnsureWorlds(t)
    \/ \E p \in Player, c \in Country : Select(t, p, c)
    \/ \E p \in Player : Abandon(t, p)
    \/ Step(t)
    \/ Fail(t)

Spec == Init /\ [][Next]_vars

-----------------------------------------------------------------------------
(* Properties. *)

Request ==
  [pc : {"move", "count", "find", "world", "slug", "insert",
         "read", "leave", "vacate", "commit"},
   player : Player \cup {Nobody}, country : Country \cup {NoCountry},
   seen : Player \cup {Nobody},
   change : [count : 0 .. Capacity + 1, fills : BOOLEAN], number : Number \cup {0}]

RowType(r) ==
  IF r \in CountryRow THEN Player \cup {Nobody}
  ELSE IF r \in PlayerRow THEN Country \cup {NoCountry}
  ELSE IF r \in WorldRow THEN WorldUpTo(Capacity) ELSE WorldId \cup {0}

TypeOK ==
  /\ store = [r \in Row |-> store[r]] /\ pending = [r \in Row |-> pending[r]]
  /\ \A r \in Row : store[r] \in RowType(r) /\ pending[r] \in RowType(r)
  /\ holder \in [Row -> Txn \cup {NoTxn}]
  /\ nextWorld \in 1 .. MaxWorlds + 1
  /\ req \in [Txn -> Request \cup {Idle}]
  /\ joins \in [WorldId -> 0 .. Capacity]

Realm(p) == store[RealmOf(p)]
Ruler(c) == store[RulerOf(c)]

(* Whoever plays a country is its ruler, when no player has two requests in    *)
(* flight: two players never play the same country, whatever the interleaving  *)
(* of their requests, rollbacks included.  (select_country, abandon_country)   *)
RulerRules == \A p \in Player : Realm(p) # NoCountry => Ruler(Realm(p)) = p

(* No country passes from one ruler to another: it is vacated in between.      *)
VacatedFirst ==
  [][\A c \in Country : Ruler(c)' # Ruler(c) => Nobody \in {Ruler(c), Ruler(c)'}]_vars

(* Players who join a world together may leave its count behind their number,  *)
(* under a status of full even; but it never counts more than were committed,  *)
(* it is never closed before all its seats were taken, it is closed when the   *)
(* count says so, and once it is, the next world is there.                     *)
(* (increment_player_count, create_world; docs/GDD.md section 3)               *)
FullHasSuccessor ==
  \A w \in WorldId :
    LET world == store[WorldOf(w)] IN
    /\ world.count <= joins[w]
    /\ world.count = Capacity => world.status = "full"
    /\ world.status = "full" => joins[w] = Capacity
    /\ world.status = "full" /\ AutoCreate => store[SlugOf(w + 1)] # 0
=============================================================================
