------------------------------ MODULE Alliances -----------------------------
(***************************************************************************)
(* AllianceService and DiplomacyService: a country founds, joins or leaves *)
(* an alliance, and sets its relation to another country.  Each request is *)
(* a transaction that looks first and writes later; between the two other  *)
(* requests may commit.  What a request has written is its last act before *)
(* the commit, so the write, the tests that the indexes make of it and the *)
(* commit are one step; a refused request, and an invitation, which only   *)
(* publishes an event, change nothing and are left out.                    *)
(***************************************************************************)
EXTENDS Integers, FiniteSets, Sequences

CONSTANTS
  Country,      \* countries, which are numbers: their ids
  WorldOf,      \* the world of a country
  Txn,          \* the requests in flight
  Relation,     \* DiplomaticStatus
  MaxAlliances  \* bound on the alliances founded

VARIABLES
  founded,    \* the rows of alliances: the alliance's founder, its leader_id
  member,     \* the rows of alliance_members
  relation,   \* the rows of diplomacies
  office,     \* the local state of each request
  hasty       \* history: countries that had two requests for a membership in flight

vars == <<founded, member, relation, office, hasty>>

Idle == [pc |-> "idle"]
Active(t) == office[t] # Idle
Ends(t) == office' = [office EXCEPT ![t] = Idle]
Alliance == DOMAIN founded
Role == {"leader", "officer", "member"}    \* officer is never assigned
Of(c) == {m \in member : m.country = c}
Row(a, c, role) == [alliance |-> a, country |-> c, role |-> role]

Init ==
  /\ founded = <<>> /\ member = {} /\ relation = {}
  /\ office = [t \in Txn |-> Idle]
  /\ hasty = {}

\* Membership requests of c: founding and joining look for a row of c first.
Looks(t, c, request) ==
  /\ ~Active(t)
  /\ office' = [office EXCEPT ![t] = request]
  /\ hasty' = IF \E u \in Txn : office[u].pc \notin {"idle", "relate"} /\ office[u].country = c
              THEN hasty \cup {c} ELSE hasty
  /\ UNCHANGED <<founded, member, relation>>

Welcome(c) == TRUE                \* mutant: nobody asks whether the country is a member
Free(c) == Of(c) = {}

\* Bound: every foundation in flight finds room.
Room == Len(founded) + Cardinality({t \in Txn : office[t].pc = "found"}) < MaxAlliances

Create(t, c) == Room /\ Free(c) /\ Looks(t, c, [pc |-> "found", country |-> c])

Found(t) ==
  /\ office[t].pc = "found"
  /\ founded' = Append(founded, office[t].country)
  /\ member' = member \cup {Row(Len(founded) + 1, office[t].country, "leader")}
  /\ Ends(t)
  /\ UNCHANGED <<relation, hasty>>

\* No invitation is asked for.
Join(t, a, c) == Free(c) /\ Looks(t, c, [pc |-> "join", alliance |-> a, country |-> c])

\* UNIQUE(alliance_id, country_id)
Enter(t) ==
  LET c == office[t].country  a == office[t].alliance IN
  /\ office[t].pc = "join"
  /\ member' = IF \E m \in Of(c) : m.alliance = a THEN member ELSE member \cup {Row(a, c, "member")}
  /\ Ends(t)
  /\ UNCHANGED <<founded, relation, hasty>>

\* One of the country's memberships; the leader may leave as well.
Leave(t, c) ==
  \E m \in Of(c) : Looks(t, c, [pc |-> "leave", row |-> m, country |-> c])

\* The DELETE waits for the others of the same row, which then delete nothing.
Delete(t) ==
  /\ office[t].pc = "leave"
  /\ member' = member \ {office[t].row}
  /\ office' = [u \in Txn |->
       IF office[u].pc = "leave" /\ office[u].row = office[t].row THEN Idle ELSE office[u]]
  /\ UNCHANGED <<founded, relation, hasty>>

-----------------------------------------------------------------------------
Unordered(c, d) == <<c, d>>       \* mutant: the pair is not normalised
Ordered(c, d) == IF c > d THEN <<d, c>> ELSE <<c, d>>

\* DiplomacyRepository.get finds the pair in either order.
RelationOf(c, d) == {r \in relation : {r.a, r.b} = {c, d}}

SetStatus(t, c, d, status) ==
  /\ ~Active(t)
  /\ c # d /\ WorldOf[c] = WorldOf[d]
  /\ office' = [office EXCEPT ![t] =
       [pc |-> "relate", pair |-> Ordered(c, d), found |-> RelationOf(c, d) # {},
        status |-> status]]
  /\ UNCHANGED <<founded, member, relation, hasty>>

\* upsert: an UPDATE of the row that was found, or an INSERT, which fails if
\* another request has inserted the pair meanwhile (uq_diplo_pair).
Upsert(t) ==
  LET a == office[t].pair[1]  b == office[t].pair[2] IN
  /\ office[t].pc = "relate"
  /\ \/ /\ office[t].found
        /\ relation' = {[r EXCEPT !.status = IF {r.a, r.b} = {a, b} THEN office[t].status ELSE @] :
                          r \in relation}
     \/ /\ ~office[t].found
        /\ relation' = IF \E r \in relation : r.a = a /\ r.b = b THEN relation
                       ELSE relation \cup {[a |-> a, b |-> b, status |-> office[t].status]}
  /\ Ends(t)
  /\ UNCHANGED <<founded, member, hasty>>

\* The request fails in its service, or its connection is lost.
Fail(t) == Active(t) /\ Ends(t) /\ UNCHANGED <<founded, member, relation, hasty>>

Next == \E t \in Txn :
  \/ Found(t) \/ Enter(t) \/ Delete(t) \/ Upsert(t) \/ Fail(t)
  \/ \E c \in Country : Create(t, c) \/ Leave(t, c) \/ \E a \in Alliance : Join(t, a, c)
  \/ \E c, d \in Country, status \in Relation : SetStatus(t, c, d, status)

Spec == Init /\ [][Next]_vars

-----------------------------------------------------------------------------
\* alliance_service.py:31: a country is a member of one alliance, unless two of
\* its requests overlapped: each of them looks, and no index spans the alliances.
OneAlliance == \A c \in Country \ hasty : \A m, n \in Of(c) : m = n

\* However requests overlap, two countries have one relation: the pair is
\* ordered before it is stored, and its index refuses the second INSERT.
OneRelation ==
  \A r, s \in relation : {r.a, r.b} = {s.a, s.b} => r = s
=============================================================================
