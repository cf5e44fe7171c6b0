---------------------------- MODULE PoliticsProofs ----------------------------
(***************************************************************************)
(* Relations, alliances and wars, for any number of countries and requests *)
(* in flight: two countries never have two relations, only overlapping     *)
(* requests bring a country into two alliances or two countries into two   *)
(* open wars, and only overlapping attacks miscount a score.               *)
(***************************************************************************)
EXTENDS Politics, TLAPS, FiniteSetTheorems, SequenceTheorems

-----------------------------------------------------------------------------
(* The inductive invariants.                                               *)

Pc == {"idle", "relate", "found", "join", "leave"}
Pair == {p \in Country \X Country : p[1] < p[2]}
Relations == [a : Country, b : Country, status : Relation]

Office ==
  /\ office = [t \in Txn |-> office[t]]
  /\ \A t \in Txn : office[t].pc \in Pc

\* Pairs are stored in order, one row for each.
RelationInv ==
  /\ Office
  /\ \A t \in Txn : office[t].pc = "relate" => office[t].pair \in Pair /\ office[t].status \in Relation
  /\ relation \subseteq Relations
  /\ \A r \in relation : r.a < r.b
  /\ \A r, s \in relation : r.a = s.a /\ r.b = s.b => r = s

\* t is about a membership of c.
Asks(t, c) == office[t].pc \in {"found", "join", "leave"} /\ office[t].country = c

\* A country whose requests never overlapped has one in flight at most, and has
\* no alliance while that one is to found or to join one.
AllianceInv ==
  /\ Office
  /\ \A c \in Country \ hasty :
       /\ \A m, n \in Social!Of(c) : m = n
       /\ \A t, u \in Txn : Asks(t, c) /\ Asks(u, c) => t = u
       /\ \A t \in Txn : Asks(t, c) /\ office[t].pc # "leave" => Social!Of(c) = {}

-----------------------------------------------------------------------------
(* Relations.                                                              *)

LEMMA OrderedIsPair ==
  ASSUME NEW c \in Country, NEW d \in Country, c # d
  PROVE  Social!Ordered(c, d) \in Pair
BY PoliticsAssumption DEF Social!Ordered, Pair

LEMMA RowUpdate ==
  ASSUME NEW r \in Relations, NEW x \in Relation, NEW P \in BOOLEAN
  PROVE  LET q == [r EXCEPT !.status = IF P THEN x ELSE @]
         IN  q \in Relations /\ q.a = r.a /\ q.b = r.b
BY DEF Relations

LEMMA OrderedPairs ==
  ASSUME NEW p \in Nat, NEW q \in Nat, NEW u \in Nat, NEW v \in Nat,
         p < q, u < v, {p, q} = {u, v}
  PROVE  p = u /\ q = v
<1>1. p \in {u, v} /\ q \in {u, v}
  OBVIOUS
<1> QED
  BY <1>1

LEMMA UpsertInv == ASSUME RelationInv, NEW t \in Txn, Social!Upsert(t) PROVE RelationInv'
<1> DEFINE a == office[t].pair[1]
           b == office[t].pair[2]
           x == office[t].status
           Rewritten(r) == [r EXCEPT !.status = IF {r.a, r.b} = {a, b} THEN x ELSE @]
<1>1. office[t].pc = "relate" /\ <<a, b>> \in Pair /\ a \in Country /\ b \in Country /\ a < b
      /\ x \in Relation
  BY DEF Social!Upsert, RelationInv, Pair
<1>2. Office' /\ \A u \in Txn : office'[u].pc = "relate" => office'[u] = office[u]
  BY DEF Social!Upsert, Social!Ends, Social!Idle, RelationInv, Office, Pc
<1>3. /\ relation' \subseteq Relations
      /\ \A r \in relation' : r.a < r.b
      /\ \A r, s \in relation' : r.a = s.a /\ r.b = s.b => r = s
  <2>1. CASE relation' = {Rewritten(r) : r \in relation}
    <3>1. \A r \in relation : Rewritten(r) \in Relations /\ Rewritten(r).a = r.a /\ Rewritten(r).b = r.b
      <4> TAKE r \in relation
      <4>1. r \in Relations /\ x \in Relation /\ ({r.a, r.b} = {a, b}) \in BOOLEAN
        BY <1>1 DEF RelationInv
      <4> HIDE DEF a, b, x
      <4> QED
        BY <4>1, RowUpdate
    <3> HIDE DEF Rewritten
    <3> QED
      BY <2>1, <3>1 DEF RelationInv
  <2>2. CASE relation' = relation
    BY <2>2 DEF RelationInv
  <2>3. CASE /\ relation' = relation \cup {[a |-> a, b |-> b, status |-> x]}
             /\ ~ \E r \in relation : r.a = a /\ r.b = b
    BY <1>1, <2>3 DEF RelationInv, Relations
  <2> QED
    BY <2>1, <2>2, <2>3 DEF Social!Upsert
<1> QED
  BY <1>2, <1>3 DEF RelationInv

\* The requests about memberships, and the end of one that fails.
LEMMA OfficeInv ==
  ASSUME RelationInv, UNCHANGED relation, Office',
         \A t \in Txn : office'[t].pc = "relate" =>
           \/ office'[t].pair = office[t].pair /\ office'[t].status = office[t].status /\ office[t].pc = "relate"
           \/ office'[t].pair \in Pair /\ office'[t].status \in Relation
  PROVE  RelationInv'
BY DEF RelationInv

LEMMA RelationStep == ASSUME RelationInv, [Next]_vars PROVE RelationInv'
<1>1. CASE UNCHANGED social
  BY <1>1 DEF social, RelationInv, Office
<1>2. ASSUME NEW t \in Txn, Social!Upsert(t) PROVE RelationInv'
  BY <1>2, UpsertInv
<1>3. ASSUME NEW t \in Txn, Social!Found(t) \/ Social!Enter(t) \/ Social!Fail(t) PROVE RelationInv'
  <2>1. UNCHANGED relation /\ office' = [office EXCEPT ![t] = [pc |-> "idle"]]
    BY <1>3 DEF Social!Found, Social!Enter, Social!Fail, Social!Ends, Social!Idle
  <2> QED
    BY <2>1, OfficeInv DEF RelationInv, Office, Pc
<1>4. ASSUME NEW t \in Txn, Social!Delete(t) PROVE RelationInv'
  BY <1>4, OfficeInv DEF Social!Delete, Social!Idle, RelationInv, Office, Pc
<1>5. ASSUME NEW t \in Txn, NEW c \in Country, NEW request,
             Social!Looks(t, c, request), request.pc \in {"found", "join", "leave"}
      PROVE  RelationInv'
  BY <1>5, OfficeInv DEF Social!Looks, RelationInv, Office, Pc
<1>6. ASSUME NEW t \in Txn, NEW c \in Country, NEW d \in Country, NEW status \in Relation,
             Social!SetStatus(t, c, d, status)
      PROVE  RelationInv'
  BY <1>6, OfficeInv, OrderedIsPair DEF Social!SetStatus, RelationInv, Office, Pc
<1>7. ASSUME NEW t \in Txn, NEW c \in Country, Social!Create(t, c) \/ Social!Leave(t, c)
      PROVE  RelationInv'
  BY <1>7, <1>5 DEF Social!Create, Social!Leave
<1>8. ASSUME NEW t \in Txn, NEW c \in Country, NEW x \in Social!Alliance, Social!Join(t, x, c)
      PROVE  RelationInv'
  BY <1>8, <1>5 DEF Social!Join
<1> QED
  BY <1>1, <1>2, <1>3, <1>4, <1>6, <1>7, <1>8 DEF Next, vars, Social!Next

(* However the requests of the two sides overlap, two countries have one       *)
(* relation.  (DiplomacyService.set_status, DiplomacyRepository.upsert)        *)
THEOREM RelationsAreOne == Spec => []OneRelation
<1>1. Init => RelationInv
  BY DEF Init, Social!Init, Social!Idle, RelationInv, Office, Pc
<1>2. RelationInv /\ [Next]_vars => RelationInv'
  BY RelationStep
<1>3. RelationInv => OneRelation
  <2> SUFFICES ASSUME RelationInv, NEW r \in relation, NEW s \in relation, {r.a, r.b} = {s.a, s.b}
               PROVE  r = s
    BY DEF OneRelation, Social!OneRelation
  <2>1. r.a \in Nat /\ r.b \in Nat /\ s.a \in Nat /\ s.b \in Nat /\ r.a < r.b /\ s.a < s.b
    BY PoliticsAssumption DEF RelationInv, Relations
  <2>2. r.a = s.a /\ r.b = s.b
    BY <2>1, OrderedPairs
  <2> QED
    BY <2>2 DEF RelationInv
<1> QED
  BY <1>1, <1>2, <1>3, PTL DEF Spec

-----------------------------------------------------------------------------
(* Alliances.                                                              *)

\* What two states have in common is enough: fewer members, fewer requests.
LEMMA FewerInv ==
  ASSUME AllianceInv, Office', UNCHANGED hasty,
         member' \subseteq member,
         \A t \in Txn, c \in Country : Asks(t, c)' => Asks(t, c) /\ office'[t].pc = office[t].pc
  PROVE  AllianceInv'
<1> SUFFICES ASSUME NEW c \in Country \ hasty
             PROVE  /\ \A m, n \in Social!Of(c)' : m = n
                    /\ \A t, u \in Txn : Asks(t, c)' /\ Asks(u, c)' => t = u
                    /\ \A t \in Txn : Asks(t, c)' /\ office'[t].pc # "leave" => Social!Of(c)' = {}
  BY DEF AllianceInv
<1>1. Social!Of(c)' \subseteq Social!Of(c)
  BY DEF Social!Of
<1> QED
  BY <1>1 DEF AllianceInv

\* A new request about a membership of c.
LEMMA LooksInv ==
  ASSUME AllianceInv, NEW t \in Txn, NEW c \in Country, NEW request, Social!Looks(t, c, request),
         request.pc \in {"found", "join", "leave"}, request.country = c,
         request.pc # "leave" => Social!Of(c) = {}
  PROVE  AllianceInv'
<1>1. /\ office' = [office EXCEPT ![t] = request] /\ UNCHANGED member
      /\ hasty \subseteq hasty'
      /\ (\E u \in Txn : Asks(u, c)) => c \in hasty'
  BY DEF Social!Looks, AllianceInv, Office, Pc, Asks
<1>2. Office'
  BY <1>1 DEF AllianceInv, Office, Pc
<1>3. office'[t] = request /\ \A u \in Txn \ {t} : office'[u] = office[u]
  BY <1>1 DEF AllianceInv, Office
<1>4. ASSUME NEW d \in Country \ hasty'
      PROVE  /\ \A m, n \in Social!Of(d)' : m = n
             /\ \A u, v \in Txn : Asks(u, d)' /\ Asks(v, d)' => u = v
             /\ \A u \in Txn : Asks(u, d)' /\ office'[u].pc # "leave" => Social!Of(d)' = {}
  <2>1. d \in Country \ hasty /\ Social!Of(d)' = Social!Of(d)
    BY <1>1 DEF Social!Of
  <2>2. CASE d = c
    <3>1. \A u \in Txn \ {t} : ~Asks(u, d)'
      BY <1>1, <1>3, <2>2 DEF Asks
    <3> QED
      BY <1>3, <2>1, <2>2, <3>1 DEF AllianceInv
  <2>3. CASE d # c
    <3>1. ~Asks(t, d)' /\ \A u \in Txn \ {t} : Asks(u, d)' <=> Asks(u, d)
      BY <1>3, <2>3 DEF Asks
    <3> QED
      BY <1>3, <2>1, <3>1 DEF AllianceInv
  <2> QED
    BY <2>2, <2>3
<1> QED
  BY <1>2, <1>4 DEF AllianceInv

\* A foundation or an entry adds one row of its country, and ends.
LEMMA EnterInv ==
  ASSUME AllianceInv, NEW t \in Txn, Social!Found(t) \/ Social!Enter(t)
  PROVE  AllianceInv'
<1>1. PICK row :
        /\ row.country = office[t].country
        /\ member' \subseteq member \cup {row}
        /\ office' = [office EXCEPT ![t] = [pc |-> "idle"]]
        /\ UNCHANGED hasty
  BY DEF Social!Found, Social!Enter, Social!Ends, Social!Idle, Social!Row
<1>2. office[t].pc \in {"found", "join"}
  BY DEF Social!Found, Social!Enter
<1>3. Office' /\ office'[t].pc = "idle" /\ \A u \in Txn \ {t} : office'[u] = office[u]
  BY <1>1 DEF AllianceInv, Office, Pc
<1>4. ASSUME NEW c \in Country \ hasty
      PROVE  /\ \A m, n \in Social!Of(c)' : m = n
             /\ \A u, v \in Txn : Asks(u, c)' /\ Asks(v, c)' => u = v
             /\ \A u \in Txn : Asks(u, c)' /\ office'[u].pc # "leave" => Social!Of(c)' = {}
  <2>1. ~Asks(t, c)' /\ \A u \in Txn \ {t} : Asks(u, c)' <=> Asks(u, c)
    BY <1>3 DEF Asks
  <2>2. CASE c = row.country
    <3>1. Asks(t, c) /\ Social!Of(c) = {}
      BY <1>1, <1>2, <2>2 DEF Asks, AllianceInv
    <3>2. Social!Of(c)' \subseteq {row}
      BY <1>1, <3>1 DEF Social!Of
    <3>3. \A u \in Txn : ~Asks(u, c)'
      BY <2>1, <3>1 DEF AllianceInv
    <3> QED
      BY <3>2, <3>3
  <2>3. CASE c # row.country
    <3>1. Social!Of(c)' \subseteq Social!Of(c)
      BY <1>1, <2>3 DEF Social!Of
    <3> QED
      BY <1>3, <2>1, <3>1 DEF AllianceInv
  <2> QED
    BY <2>2, <2>3
<1> QED
  BY <1>1, <1>3, <1>4 DEF AllianceInv

LEMMA AllianceStep == ASSUME AllianceInv, [Next]_vars PROVE AllianceInv'
<1>1. CASE UNCHANGED social
  BY <1>1, FewerInv DEF social, Asks, AllianceInv, Office
<1>2. ASSUME NEW t \in Txn, Social!Upsert(t) \/ Social!Fail(t) PROVE AllianceInv'
  <2>1. UNCHANGED <<member, hasty>> /\ office' = [office EXCEPT ![t] = [pc |-> "idle"]]
    BY <1>2 DEF Social!Upsert, Social!Fail, Social!Ends, Social!Idle
  <2> QED
    BY <2>1, FewerInv DEF Asks, AllianceInv, Office, Pc
<1>3. ASSUME NEW t \in Txn, Social!Found(t) \/ Social!Enter(t) PROVE AllianceInv'
  BY <1>3, EnterInv
<1>4. ASSUME NEW t \in Txn, Social!Delete(t) PROVE AllianceInv'
  BY <1>4, FewerInv DEF Social!Delete, Social!Idle, Asks, AllianceInv, Office, Pc
<1>5. ASSUME NEW t \in Txn, NEW c \in Country, Social!Create(t, c) \/ Social!Leave(t, c)
      PROVE  AllianceInv'
  BY <1>5, LooksInv DEF Social!Create, Social!Leave, Social!Free
<1>6. ASSUME NEW t \in Txn, NEW c \in Country, NEW x \in Social!Alliance, Social!Join(t, x, c)
      PROVE  AllianceInv'
  BY <1>6, LooksInv DEF Social!Join, Social!Free
<1>7. ASSUME NEW t \in Txn, NEW c \in Country, NEW d \in Country, NEW status \in Relation,
             Social!SetStatus(t, c, d, status)
      PROVE  AllianceInv'
  BY <1>7, FewerInv DEF Social!SetStatus, Asks, AllianceInv, Office, Pc
<1> QED
  BY <1>1, <1>2, <1>3, <1>4, <1>5, <1>6, <1>7 DEF Next, vars, Social!Next

(* A country of which two requests never overlapped is in one alliance at      *)
(* most, for any number of alliances.  (AllianceService.create, join, leave)   *)
THEOREM AlliancesAreOne == Spec => []OneAlliance
<1>1. Init => AllianceInv
  BY DEF Init, Social!Init, Social!Idle, Social!Of, Asks, AllianceInv, Office, Pc
<1>2. AllianceInv /\ [Next]_vars => AllianceInv'
  BY AllianceStep
<1>3. AllianceInv => OneAlliance
  BY DEF AllianceInv, OneAlliance, Social!OneAlliance
<1> QED
  BY <1>1, <1>2, <1>3, PTL DEF Spec
-----------------------------------------------------------------------------
(***************************************************************************)
(* Wars.  The rows of units decide nothing about a war, and are left out.  *)
(***************************************************************************)
Victory(w, s) == [war |-> w, winner |-> s]
Count(q, x) == Cardinality({i \in DOMAIN q : q[i] = x})

WarStatus == {"declared", "active", "ended"}
War == [attacker : Country, defender : Country, status : WarStatus, score : [Military!Side -> Int]]
Battle == [war : Nat, winner : Military!Winner]
Rivals(a, d, w) == {a, d} = {wars[w].attacker, wars[w].defender}

Declares(t) == req[t].pc = "insert"
Fights(t) == req[t].pc \in {"select", "update", "finish"}

DeclarationType(t) ==
  /\ req[t].attacker \in Country /\ req[t].defender \in Country
  /\ req[t].saw \subseteq DOMAIN wars
AttackType(t) ==
  /\ req[t] = [pc |-> req[t].pc, war |-> req[t].war, status |-> req[t].status,
               score |-> req[t].score, side |-> req[t].side, seen |-> req[t].seen]
  /\ req[t].war \in DOMAIN wars /\ req[t].score \in [Military!Side -> Int]

WarTypes ==
  /\ wars \in Seq(War)
  /\ battles \in Seq(Battle)
  /\ \A i \in DOMAIN battles : battles[i].war \in DOMAIN wars
  /\ req = [t \in Txn |-> req[t]]
  /\ \A t \in Txn : (Declares(t) => DeclarationType(t)) /\ (Fights(t) => AttackType(t))

\* A war that a declaration saw was over, and may have become active again.
Looked ==
  \A t \in Txn : Declares(t) =>
    \A w \in req[t].saw :
      wars[w].status \in Military!Open /\ Rivals(req[t].attacker, req[t].defender, w) => w \in revived

\* An attack has read a score that the recorded battles explain, and alone in
\* its war it has read the present one.
Attacking ==
  /\ \A t \in Txn : Fights(t) =>
       /\ \A s \in Military!Side : req[t].score[s] <= Count(battles, Victory(req[t].war, s))
       /\ req[t].war \notin crowded => req[t].score = wars[req[t].war].score
  /\ \A t, u \in Txn : Fights(t) /\ Fights(u) /\ req[t].war = req[u].war /\ req[t].war \notin crowded => t = u

Scores ==
  \A w \in DOMAIN wars, s \in Military!Side :
    /\ wars[w].score[s] <= Count(battles, Victory(w, s))
    /\ w \notin crowded => wars[w].score[s] = Count(battles, Victory(w, s))

WarInv == WarTypes /\ Looked /\ OneOpenWar /\ Attacking /\ Scores

\* The instances of a standard operator in Wars are the operator.
LEMMA MilitaryCardinality == ASSUME NEW S PROVE Military!Cardinality(S) = Cardinality(S)
BY DEF Military!Cardinality, Cardinality

LEMMA CountIsNat == ASSUME NEW S, NEW q \in Seq(S), NEW x PROVE Count(q, x) \in Nat
<1> DEFINE A == {i \in DOMAIN q : q[i] = x}
<1>1. IsFiniteSet(1 .. Len(q)) /\ A \in SUBSET (1 .. Len(q))
  BY FS_Interval
<1>2. IsFiniteSet(A)
  BY <1>1, FS_Subset
<1> QED
  BY <1>2, FS_CardinalityType DEF Count

\* One more entry is counted once, where it belongs.
LEMMA CountAppend ==
  ASSUME NEW S, NEW q \in Seq(S), NEW e \in S, NEW x
  PROVE  Count(Append(q, e), x) = IF e = x THEN Count(q, x) + 1 ELSE Count(q, x)
<1> DEFINE A == {i \in DOMAIN q : q[i] = x}
           B == {i \in DOMAIN Append(q, e) : Append(q, e)[i] = x}
           n == Len(q) + 1
<1>1. IsFiniteSet(1 .. Len(q)) /\ A \in SUBSET (1 .. Len(q))
  BY FS_Interval
<1>2. IsFiniteSet(A)
  BY <1>1, FS_Subset
<1>3. /\ DOMAIN Append(q, e) = 1 .. n /\ DOMAIN q = 1 .. Len(q) /\ Len(q) \in Nat
      /\ \A i \in 1 .. Len(q) : Append(q, e)[i] = q[i]
      /\ Append(q, e)[n] = e
  BY AppendProperties
<1>4. n \notin A /\ 1 .. n = (1 .. Len(q)) \cup {n}
  BY <1>1, <1>3
<1>5. B = IF e = x THEN A \cup {n} ELSE A
  BY <1>3, <1>4
<1> HIDE DEF A, B, n
<1>6. Cardinality(A \cup {n}) = Cardinality(A) + 1
  BY <1>2, <1>4, FS_AddElement
<1>7. Cardinality(B) = IF e = x THEN Cardinality(A) + 1 ELSE Cardinality(A)
  BY <1>5, <1>6
<1> QED
  BY <1>7 DEF A, B, Count

LEMMA Element == ASSUME NEW S, NEW q \in Seq(S), NEW i \in DOMAIN q PROVE q[i] \in S
OBVIOUS

\* The row of a war with another status and other scores.
LEMMA RowChanged ==
  ASSUME NEW x \in DOMAIN wars, wars \in Seq(War),
         NEW status \in WarStatus, NEW score \in [Military!Side -> Int],
         wars' = [wars EXCEPT ![x] = [wars[x] EXCEPT !.status = status, !.score = score]]
  PROVE  /\ wars' \in Seq(War) /\ DOMAIN wars' = DOMAIN wars
         /\ wars'[x].attacker = wars[x].attacker /\ wars'[x].defender = wars[x].defender
         /\ wars'[x].status = status /\ wars'[x].score = score
         /\ \A w \in DOMAIN wars \ {x} : wars'[w] = wars[w]
<1> DEFINE row == [wars[x] EXCEPT !.status = status, !.score = score]
<1>1. wars[x] \in War
  BY Element
<1>2. /\ row \in War /\ row.attacker = wars[x].attacker /\ row.defender = wars[x].defender
      /\ row.status = status /\ row.score = score
  BY <1>1 DEF War
<1> HIDE DEF row
<1>3. wars' = [wars EXCEPT ![x] = row]
  BY DEF row
<1>4. /\ wars' \in Seq(War) /\ DOMAIN wars' = DOMAIN wars /\ wars'[x] = row
      /\ \A w \in DOMAIN wars \ {x} : wars'[w] = wars[w]
  <2>1. row \in War /\ wars \in Seq(War)
    BY <1>2
  <2> QED
    BY <1>3, <2>1
<1> QED
  BY <1>2, <1>4

\* A step of request t that changes no row of wars or battles: it goes on with
\* its attack, declares a war after a look, or ends.
Goes(t) ==
  /\ UNCHANGED <<wars, battles, unaware, revived, crowded>>
  /\ req' = [req EXCEPT ![t] = req'[t]]
  /\ \/ req'[t].pc = "idle"
     \/ /\ Fights(t) /\ Fights(t)' /\ AttackType(t)'
        /\ req'[t].war = req[t].war /\ req'[t].score = req[t].score
     \/ /\ req'[t].pc = "insert" /\ DeclarationType(t)'
        /\ ~ \E w \in DOMAIN wars :
             wars[w].status \in Military!Open /\ Rivals(req'[t].attacker, req'[t].defender, w)

LEMMA GoesKeepsWars == ASSUME WarInv, NEW t \in Txn, Goes(t) PROVE WarInv'
<1>1. /\ req' = [u \in Txn |-> req'[u]] /\ \A u \in Txn \ {t} : req'[u] = req[u]
      /\ wars' = wars /\ battles' = battles /\ unaware' = unaware /\ revived' = revived
      /\ crowded' = crowded
  BY DEF Goes, WarInv, WarTypes
<1>2. WarTypes'
  <2>1. ASSUME NEW u \in Txn \ {t}
        PROVE  (Declares(u) => DeclarationType(u))' /\ (Fights(u) => AttackType(u))'
    BY <1>1 DEF WarInv, WarTypes, Declares, DeclarationType, Fights, AttackType
  <2>2. (Declares(t) => DeclarationType(t))' /\ (Fights(t) => AttackType(t))'
    BY DEF Goes, Declares, Fights
  <2>3. wars' \in Seq(War) /\ battles' \in Seq(Battle)
        /\ \A i \in DOMAIN battles' : battles'[i].war \in DOMAIN wars'
    BY <1>1 DEF WarInv, WarTypes
  <2> QED
    BY <1>1, <2>1, <2>2, <2>3 DEF WarTypes
<1>3. Looked'
  <2>1. ASSUME NEW u \in Txn, Declares(u)', NEW w \in req'[u].saw, wars[w].status \in Military!Open,
               Rivals(req'[u].attacker, req'[u].defender, w)
        PROVE  w \in revived
    <3>1. CASE u = t
      BY <1>1, <2>1, <3>1 DEF Goes, Declares, Fights, DeclarationType
    <3>2. CASE u # t
      BY <1>1, <2>1, <3>2 DEF WarInv, Looked, Declares
    <3> QED
      BY <3>1, <3>2
  <2> QED
    BY <1>1, <2>1 DEF Looked, Rivals
<1>4. OneOpenWar'
  BY <1>1 DEF WarInv, OneOpenWar, Military!OneOpenWar
<1>5. \A u \in Txn : Fights(u)' => Fights(u) /\ req'[u].war = req[u].war /\ req'[u].score = req[u].score
  BY <1>1 DEF Goes, Fights
<1>6. Attacking'
  BY <1>1, <1>5 DEF WarInv, Attacking
<1>7. Scores'
  BY <1>1 DEF WarInv, Scores
<1> QED
  BY <1>2, <1>3, <1>4, <1>6, <1>7 DEF WarInv

LEMMA InsertKeepsWars == ASSUME WarInv, NEW t \in Txn, Military!InsertWar(t) PROVE WarInv'
<1> DEFINE n == Len(wars) + 1
           row == [attacker |-> req[t].attacker, defender |-> req[t].defender,
                   status |-> "declared", score |-> [s \in Military!Side |-> 0]]
<1>1. /\ Declares(t) /\ wars' = Append(wars, row)
      /\ unaware' = unaware \cup {<<w, n>> : w \in DOMAIN wars \ req[t].saw}
      /\ req' = [req EXCEPT ![t] = [pc |-> "idle"]]
      /\ battles' = battles /\ revived' = revived /\ crowded' = crowded
  BY DEF Military!InsertWar, Military!Ends, Military!Idle, Declares
<1>2. row \in War /\ row.status = "declared" /\ row.score = [s \in Military!Side |-> 0]
      /\ row.attacker = req[t].attacker /\ row.defender = req[t].defender
  BY <1>1 DEF WarInv, WarTypes, DeclarationType, War, WarStatus
<1> HIDE DEF row
<1>3. /\ wars' \in Seq(War) /\ Len(wars) \in Nat /\ DOMAIN wars = 1 .. Len(wars)
      /\ DOMAIN wars' = 1 .. n /\ wars'[n] = row /\ n \notin DOMAIN wars
      /\ \A w \in DOMAIN wars : wars'[w] = wars[w]
  BY <1>1, <1>2, AppendProperties DEF WarInv, WarTypes
<1>4. DOMAIN wars' = DOMAIN wars \cup {n}
  BY <1>3
<1>5. /\ req' = [u \in Txn |-> req'[u]] /\ req'[t].pc = "idle"
      /\ \A u \in Txn : (Declares(u)' \/ Fights(u)') => u # t /\ req'[u] = req[u]
  BY <1>1 DEF WarInv, WarTypes, Declares, Fights
<1>6. WarTypes'
  <2>1. battles' \in Seq(Battle) /\ \A i \in DOMAIN battles' : battles'[i].war \in DOMAIN wars'
    BY <1>1, <1>4 DEF WarInv, WarTypes
  <2>2. \A u \in Txn : (Declares(u) => DeclarationType(u))' /\ (Fights(u) => AttackType(u))'
    BY <1>4, <1>5 DEF WarInv, WarTypes, Declares, DeclarationType, Fights, AttackType
  <2> QED
    BY <1>3, <1>5, <2>1, <2>2 DEF WarTypes
<1>7. Looked'
  <2>1. \A u \in Txn : Declares(u)' => Declares(u) /\ req'[u] = req[u] /\ req[u].saw \subseteq DOMAIN wars
    BY <1>5 DEF WarInv, WarTypes, Declares, DeclarationType
  <2> QED
    BY <1>1, <1>3, <2>1 DEF WarInv, Looked, Rivals
<1>8. OneOpenWar'
  <2>1. ASSUME NEW v \in DOMAIN wars', NEW w \in DOMAIN wars', v < w,
               {wars'[v].status, wars'[w].status} \subseteq Military!Open,
               {wars'[v].attacker, wars'[v].defender} = {wars'[w].attacker, wars'[w].defender}
        PROVE  <<v, w>> \in unaware' \/ {v, w} \cap revived' # {}
    <3>1. CASE v \in DOMAIN wars /\ w \in DOMAIN wars
      <4>1. <<v, w>> \in unaware \/ {v, w} \cap revived # {}
        BY <1>3, <2>1, <3>1 DEF WarInv, OneOpenWar, Military!OneOpenWar
      <4>2. unaware \subseteq unaware' /\ revived' = revived
        BY <1>1
      <4> QED
        BY <4>1, <4>2
    <3>2. CASE w = n
      <4>1. v \in DOMAIN wars
        BY <1>3, <1>4, <2>1, <3>2
      <4>2. CASE v \in req[t].saw
        <5>1. Rivals(req[t].attacker, req[t].defender, v) /\ wars[v].status \in Military!Open
          BY <1>2, <1>3, <2>1, <3>2, <4>1 DEF Rivals
        <5> QED
          BY <1>1, <4>2, <5>1 DEF WarInv, Looked
      <4>3. CASE v \notin req[t].saw
        BY <1>1, <3>2, <4>1, <4>3
      <4> QED
        BY <4>2, <4>3
    <3>3. CASE v = n /\ w \in DOMAIN wars
      BY <1>3, <2>1, <3>3
    <3> QED
      BY <1>4, <3>1, <3>2, <3>3
  <2> QED
    BY <2>1 DEF OneOpenWar, Military!OneOpenWar
<1>9. Attacking'
  <2>1. \A u \in Txn : Fights(u)' => Fights(u) /\ req'[u] = req[u] /\ req[u].war \in DOMAIN wars
    BY <1>5 DEF WarInv, WarTypes, Fights, AttackType
  <2> QED
    BY <1>1, <1>3, <2>1 DEF WarInv, Attacking
<1>10. Scores'
  <2>1. ASSUME NEW s \in Military!Side PROVE Count(battles, Victory(n, s)) = 0
    <3>1. \A i \in DOMAIN battles : battles[i] # Victory(n, s)
      BY <1>3 DEF WarInv, WarTypes, Victory
    <3>2. {i \in DOMAIN battles : battles[i] = Victory(n, s)} = {}
      BY <3>1
    <3> QED
      BY <3>2, FS_EmptySet DEF Count
  <2>2. ASSUME NEW w \in DOMAIN wars', NEW s \in Military!Side
        PROVE  /\ wars'[w].score[s] <= Count(battles, Victory(w, s))
               /\ w \notin crowded => wars'[w].score[s] = Count(battles, Victory(w, s))
    <3>1. CASE w \in DOMAIN wars
      BY <1>3, <3>1 DEF WarInv, Scores
    <3>2. CASE w = n
      BY <1>2, <1>3, <2>1, <3>2
    <3> QED
      BY <1>4, <3>1, <3>2
  <2> QED
    BY <1>1, <2>2 DEF Scores
<1> QED
  BY <1>6, <1>7, <1>8, <1>9, <1>10 DEF WarInv

\* An attack that starts in an open war has read its score; another attack of
\* that war in flight makes the war a crowded one.
LEMMA AttackKeepsWars ==
  ASSUME WarInv, NEW t \in Txn, NEW x \in DOMAIN wars, Military!Attack(t, x)
  PROVE  WarInv'
<1> DEFINE r == [pc |-> "select", war |-> x, status |-> wars[x].status,
                 score |-> wars[x].score, side |-> "attacker", seen |-> 0]
<1>1. /\ wars' = wars /\ battles' = battles /\ unaware' = unaware /\ revived' = revived
      /\ req' = [req EXCEPT ![t] = r] /\ req[t].pc = "idle" /\ crowded \subseteq crowded'
  BY DEF Military!Attack, Military!Active
<1>2. (\E u \in Txn : Fights(u) /\ req[u].war = x) => x \in crowded'
  BY DEF Military!Attack, Military!Attacks, Fights
<1>3. /\ req'[t] = r /\ \A u \in Txn \ {t} : req'[u] = req[u]
      /\ req' = [u \in Txn |-> req'[u]]
  BY <1>1 DEF WarInv, WarTypes
<1>4. /\ r.pc = "select" /\ r.war = x /\ r.score = wars[x].score
      /\ r = [pc |-> r.pc, war |-> r.war, status |-> r.status, score |-> r.score, side |-> r.side,
              seen |-> r.seen]
  OBVIOUS
<1> HIDE DEF r
<1>5. r.score \in [Military!Side -> Int]
  <2>1. wars[x] \in War
    BY Element DEF WarInv, WarTypes
  <2> QED
    BY <1>4, <2>1 DEF War
<1>6. WarTypes'
  <2>1. ASSUME NEW u \in Txn \ {t}
        PROVE  (Declares(u) => DeclarationType(u))' /\ (Fights(u) => AttackType(u))'
    BY <1>1, <1>3 DEF WarInv, WarTypes, Declares, DeclarationType, Fights, AttackType
  <2>2. ~Declares(t)' /\ AttackType(t)'
    BY <1>1, <1>3, <1>4, <1>5 DEF Declares, AttackType
  <2>3. wars' \in Seq(War) /\ battles' \in Seq(Battle)
        /\ \A i \in DOMAIN battles' : battles'[i].war \in DOMAIN wars'
    BY <1>1 DEF WarInv, WarTypes
  <2> QED
    BY <1>3, <2>1, <2>2, <2>3 DEF WarTypes
<1>7. Looked'
  <2>1. \A u \in Txn : Declares(u)' => Declares(u) /\ req'[u] = req[u]
    BY <1>3, <1>4 DEF Declares
  <2> QED
    BY <1>1, <2>1 DEF WarInv, Looked, Rivals
<1>8. OneOpenWar'
  BY <1>1 DEF WarInv, OneOpenWar, Military!OneOpenWar
<1>9. Attacking'
  <2>1. ASSUME NEW u \in Txn, Fights(u)'
        PROVE  /\ \A s \in Military!Side : req'[u].score[s] <= Count(battles, Victory(req'[u].war, s))
               /\ req'[u].war \notin crowded' => req'[u].score = wars[req'[u].war].score
    <3>1. CASE u = t
      BY <1>3, <1>4, <3>1 DEF WarInv, Scores
    <3>2. CASE u # t
      BY <1>1, <1>3, <2>1, <3>2 DEF WarInv, Attacking, Fights
    <3> QED
      BY <3>1, <3>2
  <2>2. ASSUME NEW u \in Txn, NEW v \in Txn, Fights(u)', Fights(v)', req'[u].war = req'[v].war,
               req'[u].war \notin crowded'
        PROVE  u = v
    <3>1. CASE u # t /\ v # t
      BY <1>1, <1>3, <2>2, <3>1 DEF WarInv, Attacking, Fights
    <3>2. CASE (u = t) # (v = t)
      BY <1>2, <1>3, <1>4, <2>2, <3>2 DEF Fights
    <3> QED
      BY <3>1, <3>2
  <2> QED
    BY <1>1, <2>1, <2>2 DEF Attacking
<1>10. Scores'
  BY <1>1 DEF WarInv, Scores
<1> QED
  BY <1>6, <1>7, <1>8, <1>9, <1>10 DEF WarInv

\* A battle ends: its war gets the score that the attack had read, and the
\* winner's point; the battle is recorded.
LEMMA FinishKeepsWars ==
  ASSUME WarInv, NEW t \in Txn, Military!FinishBattle(t)
  PROVE  WarInv'
<1> DEFINE x == req[t].war
<1>1. PICK winner \in Military!Winner :
        /\ wars' = [wars EXCEPT ![x].status = Military!NewStatus(t, wars[x]),
                                ![x].score = Military!NewScore(t, wars[x], winner)]
        /\ battles' = Append(battles, Victory(x, winner))
  BY DEF Military!FinishBattle, Victory
<1>2. /\ Fights(t) /\ req' = [req EXCEPT ![t] = [pc |-> "idle"]]
      /\ revived' = IF wars[x].status = "ended" /\ wars'[x].status # "ended"
                    THEN revived \cup {x} ELSE revived
      /\ unaware' = unaware /\ crowded' = crowded
  BY DEF Military!FinishBattle, Military!Ends, Military!Idle, Fights
<1>3. /\ x \in DOMAIN wars /\ wars \in Seq(War) /\ wars[x] \in War
      /\ req[t].score \in [Military!Side -> Int]
  BY <1>2 DEF WarInv, WarTypes, AttackType
<1> DEFINE status == Military!NewStatus(t, wars[x])
           score == Military!NewScore(t, wars[x], winner)
<1>4. status \in WarStatus
  BY <1>3 DEF Military!NewStatus, War, WarStatus
<1>5. /\ score \in [Military!Side -> Int]
      /\ \A s \in Military!Side : score[s] = IF s = winner THEN req[t].score[s] + 1 ELSE wars[x].score[s]
  BY <1>3 DEF Military!NewScore, Military!Winner, Military!Side, War
<1> HIDE DEF status, score, x
<1>6. /\ wars' \in Seq(War) /\ DOMAIN wars' = DOMAIN wars
      /\ wars'[x].attacker = wars[x].attacker /\ wars'[x].defender = wars[x].defender
      /\ wars'[x].status = status /\ wars'[x].score = score
      /\ \A w \in DOMAIN wars \ {x} : wars'[w] = wars[w]
  <2>1. wars' = [wars EXCEPT ![x] = [wars[x] EXCEPT !.status = status, !.score = score]]
    BY <1>1, <1>3 DEF status, score
  <2> QED
    BY <1>3, <1>4, <1>5, <2>1, RowChanged
<1>7. /\ req' = [u \in Txn |-> req'[u]] /\ req'[t].pc = "idle"
      /\ \A u \in Txn : (Declares(u)' \/ Fights(u)') => u # t /\ req'[u] = req[u]
  BY <1>2 DEF WarInv, WarTypes, Declares, Fights
<1>8. Victory(x, winner) \in Battle /\ battles \in Seq(Battle)
  BY <1>3 DEF Victory, Battle, WarInv, WarTypes
<1>9. \A w, s : Count(battles', Victory(w, s)) =
        IF w = x /\ s = winner THEN Count(battles, Victory(w, s)) + 1 ELSE Count(battles, Victory(w, s))
  <2>1. \A w, s : Victory(x, winner) = Victory(w, s) <=> x = w /\ winner = s
    BY DEF Victory
  <2> QED
    BY <1>1, <1>8, <2>1, CountAppend
<1>10. \A w, s : Count(battles, Victory(w, s)) \in Nat
  BY <1>8, CountIsNat
<1>11. WarTypes'
  <2>1. battles' \in Seq(Battle) /\ \A i \in DOMAIN battles' : battles'[i].war \in DOMAIN wars'
    <3>3. \A i \in DOMAIN battles : battles[i].war \in DOMAIN wars
      BY DEF WarInv, WarTypes
    <3>1. /\ battles' \in Seq(Battle) /\ Len(battles) \in Nat /\ Len(battles') = Len(battles) + 1
          /\ \A i \in 1 .. Len(battles) : battles'[i] = battles[i]
          /\ battles'[Len(battles) + 1] = Victory(x, winner)
      BY <1>1, <1>8, AppendProperties
    <3>2. \A i \in DOMAIN battles' : i \in DOMAIN battles \/ i = Len(battles) + 1
      BY <1>8, <3>1
    <3> QED
      <4>1. \A i \in DOMAIN battles : i \in 1 .. Len(battles)
        BY <1>8
      <4>2. Victory(x, winner).war = x
        BY DEF Victory
      <4>3. \A i \in DOMAIN battles' : battles'[i].war \in DOMAIN wars
        BY <1>3, <3>1, <3>2, <3>3, <4>1, <4>2
      <4> QED
        BY <1>6, <3>1, <4>3
  <2>2. \A u \in Txn : (Declares(u) => DeclarationType(u))' /\ (Fights(u) => AttackType(u))'
    BY <1>6, <1>7 DEF WarInv, WarTypes, Declares, DeclarationType, Fights, AttackType
  <2> QED
    BY <1>6, <1>7, <2>1, <2>2 DEF WarTypes
\* What is open now was open, or is revived.
<1>12. \A w \in DOMAIN wars : wars'[w].status \in Military!Open =>
         wars[w].status \in Military!Open \/ w \in revived'
  BY <1>2, <1>3, <1>6 DEF War, WarStatus, Military!Open
<1>13. revived \subseteq revived'
  BY <1>2
<1>14. \A w \in DOMAIN wars : wars'[w].attacker = wars[w].attacker /\ wars'[w].defender = wars[w].defender
  BY <1>6
<1>15. Looked'
  <2>1. \A u \in Txn : Declares(u)' => Declares(u) /\ req'[u] = req[u] /\ req[u].saw \subseteq DOMAIN wars
    BY <1>7 DEF WarInv, WarTypes, Declares, DeclarationType
  <2> QED
    BY <1>12, <1>13, <1>14, <2>1 DEF WarInv, Looked, Rivals
<1>16. OneOpenWar'
  <2>1. ASSUME NEW v \in DOMAIN wars', NEW w \in DOMAIN wars', v < w,
               {wars'[v].status, wars'[w].status} \subseteq Military!Open,
               {wars'[v].attacker, wars'[v].defender} = {wars'[w].attacker, wars'[w].defender}
        PROVE  <<v, w>> \in unaware' \/ {v, w} \cap revived' # {}
    <3>1. CASE v \in revived' \/ w \in revived'
      BY <3>1
    <3>2. CASE v \notin revived' /\ w \notin revived'
      <4>1. /\ {wars[v].status, wars[w].status} \subseteq Military!Open
            /\ {wars[v].attacker, wars[v].defender} = {wars[w].attacker, wars[w].defender}
        BY <1>6, <1>12, <1>14, <2>1, <3>2
      <4>2. <<v, w>> \in unaware \/ {v, w} \cap revived # {}
        BY <1>6, <2>1, <4>1 DEF WarInv, OneOpenWar, Military!OneOpenWar
      <4> QED
        BY <1>2, <1>13, <4>2
    <3> QED
      BY <3>1, <3>2
  <2> QED
    BY <2>1 DEF OneOpenWar, Military!OneOpenWar
<1>17. Attacking'
  <2>1. \A u \in Txn : Fights(u)' =>
          Fights(u) /\ u # t /\ req'[u] = req[u] /\ req[u].war \in DOMAIN wars /\ req[u].score \in [Military!Side -> Int]
    BY <1>7 DEF WarInv, WarTypes, Fights, AttackType
  <2>2. ASSUME NEW u \in Txn, Fights(u)', NEW s \in Military!Side
        PROVE  req[u].score[s] <= Count(battles', Victory(req[u].war, s))
    <3>1. req[u].score[s] <= Count(battles, Victory(req[u].war, s)) /\ req[u].score[s] \in Int
      BY <2>1, <2>2 DEF WarInv, Attacking
    <3> QED
      BY <1>9, <1>10, <3>1
  <2>3. \A u \in Txn : Fights(u)' /\ req[u].war \notin crowded => req[u].war # x
    BY <1>2, <2>1 DEF WarInv, Attacking, x
  <2> QED
    BY <1>2, <1>6, <2>1, <2>2, <2>3 DEF WarInv, Attacking
<1>18. Scores'
  <2>1. ASSUME NEW w \in DOMAIN wars, NEW s \in Military!Side
        PROVE  /\ wars'[w].score[s] <= Count(battles', Victory(w, s))
               /\ w \notin crowded => wars'[w].score[s] = Count(battles', Victory(w, s))
    <3>1. /\ wars[w].score[s] <= Count(battles, Victory(w, s)) /\ wars[w].score[s] \in Int
          /\ w \notin crowded => wars[w].score[s] = Count(battles, Victory(w, s))
      <4>1. wars[w] \in War
        BY <1>3, Element
      <4> QED
        BY <4>1 DEF WarInv, Scores, War
    <3>2. CASE w # x
      BY <1>6, <1>9, <3>1, <3>2
    <3>3. CASE w = x
      <4>1. /\ req[t].score[s] <= Count(battles, Victory(w, s)) /\ req[t].score[s] \in Int
            /\ w \notin crowded => req[t].score[s] = wars[w].score[s]
        BY <1>2, <1>3, <3>3 DEF WarInv, Attacking, x
      <4>2. wars'[w].score[s] = IF s = winner THEN req[t].score[s] + 1 ELSE wars[w].score[s]
        BY <1>5, <1>6, <3>3
      <4> QED
        BY <1>9, <1>10, <3>1, <3>3, <4>1, <4>2
    <3> QED
      BY <3>2, <3>3
  <2> QED
    BY <1>2, <1>6, <2>1 DEF Scores
<1> QED
  BY <1>11, <1>15, <1>16, <1>17, <1>18 DEF WarInv

LEMMA EndKeepsWars ==
  ASSUME WarInv, NEW x \in DOMAIN wars, Military!EndWar(x)
  PROVE  WarInv'
<1>1. /\ wars' = [wars EXCEPT ![x].status = "ended"]
      /\ battles' = battles /\ req' = req /\ unaware' = unaware /\ revived' = revived /\ crowded' = crowded
  BY DEF Military!EndWar, Military!history
<1>2. wars \in Seq(War)
  BY DEF WarInv, WarTypes
<1>3. /\ wars' \in Seq(War) /\ DOMAIN wars' = DOMAIN wars /\ wars'[x].status = "ended"
      /\ \A w \in DOMAIN wars : /\ wars'[w].attacker = wars[w].attacker
                                /\ wars'[w].defender = wars[w].defender
                                /\ wars'[w].score = wars[w].score
      /\ \A w \in DOMAIN wars \ {x} : wars'[w] = wars[w]
  <2>1. wars[x] \in War
    BY <1>2, Element
  <2>2. [wars[x] EXCEPT !.status = "ended"] = [wars[x] EXCEPT !.status = "ended", !.score = wars[x].score]
    BY <2>1 DEF War
  <2>3. wars' = [wars EXCEPT ![x] = [wars[x] EXCEPT !.status = "ended", !.score = wars[x].score]]
    BY <1>1, <2>2
  <2>4. "ended" \in WarStatus /\ wars[x].score \in [Military!Side -> Int]
    BY <2>1 DEF War, WarStatus
  <2> QED
    <3> DEFINE status == "ended"
               score == wars[x].score
    <3>1. /\ wars' = [wars EXCEPT ![x] = [wars[x] EXCEPT !.status = status, !.score = score]]
          /\ status \in WarStatus /\ score \in [Military!Side -> Int]
      BY <2>3, <2>4
    <3> HIDE DEF status, score
    <3>2. /\ wars' \in Seq(War) /\ DOMAIN wars' = DOMAIN wars
          /\ wars'[x].attacker = wars[x].attacker /\ wars'[x].defender = wars[x].defender
          /\ wars'[x].status = status /\ wars'[x].score = score
          /\ \A w \in DOMAIN wars \ {x} : wars'[w] = wars[w]
      BY <1>2, <3>1, RowChanged
    <3> QED
      BY <3>2 DEF status, score
<1>4. \A w \in DOMAIN wars : wars'[w].status \in Military!Open => wars[w].status \in Military!Open
  BY <1>3 DEF Military!Open
<1>5. WarTypes'
  BY <1>1, <1>3 DEF WarInv, WarTypes, Declares, DeclarationType, Fights, AttackType
<1>6. Looked'
  BY <1>1, <1>3, <1>4 DEF WarInv, WarTypes, Declares, DeclarationType, Looked, Rivals
<1>7. OneOpenWar'
  <2> SUFFICES ASSUME NEW v \in DOMAIN wars', NEW w \in DOMAIN wars', v < w,
                      {wars'[v].status, wars'[w].status} \subseteq Military!Open,
                      {wars'[v].attacker, wars'[v].defender} = {wars'[w].attacker, wars'[w].defender}
               PROVE  <<v, w>> \in unaware' \/ {v, w} \cap revived' # {}
    BY DEF OneOpenWar, Military!OneOpenWar
  <2>1. /\ {wars[v].status, wars[w].status} \subseteq Military!Open
        /\ {wars[v].attacker, wars[v].defender} = {wars[w].attacker, wars[w].defender}
    BY <1>3, <1>4
  <2> QED
    BY <1>1, <1>3, <2>1 DEF WarInv, OneOpenWar, Military!OneOpenWar
<1>8. Attacking' /\ Scores'
  BY <1>1, <1>3 DEF WarInv, WarTypes, Attacking, Scores, Fights, AttackType
<1> QED
  BY <1>5, <1>6, <1>7, <1>8 DEF WarInv

LEMMA WarStep == ASSUME WarInv, [Next]_vars PROVE WarInv'
<1>1. CASE UNCHANGED military
  <2>1. /\ wars' = wars /\ battles' = battles /\ req' = req /\ unaware' = unaware
        /\ revived' = revived /\ crowded' = crowded
    BY <1>1 DEF military
  <2>2. WarTypes'
    BY <2>1 DEF WarInv, WarTypes, Declares, DeclarationType, Fights, AttackType
  <2>3. Looked' /\ OneOpenWar'
    BY <2>1 DEF WarInv, Looked, Declares, Rivals, OneOpenWar, Military!OneOpenWar
  <2>4. Attacking' /\ Scores'
    BY <2>1 DEF WarInv, Attacking, Scores, Fights
  <2> QED
    BY <2>2, <2>3, <2>4 DEF WarInv
<1>2. ASSUME NEW t \in Txn, NEW a \in Country, NEW d \in Country, Military!DeclareWar(t, a, d)
      PROVE  WarInv'
  <2> DEFINE r == [pc |-> "insert", attacker |-> a, defender |-> d, saw |-> DOMAIN wars]
  <2>1. UNCHANGED <<wars, battles, unaware, revived, crowded>> /\ req' = [req EXCEPT ![t] = r]
    BY <1>2 DEF Military!DeclareWar, Military!history
  <2>2. req'[t] = r
    BY <2>1 DEF WarInv, WarTypes
  <2>3. ~ \E w \in DOMAIN wars :
            wars[w].status \in Military!Open /\ Rivals(req'[t].attacker, req'[t].defender, w)
    BY <1>2, <2>2 DEF Military!DeclareWar, Military!OpenWar, Rivals
  <2>4. req'[t].pc = "insert" /\ DeclarationType(t)'
    BY <2>1, <2>2 DEF DeclarationType
  <2>5. req' = [req EXCEPT ![t] = req'[t]]
    BY <2>1, <2>2
  <2> HIDE DEF r
  <2>6. Goes(t)
    BY <2>1, <2>3, <2>4, <2>5 DEF Goes
  <2> QED
    BY <2>6, GoesKeepsWars
<1>3. ASSUME NEW t \in Txn, Military!SelectUnits(t) \/ Military!UpdateUnits(t)
      PROVE  WarInv'
  <2>1. UNCHANGED <<wars, battles, unaware, revived, crowded>> /\ Fights(t) /\ AttackType(t)
    BY <1>3 DEF Military!SelectUnits, Military!UpdateUnits, Military!history, Fights, WarInv, WarTypes
  <2>2. PICK pc \in {"select", "update", "finish"} : \E side, seen :
          req' = [req EXCEPT ![t] = [pc |-> pc, war |-> req[t].war, status |-> req[t].status,
                                     score |-> req[t].score, side |-> side, seen |-> seen]]
    <3>1. CASE Military!SelectUnits(t)
      <4>1. PICK seen : req' = [req EXCEPT ![t].pc = "update", ![t].seen = seen]
        BY <3>1 DEF Military!SelectUnits
      <4>2. req' = [req EXCEPT ![t] = [pc |-> "update", war |-> req[t].war, status |-> req[t].status,
                                       score |-> req[t].score, side |-> req[t].side, seen |-> seen]]
        <5>1. [req[t] EXCEPT !.pc = "update", !.seen = seen]
                = [pc |-> "update", war |-> req[t].war, status |-> req[t].status,
                   score |-> req[t].score, side |-> req[t].side, seen |-> seen]
          <6>1. PICK pc, war, status, score, side, old :
                  req[t] = [pc |-> pc, war |-> war, status |-> status, score |-> score, side |-> side,
                            seen |-> old]
            BY <2>1 DEF AttackType
          <6>2. [req[t] EXCEPT !.pc = "update", !.seen = seen]
                  = [[[pc |-> pc, war |-> war, status |-> status, score |-> score, side |-> side,
                       seen |-> old] EXCEPT !.pc = "update"] EXCEPT !.seen = seen]
            BY <6>1
          <6>3. [[pc |-> pc, war |-> war, status |-> status, score |-> score, side |-> side,
                  seen |-> old] EXCEPT !.pc = "update"]
                = [pc |-> "update", war |-> war, status |-> status, score |-> score, side |-> side,
                   seen |-> old]
            OBVIOUS
          <6>4. [[pc |-> "update", war |-> war, status |-> status, score |-> score, side |-> side,
                  seen |-> old] EXCEPT !.seen = seen]
                = [pc |-> "update", war |-> war, status |-> status, score |-> score, side |-> side,
                   seen |-> seen]
            OBVIOUS
          <6> QED
            BY <6>1, <6>2, <6>3, <6>4
        <5>2. req' = [req EXCEPT ![t] = [req[t] EXCEPT !.pc = "update", !.seen = seen]]
          BY <4>1 DEF WarInv, WarTypes
        <5> QED
          BY <5>1, <5>2
      <4> QED
        BY <4>2
    <3>2. CASE Military!UpdateUnits(t)
      BY <2>1, <3>2 DEF Military!UpdateUnits, AttackType, WarInv, WarTypes
    <3> QED
      BY <1>3, <3>1, <3>2
  <2>3. PICK side, seen :
          req' = [req EXCEPT ![t] = [pc |-> pc, war |-> req[t].war, status |-> req[t].status,
                                     score |-> req[t].score, side |-> side, seen |-> seen]]
    BY <2>2
  <2>4. req'[t] = [pc |-> pc, war |-> req[t].war, status |-> req[t].status,
                   score |-> req[t].score, side |-> side, seen |-> seen]
    BY <2>3 DEF WarInv, WarTypes
  <2>5. AttackType(t)' /\ Fights(t)' /\ req'[t].war = req[t].war /\ req'[t].score = req[t].score
    BY <2>1, <2>4 DEF AttackType, Fights
  <2>6. Goes(t)
    BY <2>1, <2>3, <2>4, <2>5 DEF Goes
  <2> QED
    BY <2>6, GoesKeepsWars
<1>4. ASSUME NEW t \in Txn, Military!DeadlockVictim(t) \/ Military!Fail(t)
      PROVE  WarInv'
  <2>1. UNCHANGED <<wars, battles, unaware, revived, crowded>> /\ req' = [req EXCEPT ![t] = [pc |-> "idle"]]
    BY <1>4 DEF Military!DeadlockVictim, Military!Fail, Military!Abort, Military!Ends, Military!Idle,
                Military!history
  <2>2. Goes(t)
    BY <2>1 DEF Goes, WarInv, WarTypes
  <2> QED
    BY <2>2, GoesKeepsWars
<1> QED
  BY <1>1, <1>2, <1>3, <1>4, InsertKeepsWars, AttackKeepsWars, FinishKeepsWars, EndKeepsWars
     DEF Next, vars, Military!Next, Military!Step

LEMMA WarInvHolds == Spec => []WarInv
<1>1. Init => WarInv
  <2> SUFFICES ASSUME Init PROVE WarInv
    OBVIOUS
  <2>1. wars = <<>> /\ battles = <<>> /\ req = [t \in Txn |-> [pc |-> "idle"]]
    BY DEF Init, Military!Init, Military!Idle
  <2>2. WarTypes
    BY <2>1 DEF WarTypes, Declares, Fights
  <2> QED
    BY <2>1, <2>2 DEF WarInv, Looked, OneOpenWar, Military!OneOpenWar, Attacking, Scores, Declares, Fights
<1> QED
  BY <1>1, WarStep, PTL DEF Spec

(* Two countries have one open war, for any number of declarations, attacks    *)
(* and ends of wars in flight, unless two declarations overlapped or an attack *)
(* made an ended war active again.                                             *)
(* (WarService.declare_war, attack; war_service.py:65)                         *)
THEOREM OpenWarsAreOne == Spec => []OneOpenWar
<1>1. WarInv => OneOpenWar
  BY DEF WarInv
<1> QED
  BY <1>1, WarInvHolds, PTL

(* A score is the number of battles recorded as victories, for any number of   *)
(* wars, battles and attacks in flight, and never more even if the attacks of  *)
(* a war overlapped.  (WarService.attack)                                      *)
THEOREM ScoresAreCounted == Spec => []ScoresAreBattles
<1>1. WarInv => ScoresAreBattles
  <2>1. \A w, s : Military!Victories(w, s) = Count(battles, Victory(w, s))
    BY MilitaryCardinality DEF Military!Victories, Count, Victory
  <2> QED
    BY <2>1 DEF WarInv, Scores, ScoresAreBattles, Military!ScoresAreBattles
<1> QED
  BY <1>1, WarInvHolds, PTL
=============================================================================
