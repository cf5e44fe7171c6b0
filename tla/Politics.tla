------------------------------ MODULE Politics ------------------------------
(***************************************************************************)
(* The routers military and social, which serve the wars, alliances and    *)
(* relations of the countries side by side.  They share no row of the      *)
(* database.                                                               *)
(***************************************************************************)
EXTENDS Integers, FiniteSets, Sequences

CONSTANTS Country, WorldOf, Txn, NoTxn, Army, MaxLoss, MaxWars, MaxBattles, Relation, MaxAlliances

ASSUME PoliticsAssumption ==
  /\ IsFiniteSet(Country) /\ Country \subseteq Nat
  /\ IsFiniteSet(Txn) /\ NoTxn \notin Txn
  /\ {Army, MaxLoss, MaxWars, MaxBattles, MaxAlliances} \subseteq Nat

VARIABLES units, holder, pending, wars, battles, req, unaware, revived, crowded,
          founded, member, relation, office, hasty

Military == INSTANCE Wars
Social == INSTANCE Alliances

military == <<units, holder, pending, wars, battles, req, unaware, revived, crowded>>
social == <<founded, member, relation, office, hasty>>
vars == <<military, social>>

Init == Military!Init /\ Social!Init
Next ==
  \/ Military!Next /\ UNCHANGED social
  \/ Social!Next /\ UNCHANGED military

Spec == Init /\ [][Next]_vars

-----------------------------------------------------------------------------
\* Bound: a behaviour is followed while it is only about wars, only about
\* alliances or only about relations, since none of them reads the others' rows.
AtWar == wars # <<>> \/ \E t \in Txn : Military!Active(t)
Allying == founded # <<>> \/ hasty # {} \/ \E t \in Txn : office[t].pc \in {"found", "join", "leave"}
Relating == relation # {} \/ \E t \in Txn : office[t].pc = "relate"
OneAffair == ~(AtWar /\ (Allying \/ Relating)) /\ ~(Allying /\ Relating)

\* The properties of the two parts, which they state.
OneOpenWar == Military!OneOpenWar
ScoresAreBattles == Military!ScoresAreBattles
OneAlliance == Social!OneAlliance
OneRelation == Social!OneRelation
=============================================================================
