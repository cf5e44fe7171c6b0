---------------------------- MODULE MCDevelopment ---------------------------
(* A small instance of Development: a technology to begin with and one that *)
(* needs it, a starting building, one that needs both technologies, and a   *)
(* unit that needs that one.                                                *)
EXTENDS Development

MCTech == {"steel", "robots"}
MCRequires == [k \in MCTech |-> IF k = "robots" THEN {"steel"} ELSE {}]
MCBuilding == {"farm", "mill"}
MCUnit == {"tank"}
MCItem == MCBuilding \cup MCUnit
MCNeedsTech == [i \in MCItem |-> IF i = "mill" THEN MCTech ELSE {}]
MCNeedsBuilding == [i \in MCItem |-> IF i = "tank" THEN {"mill"} ELSE {}]
MCStart == << "farm" >>
=============================================================================
