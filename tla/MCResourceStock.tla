-------------------------- MODULE MCResourceStock ---------------------------
(* Small instances of ResourceStock. *)
EXTENDS ResourceStock

\* One unit of both keys, or of one of them.
SomeKey == CHOOSE k \in Key : TRUE
MCBill == {f \in [Key -> 0 .. 1] : f[SomeKey] = 1}

\* The stocks of the countries that share theirs only fall.
FewGrants == [c \in Country |-> IF c \in Shared THEN 0 ELSE 2]
OneGrant == [c \in Country |-> 2]
=============================================================================
