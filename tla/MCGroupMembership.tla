-------------------------- MODULE MCGroupMembership --------------------------
(* Instances of GroupMembership for TLC. *)
EXTENDS GroupMembership, TLC

CONSTANTS l1, l2, r1, n1, n2

\* The session elsewhere asks for the name of one on the broker's computer.
MCNameOf == [s \in Sessions |-> IF s = l1 THEN {n1} ELSE {n2}]

=============================================================================
