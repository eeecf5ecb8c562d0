---------------------------- MODULE MCUserAdmin ----------------------------
(* A root node with one below it, the administrator of the root and an     *)
(* account that does not exist yet.                                        *)
EXTENDS UserAdmin

MCBelow       == [n \in {1, 2} |-> IF n = 1 THEN {1, 2} ELSE {2}]
MCFirstGrants == [u \in {"anna"} |-> {[node |-> 1, role |-> "admin"]}]
=============================================================================
