-------------------------- MODULE MCPursuitEditing --------------------------
(* Two pursuits, the second may depend on the first; two editors.          *)
EXTENDS PursuitEditing, TLC

MCPredecessor == [p \in {"p2"} |-> "p1"]
MCPursuits == {"p1", "p2"}
MCSymmetry == Permutations(Editors)
=============================================================================
