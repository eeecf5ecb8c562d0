------------------------ MODULE MCPursuitDependency ------------------------
(***************************************************************************)
(* PursuitDependency on small instances.  Pursuits are interchangeable     *)
(* model values.                                                           *)
(***************************************************************************)
EXTENDS PursuitDependency, TLC

Symmetry == Permutations(Pursuits)
=============================================================================
