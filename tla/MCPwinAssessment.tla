-------------------------- MODULE MCPwinAssessment --------------------------
(***************************************************************************)
(* PwinAssessment on small instances; the configurations give the bounds.  *)
(***************************************************************************)
EXTENDS PwinAssessment
=============================================================================
