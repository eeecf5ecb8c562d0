----------------------------- MODULE MCOrgScope -----------------------------
(* A business with two units, the first with one division; an executive of *)
(* the whole and a manager of the second unit; one pursuit.                *)
EXTENDS OrgScope

MCNodes  == {"corp", "space", "air", "sensors"}
MCParent == [n \in MCNodes \ {"corp"} |-> IF n = "sensors" THEN "space" ELSE "corp"]
MCFirstGrants == [u \in {"eve", "max"} |-> IF u = "eve" THEN {"corp"} ELSE {"air"}]
MCFirstHome == [p \in {"p1"} |-> "air"]
=============================================================================
