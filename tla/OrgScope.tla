------------------------------ MODULE OrgScope ------------------------------
(* The org tree as the different resolvers see it: where a pursuit may be  *)
(* moved, who may own it, whose targets may be written and what a          *)
(* dashboard sums (api/app/plan_scope.py; its callers in write.py,         *)
(* portfolio.py and bootstrap.py; ddl/07_scope.sql).                       *)
(*                                                                         *)
(* Each request is one transaction without an await, hence one action.     *)
(* Grants change through user administration, and nodes are switched on    *)
(* and off in the database, between any two requests.                      *)
EXTENDS Naturals, FiniteSets

CONSTANTS
    Nodes, Root,  \* the org tree: a business,
    Parent,       \* its units and their divisions
    Divisions,
    Boundary,     \* the units that are license boundaries
    Users, Pursuits,
    FirstGrants,  \* the nodes each user is assigned to at first
    FirstHome,    \* where each pursuit is at first
    MaxSwitches,  \* bound: nodes switched on or off
    MaxGrants     \* bound: nodes assigned to one account

ASSUME TreeAssumption ==
    /\ Root \in Nodes /\ Parent \in [Nodes \ {Root} -> Nodes]
    /\ Divisions \subseteq Nodes \ {Root} /\ Boundary \subseteq Nodes \ Divisions
    /\ \A n \in Nodes \ {Root} : n \in Divisions <=> Parent[n] # Root
    /\ \A n \in Divisions : Parent[n] \notin Divisions
    /\ IsFiniteSet(Nodes)
    /\ MaxSwitches \in Nat /\ MaxGrants \in Nat

VARIABLES
    active,    \* the nodes that are
    enabled,   \* the users that are
    granted,   \* the nodes each user is assigned to
    home,      \* the node of each pursuit
    owner,     \* its owner, if it has one
    answer,    \* whose targets the last request summed or wrote, for whom
    switches
vars == <<active, enabled, granted, home, owner, answer, switches>>

Nobody   == "nobody"

ASSUME FirstAssumption ==
    /\ FirstGrants \in [Users -> SUBSET Nodes]
    /\ FirstHome \in [Pursuits -> Nodes \ {Root}]
    /\ Nobody \notin Users

NoAnswer == [to |-> Nobody, op |-> "none", nodes |-> {}]

TypeOK ==
    /\ active \subseteq Nodes /\ enabled \subseteq Users
    /\ granted \in [Users -> SUBSET Nodes]
    /\ home \in [Pursuits -> Nodes \ {Root}]
    /\ owner \in [Pursuits -> Users \cup {Nobody}]
    /\ \/ answer = NoAnswer
       \/ answer \in [to : Users, op : {"sums"}, nodes : SUBSET Nodes]
       \/ answer \in [to : Users, op : {"writes"}, nodes : {{n} : n \in Boundary \cup {Root}}]
    /\ switches \in 0..MaxSwitches

Init ==
    /\ active = Nodes /\ enabled = Users
    /\ granted = FirstGrants
    /\ home = FirstHome
    /\ owner = [p \in Pursuits |-> Nobody]
    /\ answer = NoAnswer /\ switches = 0
-----------------------------------------------------------------------------
(* A node and its ancestors.                                               *)
Above[n \in Nodes] == {n} \cup (IF n = Root THEN {} ELSE Above[Parent[n]])

(* A node and what lies below it, down to the first inactive one.          *)
Subtree(n) ==
    {m \in Nodes : n \in Above[m] /\ {n} \cup (Above[m] \ Above[n]) \subseteq active}

(* fn_user_visible_org_nodes, fn_user_has_scope.                           *)
Visible(u) == UNION {Subtree(n) : n \in granted[u]}

UnitsInUse(nodes) == {}   \* variant: a unit with divisions may be assigned

WithDivisions(nodes) == {Parent[n] : n \in nodes \cap Divisions}

(* _assignable_candidate_nodes: visible divisions, and visible units none  *)
(* of whose divisions is visible.                                          *)
Assignable(u) == Visible(u) \ (WithDivisions(Visible(u)) \cup {Root})

(* owner_candidates_by_org_node.                                           *)
OwnersAt(n) == {u \in enabled : n \in Visible(u)}

(* resolve_license_boundary_nodes.                                         *)
PlanNodes(u) == Visible(u) \cap (Boundary \cup {Root})

(* resolve_plan_year_node: one node, or the request is refused.            *)
PlanTargets(u, named) == IF named = {} THEN PlanNodes(u) ELSE named \cap PlanNodes(u)

Assigned(u) == granted[u] \cap active   \* user_assigned_nodes

(* resolve_dashboard_node without a node: the highest assigned one.        *)
Depth(n) == Cardinality(Above[n])
Highest(u) == {n \in Assigned(u) : \A m \in Assigned(u) : Depth(n) <= Depth(m)}

AnyActive(u) == active   \* variant: a node that is asked for is not checked

(* _dashboard_candidate_nodes.                                             *)
DashboardNodes(u) == UNION {Subtree(n) : n \in Assigned(u)}

(* resolve_dashboard_node: any of these, or the request is refused.        *)
DashboardAnchors(u, named) ==
    IF named = {} THEN Highest(u) ELSE named \cap DashboardNodes(u)
-----------------------------------------------------------------------------
OldNode(p, unit) == home[p]   \* variant: the owner is judged by the old node

Target(p, unit) == IF unit = {} THEN home[p] ELSE CHOOSE n \in unit : TRUE

(* The org unit and the owner in a PATCH; unit and who hold what the       *)
(* request names, nothing or one each, and naming nobody clears the owner. *)
PatchUnitAndOwner(u, p, unit, who) ==
    /\ home[p] \in Visible(u)
    /\ unit \cup who # {}
    /\ unit \subseteq Assignable(u)
    /\ who \ {Nobody} \subseteq OwnersAt(Target(p, unit))
    /\ home' = [home EXCEPT ![p] = IF unit = {} THEN @ ELSE CHOOSE n \in unit : TRUE]
    /\ owner' = [owner EXCEPT ![p] = IF who = {} THEN @ ELSE CHOOSE o \in who : TRUE]
    /\ answer' = NoAnswer
    /\ UNCHANGED <<active, enabled, granted, switches>>

(* put_plan_year: the node that is named, or the only one there is.        *)
PutPlanYear(u, named) ==
    /\ Cardinality(PlanTargets(u, named)) = 1
    /\ answer' = [to |-> u, op |-> "writes", nodes |-> PlanTargets(u, named)]
    /\ UNCHANGED <<active, enabled, granted, home, owner, switches>>

(* bootstrap: the targets of the node the page has selected, or of the     *)
(* user's highest, and of everything below.                                *)
Bootstrap(u, named) ==
    /\ \E n \in DashboardAnchors(u, named) :
          answer' = [to |-> u, op |-> "sums", nodes |-> Subtree(n)]
    /\ UNCHANGED <<active, enabled, granted, home, owner, switches>>

(* User administration: somebody who sees the account grants it what they  *)
(* see themselves.  Their session may be older than their deactivation.    *)
Regrant(u) ==
    /\ \E admin \in Users : \E nodes \in (SUBSET Visible(admin)) \ {{}} :
          /\ granted[u] \cap Visible(admin) # {}
          /\ Cardinality(nodes) <= MaxGrants
          /\ granted' = [granted EXCEPT ![u] = nodes]
    /\ answer' = NoAnswer
    /\ UNCHANGED <<active, enabled, home, owner, switches>>

SwitchUser(u) ==
    /\ enabled' = IF u \in enabled THEN enabled \ {u} ELSE enabled \cup {u}
    /\ answer' = NoAnswer
    /\ UNCHANGED <<active, granted, home, owner, switches>>

(* A unit is shut or opened again in the database.                         *)
SwitchNode(n) ==
    /\ switches < MaxSwitches /\ switches' = switches + 1
    /\ active' = IF n \in active THEN active \ {n} ELSE active \cup {n}
    /\ answer' = NoAnswer
    /\ UNCHANGED <<enabled, granted, home, owner>>

AtMostOne(S) == {{}} \cup {{x} : x \in S}

Next ==
    \/ \E u \in Users :
          \/ \E p \in Pursuits, unit \in AtMostOne(Nodes),
                who \in AtMostOne(Users \cup {Nobody}) : PatchUnitAndOwner(u, p, unit, who)
          \/ \E named \in AtMostOne(Nodes) : PutPlanYear(u, named) \/ Bootstrap(u, named)
          \/ Regrant(u) \/ SwitchUser(u)
    \/ \E n \in Nodes : SwitchNode(n)

Spec == Init /\ [][Next]_vars
-----------------------------------------------------------------------------
Leaf(n) == n # Root /\ \A d \in active \cap Divisions : Parent[d] # n

(* Whoever moves a pursuit, and however narrow their scope: it goes to an  *)
(* active node with no active division below it, and they still see it     *)
(* (plan_scope.py:293-320).                                                *)
MovesGoToVisibleLeaves ==
    [][\A p \in Pursuits : home'[p] # home[p] =>
          /\ Leaf(home'[p]) /\ home'[p] \in active
          /\ \E u \in Users : {home[p], home'[p]} \subseteq Visible(u)]_vars

(* Whoever becomes the owner of a pursuit sees it, also when the request   *)
(* that names them moves the pursuit (write.py:295-312).                   *)
NewOwnersSeeTheirPursuit ==
    [][\A p \in Pursuits :
          LET new == owner'[p] IN
          new \notin {owner[p], Nobody} => new \in enabled /\ home'[p] \in Visible(new)]_vars

(* The targets a dashboard sums, or a manager writes, are not filtered     *)
(* again by scope: a node selected before a grant was withdrawn or a unit  *)
(* was shut must be refused, and what lies below an accepted one be in     *)
(* scope (plan_scope.py:223-238, bootstrap.py:215-226).                    *)
RollupStaysInScope == answer # NoAnswer => answer.nodes \subseteq Visible(answer.to)

(* The default dashboard shows the user's own full scope, summed, as       *)
(* resolve_dashboard_node says (plan_scope.py:201-204).  The code does not *)
(* keep it: a user may be assigned beside their highest node, too.         *)
DefaultShowsFullScope ==
    \A u \in Users : Cardinality(Highest(u)) = 1 =>
        \A n \in Highest(u) : Subtree(n) = Visible(u)
=============================================================================
