--------------------------- MODULE OrgScope_proofs ---------------------------
(* What the resolvers of the org tree agree on, for every tree, every set  *)
(* of users and pursuits and every bound: what a dashboard sums is in      *)
(* scope, pursuits move to visible leaves and new owners see what they own.*)
EXTENDS OrgScope, TLAPS, FiniteSetTheorems
-----------------------------------------------------------------------------
(* The tree has three levels at most, so that the ancestors of a node can  *)
(* be listed and the recursion of Above has a solution.                    *)
LEMMA AboveOf ==
    \A n \in Nodes : Above[n] = {n} \cup (IF n = Root THEN {} ELSE Above[Parent[n]])
<1> DEFINE Body(f, n) == {n} \cup (IF n = Root THEN {} ELSE f[Parent[n]])
           Up == [n \in Nodes |->
                    {n, Root} \cup (IF n \in Divisions THEN {Parent[n]} ELSE {})]
<1>1. Up = [n \in Nodes |-> Body(Up, n)]
  <2>1. ASSUME NEW n \in Nodes PROVE Up[n] = Body(Up, n)
    <3>1. CASE n = Root
      BY <3>1, TreeAssumption
    <3>2. CASE n # Root /\ n \notin Divisions
      BY <3>2, TreeAssumption
    <3>3. CASE n # Root /\ n \in Divisions
      <4>1. Parent[n] \in Nodes /\ Parent[n] # Root /\ Parent[n] \notin Divisions
        BY <3>3, TreeAssumption
      <4>2. Up[Parent[n]] = {Parent[n], Root}
        BY <4>1
      <4> QED BY <3>3, <4>2
    <3> QED BY <3>1, <3>2, <3>3
  <2> QED BY <2>1
<1>2. Above = CHOOSE f : f = [n \in Nodes |-> Body(f, n)]
  BY DEF Above
<1> HIDE DEF Up
<1>3. Above = [n \in Nodes |-> Body(Above, n)]
  BY <1>1, <1>2
<1> QED BY <1>3

(* The ancestors, listed.                                                  *)
LEMMA AboveListed ==
    /\ Above[Root] = {Root}
    /\ \A n \in Nodes \ {Root} : n \notin Divisions => Above[n] = {n, Root}
    /\ \A n \in Divisions : Above[n] = {n, Parent[n], Root}
<1>1. Above[Root] = {Root}
  BY AboveOf, TreeAssumption
<1>2. ASSUME NEW n \in Nodes \ {Root}, n \notin Divisions PROVE Above[n] = {n, Root}
  BY <1>1, <1>2, AboveOf, TreeAssumption
<1>3. ASSUME NEW n \in Divisions PROVE Above[n] = {n, Parent[n], Root}
  <2>1. Parent[n] \in Nodes \ {Root} /\ Parent[n] \notin Divisions
    BY <1>3, TreeAssumption
  <2>2. Above[Parent[n]] = {Parent[n], Root}
    BY <1>2, <2>1
  <2> QED BY <2>2, AboveOf, TreeAssumption
<1> QED BY <1>1, <1>2, <1>3

(* Being above is reflexive, transitive and antisymmetric.                 *)
LEMMA AboveIsAnOrder ==
    ASSUME NEW k \in Nodes
    PROVE  /\ k \in Above[k] /\ Above[k] \subseteq Nodes
           /\ \A m \in Above[k] : Above[m] \subseteq Above[k]
           /\ \A m \in Above[k] : k \in Above[m] => k = m
<1>1. CASE k = Root
  BY <1>1, AboveListed, TreeAssumption
<1>2. CASE k # Root /\ k \notin Divisions
  BY <1>2, AboveListed, TreeAssumption
<1>3. CASE k # Root /\ k \in Divisions
  <2>1. Parent[k] \in Nodes \ {Root} /\ Parent[k] \notin Divisions
    BY <1>3, TreeAssumption
  <2>2. Above[k] = {k, Parent[k], Root} /\ Above[Parent[k]] = {Parent[k], Root}
    BY <1>3, <2>1, AboveListed
  <2> QED BY <1>3, <2>1, <2>2, AboveListed, TreeAssumption
<1> QED BY <1>1, <1>2, <1>3

(* What lies below a node that lies below another lies below that.         *)
LEMMA SubtreesNest ==
    ASSUME NEW n \in Nodes, NEW m \in Subtree(n)
    PROVE  Subtree(m) \subseteq Subtree(n)
<1>1. m \in Nodes /\ n \in Above[m] /\ {n} \cup (Above[m] \ Above[n]) \subseteq active
  BY DEF Subtree
<1> SUFFICES ASSUME NEW k \in Subtree(m) PROVE k \in Subtree(n)
  OBVIOUS
<1>2. k \in Nodes /\ m \in Above[k] /\ {m} \cup (Above[k] \ Above[m]) \subseteq active
  BY DEF Subtree
<1>3. Above[m] \subseteq Above[k]
  BY <1>2, AboveIsAnOrder
<1> QED BY <1>1, <1>2, <1>3 DEF Subtree

(* A node below another is active, and so are its active divisions below   *)
(* that other node.                                                        *)
LEMMA SubtreesAreActive ==
    ASSUME NEW n \in Nodes PROVE Subtree(n) \subseteq active
<1> SUFFICES ASSUME NEW m \in Subtree(n) PROVE m \in active
  OBVIOUS
<1>1. m \in Nodes /\ n \in Above[m] /\ {n} \cup (Above[m] \ Above[n]) \subseteq active
  BY DEF Subtree
<1>2. m \in Above[m]
  BY <1>1, AboveIsAnOrder
<1>3. m \in Above[n] => n = m
  BY <1>1, AboveIsAnOrder
<1> QED BY <1>1, <1>2, <1>3

LEMMA ActiveDivisionsAreSeen ==
    ASSUME NEW u \in Users, granted[u] \subseteq Nodes,
           NEW d \in active \cap Divisions, Parent[d] \in Visible(u)
    PROVE  d \in Visible(u)
<1>1. PICK g \in granted[u] : Parent[d] \in Subtree(g)
  BY DEF Visible
<1>2. /\ Parent[d] \in Nodes /\ g \in Above[Parent[d]]
      /\ {g} \cup (Above[Parent[d]] \ Above[g]) \subseteq active
  BY <1>1 DEF Subtree
<1>3. d \in Nodes /\ Above[d] = {d} \cup Above[Parent[d]]
  BY AboveOf, TreeAssumption
<1>4. d \in Subtree(g)
  BY <1>2, <1>3 DEF Subtree
<1> QED BY <1>1, <1>4 DEF Visible
-----------------------------------------------------------------------------
(* The invariant: the variables keep their types, and nothing a dashboard  *)
(* sums or a manager writes lies outside the scope it was asked in.        *)
ScopeInv == TypeOK /\ RollupStaysInScope

LEMMA VisibleNodes ==
    ASSUME TypeOK, NEW u \in Users
    PROVE  granted[u] \subseteq Nodes /\ Visible(u) \subseteq Nodes
BY DEF TypeOK, Visible, Subtree

(* A request names nothing or one thing.                                   *)
LEMMA ChooseNamed == ASSUME NEW x PROVE (CHOOSE y \in {x} : TRUE) = x
OBVIOUS

LEMMA TargetIsNamed ==
    ASSUME TypeOK, NEW u \in Users, NEW p \in Pursuits, NEW unit \in AtMostOne(Nodes),
           NEW who \in AtMostOne(Users \cup {Nobody}), PatchUnitAndOwner(u, p, unit, who)
    PROVE  /\ home' = [home EXCEPT ![p] = Target(p, unit)]
           /\ unit = {} => Target(p, unit) = home[p]
           /\ unit # {} => Target(p, unit) \in Assignable(u)
           /\ Target(p, unit) \in Nodes \ {Root}
<1>1. home' = [home EXCEPT ![p] = Target(p, unit)]
  BY DEF PatchUnitAndOwner, Target, TypeOK
<1>2. unit = {} => Target(p, unit) = home[p]
  BY DEF Target
<1>3. unit # {} => Target(p, unit) \in unit
  BY ChooseNamed DEF Target, AtMostOne
<1>4. unit \subseteq Assignable(u) /\ Assignable(u) \subseteq Nodes \ {Root}
  BY VisibleNodes DEF PatchUnitAndOwner, Assignable
<1>5. home[p] \in Nodes \ {Root}
  BY DEF TypeOK
<1> QED BY <1>1, <1>2, <1>3, <1>4, <1>5

LEMMA ScopeInit == Init => ScopeInv
BY TreeAssumption, FirstAssumption
   DEF Init, ScopeInv, TypeOK, RollupStaysInScope, Nobody, NoAnswer

(* Moving a pursuit and naming its owner.                                  *)
LEMMA PatchKeepsScope ==
    ASSUME ScopeInv, NEW u \in Users, NEW p \in Pursuits, NEW unit \in AtMostOne(Nodes),
           NEW who \in AtMostOne(Users \cup {Nobody}), PatchUnitAndOwner(u, p, unit, who)
    PROVE  ScopeInv'
<1>1. home' \in [Pursuits -> Nodes \ {Root}]
  BY TargetIsNamed DEF ScopeInv, TypeOK
<1>2. who # {} => (CHOOSE o \in who : TRUE) \in Users \cup {Nobody}
  BY ChooseNamed DEF AtMostOne
<1>3. owner' \in [Pursuits -> Users \cup {Nobody}]
  BY <1>2 DEF PatchUnitAndOwner, ScopeInv, TypeOK
<1> QED BY <1>1, <1>3 DEF PatchUnitAndOwner, ScopeInv, TypeOK, RollupStaysInScope

(* Writing the targets of the one node a plan may be written for.          *)
LEMMA PlanYearKeepsScope ==
    ASSUME ScopeInv, NEW u \in Users, NEW named \in AtMostOne(Nodes), PutPlanYear(u, named)
    PROVE  ScopeInv'
<1> DEFINE S == PlanTargets(u, named)
<1>1. S \subseteq Visible(u) /\ S \subseteq Boundary \cup {Root} /\ S \subseteq Nodes
  BY VisibleNodes DEF PlanTargets, PlanNodes, ScopeInv
<1>2. IsFiniteSet(S)
  BY <1>1, TreeAssumption, FS_Subset
<1>3. PICK n : S = {n}
  BY <1>2, FS_Singleton DEF PutPlanYear
<1>4. S \in {{m} : m \in Boundary \cup {Root}}
  BY <1>1, <1>3
<1>5. answer' = [to |-> u, op |-> "writes", nodes |-> S]
      /\ UNCHANGED <<active, enabled, granted, home, owner, switches>>
  BY DEF PutPlanYear
<1>6. RollupStaysInScope'
  BY <1>1, <1>5 DEF RollupStaysInScope, Visible, Subtree
<1>7. TypeOK'
  BY <1>4, <1>5 DEF ScopeInv, TypeOK
<1> QED BY <1>6, <1>7 DEF ScopeInv

(* Summing the targets at a dashboard's node and of everything below it.   *)
LEMMA BootstrapKeepsScope ==
    ASSUME ScopeInv, NEW u \in Users, NEW named \in AtMostOne(Nodes), Bootstrap(u, named)
    PROVE  ScopeInv'
<1>1. PICK n \in DashboardAnchors(u, named) :
         answer' = [to |-> u, op |-> "sums", nodes |-> Subtree(n)]
  BY DEF Bootstrap
<1>2. UNCHANGED <<active, enabled, granted, home, owner, switches>>
  BY DEF Bootstrap
<1>3. PICK g \in Assigned(u) : n = g \/ n \in Subtree(g)
  BY DEF DashboardAnchors, Highest, DashboardNodes
<1>4. g \in granted[u] /\ g \in Nodes
  BY <1>3, VisibleNodes DEF Assigned, ScopeInv
<1>5. Subtree(n) \subseteq Subtree(g)
  BY <1>3, <1>4, SubtreesNest
<1>6. Subtree(n) \subseteq Visible(u)
  BY <1>4, <1>5 DEF Visible
<1>7. RollupStaysInScope'
  BY <1>1, <1>2, <1>6 DEF RollupStaysInScope, Visible, Subtree
<1>8. Subtree(n) \in SUBSET Nodes
  BY DEF Subtree
<1>9. TypeOK'
  BY <1>1, <1>2, <1>8 DEF ScopeInv, TypeOK
<1> QED BY <1>7, <1>9 DEF ScopeInv

LEMMA ScopeStep == ScopeInv /\ [Next]_vars => ScopeInv'
<1> SUFFICES ASSUME ScopeInv, [Next]_vars PROVE ScopeInv'
  OBVIOUS
<1>1. ASSUME NEW u \in Users, NEW p \in Pursuits, NEW unit \in AtMostOne(Nodes),
             NEW who \in AtMostOne(Users \cup {Nobody}), PatchUnitAndOwner(u, p, unit, who)
      PROVE  ScopeInv'
  BY <1>1, PatchKeepsScope
<1>2. ASSUME NEW u \in Users, NEW named \in AtMostOne(Nodes), PutPlanYear(u, named)
      PROVE  ScopeInv'
  BY <1>2, PlanYearKeepsScope
<1>3. ASSUME NEW u \in Users, NEW named \in AtMostOne(Nodes), Bootstrap(u, named)
      PROVE  ScopeInv'
  BY <1>3, BootstrapKeepsScope
<1>4. ASSUME NEW u \in Users, Regrant(u) PROVE ScopeInv'
  <2>1. PICK admin \in Users : \E nodes \in (SUBSET Visible(admin)) \ {{}} :
           granted' = [granted EXCEPT ![u] = nodes]
    BY <1>4 DEF Regrant
  <2>2. Visible(admin) \subseteq Nodes
    BY VisibleNodes DEF ScopeInv, TypeOK
  <2>3. granted' \in [Users -> SUBSET Nodes]
    BY <2>1, <2>2 DEF ScopeInv, TypeOK
  <2> QED BY <1>4, <2>3 DEF Regrant, ScopeInv, TypeOK, RollupStaysInScope
<1>5. ASSUME NEW u \in Users, SwitchUser(u) PROVE ScopeInv'
  BY <1>5 DEF SwitchUser, ScopeInv, TypeOK, RollupStaysInScope
<1>6. ASSUME NEW n \in Nodes, SwitchNode(n) PROVE ScopeInv'
  <2>1. switches' \in 0..MaxSwitches
    BY <1>6, TreeAssumption DEF SwitchNode, ScopeInv, TypeOK
  <2> QED BY <1>6, <2>1 DEF SwitchNode, ScopeInv, TypeOK, RollupStaysInScope
<1>7. CASE UNCHANGED vars
  BY <1>7 DEF vars, ScopeInv, TypeOK, RollupStaysInScope, Visible, Subtree
<1> QED BY <1>1, <1>2, <1>3, <1>4, <1>5, <1>6, <1>7 DEF Next

(* The types of the model hold in every state.                             *)
THEOREM TypeCorrect == Spec => []TypeOK
<1>1. ScopeInv => TypeOK
  BY DEF ScopeInv
<1> QED BY ScopeInit, ScopeStep, <1>1, PTL DEF Spec

(* What a dashboard sums, or a manager writes, is in the scope of the user *)
(* at that moment (plan_scope.py:223-238, bootstrap.py:215-226).           *)
THEOREM RollupInScope == Spec => []RollupStaysInScope
<1>1. ScopeInv => RollupStaysInScope
  BY DEF ScopeInv
<1> QED BY ScopeInit, ScopeStep, <1>1, PTL DEF Spec
-----------------------------------------------------------------------------
(* Only a PATCH of the unit and the owner touches either of them.          *)
LEMMA OnlyPatchMoves ==
    ASSUME [Next]_vars,
           ~ \E u \in Users, p \in Pursuits, unit \in AtMostOne(Nodes),
                who \in AtMostOne(Users \cup {Nobody}) : PatchUnitAndOwner(u, p, unit, who)
    PROVE  UNCHANGED <<home, owner>>
<1>1. ASSUME NEW u \in Users, NEW named \in AtMostOne(Nodes),
             PutPlanYear(u, named) \/ Bootstrap(u, named)
      PROVE  UNCHANGED <<home, owner>>
  BY <1>1 DEF PutPlanYear, Bootstrap
<1>2. ASSUME NEW u \in Users, Regrant(u) \/ SwitchUser(u) PROVE UNCHANGED <<home, owner>>
  BY <1>2 DEF Regrant, SwitchUser
<1>3. ASSUME NEW n \in Nodes, SwitchNode(n) PROVE UNCHANGED <<home, owner>>
  BY <1>3 DEF SwitchNode
<1>4. CASE UNCHANGED vars
  BY <1>4 DEF vars
<1> QED BY <1>1, <1>2, <1>3, <1>4 DEF Next

(* An assignable node is an active leaf of the visible tree, and of the    *)
(* whole tree: a narrow scope never takes a unit for a leaf.               *)
LEMMA AssignableIsALeaf ==
    ASSUME TypeOK, NEW u \in Users, NEW n \in Assignable(u)
    PROVE  Leaf(n) /\ n \in active /\ n \in Visible(u)
<1>1. n \in Visible(u) /\ n \notin WithDivisions(Visible(u)) /\ n # Root
  BY DEF Assignable
<1>2. granted[u] \subseteq Nodes
  BY VisibleNodes
<1>3. n \in active
  BY <1>1, <1>2, SubtreesAreActive DEF Visible
<1>4. ASSUME NEW d \in active \cap Divisions, Parent[d] = n PROVE FALSE
  <2>1. d \in Visible(u)
    BY <1>1, <1>2, <1>4, ActiveDivisionsAreSeen
  <2> QED BY <1>1, <1>4, <2>1 DEF WithDivisions
<1> QED BY <1>1, <1>3, <1>4 DEF Leaf

(* A pursuit goes to an active node without an active division, seen by    *)
(* the one who moves it (plan_scope.py:293-320).                           *)
THEOREM PursuitsMoveToLeaves == Spec => MovesGoToVisibleLeaves
<1> DEFINE Moved(p) ==
             home'[p] # home[p] =>
                /\ Leaf(home'[p]) /\ home'[p] \in active
                /\ \E u \in Users : {home[p], home'[p]} \subseteq Visible(u)
<1>1. ASSUME ScopeInv, [Next]_vars PROVE \A q \in Pursuits : Moved(q)
  <2>1. TypeOK
    BY <1>1 DEF ScopeInv
  <2>2. ASSUME NEW u \in Users, NEW p \in Pursuits, NEW unit \in AtMostOne(Nodes),
               NEW who \in AtMostOne(Users \cup {Nobody}), PatchUnitAndOwner(u, p, unit, who),
               NEW q \in Pursuits, home'[q] # home[q]
        PROVE  /\ Leaf(home'[q]) /\ home'[q] \in active
               /\ {home[q], home'[q]} \subseteq Visible(u)
    <3>1. q = p /\ unit # {} /\ home'[q] = Target(p, unit) /\ home'[q] \in Assignable(u)
      <4>1. /\ home' = [home EXCEPT ![p] = Target(p, unit)]
            /\ unit = {} => Target(p, unit) = home[p]
            /\ unit # {} => Target(p, unit) \in Assignable(u)
        BY <2>1, <2>2, TargetIsNamed
      <4>2. home'[p] = Target(p, unit) /\ (q # p => home'[q] = home[q])
        BY <2>1, <4>1 DEF TypeOK
      <4> QED BY <2>2, <4>1, <4>2
    <3>2. home[p] \in Visible(u)
      BY <2>2 DEF PatchUnitAndOwner
    <3> QED BY <2>1, <3>1, <3>2, AssignableIsALeaf
  <2>3. CASE \E u \in Users, p \in Pursuits, unit \in AtMostOne(Nodes),
                who \in AtMostOne(Users \cup {Nobody}) : PatchUnitAndOwner(u, p, unit, who)
    BY <2>2, <2>3
  <2>4. CASE ~ \E u \in Users, p \in Pursuits, unit \in AtMostOne(Nodes),
                  who \in AtMostOne(Users \cup {Nobody}) : PatchUnitAndOwner(u, p, unit, who)
    BY <1>1, <2>4, OnlyPatchMoves
  <2> QED BY <2>3, <2>4
<1> DEFINE All == \A p \in Pursuits : home'[p] # home[p] =>
          /\ Leaf(home'[p]) /\ home'[p] \in active
          /\ \E u \in Users : {home[p], home'[p]} \subseteq Visible(u)
<1>2. ScopeInv /\ [Next]_vars => All
  BY <1>1
<1> QED BY ScopeInit, ScopeStep, <1>2, PTL DEF Spec, MovesGoToVisibleLeaves

(* Who becomes the owner of a pursuit may sign in and sees it where it is  *)
(* after the request (write.py:295-312).                                   *)
THEOREM OwnersSeeWhatTheyGet == Spec => NewOwnersSeeTheirPursuit
<1> DEFINE Given(p) ==
             LET new == owner'[p] IN
             new \notin {owner[p], Nobody} => new \in enabled /\ home'[p] \in Visible(new)
<1>1. ASSUME ScopeInv, [Next]_vars PROVE \A q \in Pursuits : Given(q)
  <2>1. TypeOK
    BY <1>1 DEF ScopeInv
  <2>2. ASSUME NEW u \in Users, NEW p \in Pursuits, NEW unit \in AtMostOne(Nodes),
               NEW who \in AtMostOne(Users \cup {Nobody}), PatchUnitAndOwner(u, p, unit, who),
               NEW q \in Pursuits
        PROVE  Given(q)
    <3> SUFFICES ASSUME owner'[q] \notin {owner[q], Nobody}
                 PROVE  owner'[q] \in enabled /\ home'[q] \in Visible(owner'[q])
      OBVIOUS
    <3>1. owner' = [owner EXCEPT ![p] = IF who = {} THEN @ ELSE CHOOSE o \in who : TRUE]
      BY <2>2 DEF PatchUnitAndOwner
    <3>2. q = p /\ who # {} /\ owner'[q] = CHOOSE o \in who : TRUE
      <4>1. /\ owner'[p] = IF who = {} THEN owner[p] ELSE CHOOSE o \in who : TRUE
            /\ q # p => owner'[q] = owner[q]
        BY <2>1, <3>1 DEF TypeOK
      <4> QED BY <4>1
    <3>3. owner'[q] \in who \ {Nobody}
      BY <3>2, ChooseNamed DEF AtMostOne
    <3>4. owner'[q] \in OwnersAt(Target(p, unit))
      BY <2>2, <3>3 DEF PatchUnitAndOwner
    <3>5. home'[q] = Target(p, unit)
      <4>1. home' = [home EXCEPT ![p] = Target(p, unit)]
        BY <2>1, <2>2, TargetIsNamed
      <4> QED BY <2>1, <3>2, <4>1 DEF TypeOK
    <3> QED BY <3>4, <3>5 DEF OwnersAt
  <2>3. CASE \E u \in Users, p \in Pursuits, unit \in AtMostOne(Nodes),
                who \in AtMostOne(Users \cup {Nobody}) : PatchUnitAndOwner(u, p, unit, who)
    BY <2>2, <2>3
  <2>4. CASE ~ \E u \in Users, p \in Pursuits, unit \in AtMostOne(Nodes),
                  who \in AtMostOne(Users \cup {Nobody}) : PatchUnitAndOwner(u, p, unit, who)
    BY <1>1, <2>4, OnlyPatchMoves
  <2> QED BY <2>3, <2>4
<1> DEFINE All == \A p \in Pursuits : 
          LET new == owner'[p] IN
          new \notin {owner[p], Nobody} => new \in enabled /\ home'[p] \in Visible(new)
<1>2. ScopeInv /\ [Next]_vars => All
  BY <1>1
<1> QED BY ScopeInit, ScopeStep, <1>2, PTL DEF Spec, NewOwnersSeeTheirPursuit
=============================================================================
