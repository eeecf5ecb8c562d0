--------------------------- MODULE UserAdmin_proofs ---------------------------
(* Theorems of UserAdmin, for any accounts, tokens and tree of org nodes.  *)
EXTENDS UserAdmin, TLAPS

AdminInv == TypeOK /\ EveryAccountIsAssigned

-----------------------------------------------------------------------------
(* Replacing a role or the org units keeps what an account is made of: an  *)
(* account that is assigned has a first role, and no update leaves it      *)
(* without nodes.                                                          *)
LEMMA FirstRoleIsRole ==
  ASSUME NEW u \in Users PROVE FirstRole(u) \in Roles
BY DEF FirstRole, Roles

LEMMA GrantsOf ==
  ASSUME NEW nodes \in (SUBSET Nodes) \ {{}}, NEW role \in Roles
  PROVE  /\ [node : nodes, role : {role}] \in (SUBSET Grants) \ {{}}
         /\ {g.node : g \in [node : nodes, role : {role}]} = nodes
         /\ {g.role : g \in [node : nodes, role : {role}]} = {role}
<1> DEFINE grant(n) == [node |-> n, role |-> role]
<1>1. \A n \in nodes : /\ grant(n) \in [node : nodes, role : {role}]
                       /\ grant(n).node = n /\ grant(n).role = role
  OBVIOUS
<1> HIDE DEF grant
<1>2. PICK n \in nodes : TRUE
  OBVIOUS
<1>3. [node : nodes, role : {role}] \in (SUBSET Grants) \ {{}}
  BY <1>1, <1>2 DEF Grants
<1>4. {g.node : g \in [node : nodes, role : {role}]} = nodes
  BY <1>1
<1>5. {g.role : g \in [node : nodes, role : {role}]} = {role}
  BY <1>1, <1>2
<1> QED
  BY <1>3, <1>4, <1>5

(* A request by the session t writes no assignment, or gives u one of its  *)
(* roles at nodes that are in the caller's scope.                          *)
Regrants(t, u) ==
    \/ grants' = grants
    \/ \E nodes \in (SUBSET Nodes) \ {{}}, role \in Roles :
          /\ InScope(session[t].user, nodes)
          /\ grants' = [grants EXCEPT ![u] = [node : nodes, role : {role}]]

(* What an accepted update writes, and what it was checked against.        *)
LEMMA UpdateWrites ==
  ASSUME AdminInv, NEW t \in Tokens, NEW u \in Users, ActsAsAdmin(t),
         NEW flag \in {"kept", "active", "inactive"},
         NEW roles \in AtMostOne(Roles), NEW units \in AtMostOne(SUBSET Nodes),
         UpdateUser(t, u, flag, roles, units)
  PROVE  Regrants(t, u)
<1> DEFINE role  == IF roles = {} THEN FirstRole(u) ELSE CHOOSE r \in roles : TRUE
           nodes == IF units = {} THEN NodesOf(u) ELSE CHOOSE n \in units : TRUE
<1>1. role \in Roles
  BY FirstRoleIsRole DEF AtMostOne
<1>2. nodes \in SUBSET Nodes
  BY DEF AtMostOne, NodesOf, AdminInv, TypeOK, Grants
<1> HIDE DEF role
<1>3. \/ grants' = grants
      \/ /\ nodes # {} /\ InScope(session[t].user, nodes)
         /\ grants' = [grants EXCEPT ![u] = [node : nodes, role : {role}]]
  BY DEF UpdateUser, role
<1> HIDE DEF nodes
<1> QED
  BY <1>1, <1>2, <1>3 DEF Regrants

LEMMA InitAdminInv == Init => AdminInv
BY AdminAssumption DEF Init, AdminInv, TypeOK, EveryAccountIsAssigned

LEMMA AssignedStaysTyped ==
  ASSUME AdminInv, UNCHANGED <<session, login>>,
         status' \in [Users -> {"absent", "active", "inactive"}],
         grants' \in [Users -> SUBSET Grants],
         \A v \in Users : status'[v] = "absent" <=> grants'[v] = {}
  PROVE  AdminInv'
BY DEF AdminInv, TypeOK, EveryAccountIsAssigned

LEMMA RequestKeepsAdminInv ==
  ASSUME AdminInv, NEW t \in Tokens, NEW u \in Users, Request(t, u)
  PROVE  AdminInv'
<1>0. /\ status \in [Users -> {"absent", "active", "inactive"}]
      /\ grants \in [Users -> SUBSET Grants]
      /\ \A v \in Users : status[v] = "absent" <=> grants[v] = {}
  BY DEF AdminInv, TypeOK, EveryAccountIsAssigned
<1>1. CASE \E role \in Roles, nodes \in SUBSET Nodes : CreateUser(t, u, role, nodes)
  <2>1. PICK role \in Roles, nodes \in SUBSET Nodes : CreateUser(t, u, role, nodes)
    BY <1>1
  <2>2. [node : nodes, role : {role}] \in (SUBSET Grants) \ {{}}
    BY <2>1, GrantsOf DEF CreateUser
  <2>3. /\ status' = [status EXCEPT ![u] = "active"]
        /\ grants' = [grants EXCEPT ![u] = [node : nodes, role : {role}]]
        /\ UNCHANGED <<session, login>>
    BY <2>1 DEF CreateUser
  <2> QED
    BY <1>0, <2>2, <2>3, AssignedStaysTyped
<1>2. ASSUME ActsAsAdmin(t), SeenBy(session[t].user, u),
             NEW flag \in {"kept", "active", "inactive"},
             NEW roles \in AtMostOne(Roles), NEW units \in AtMostOne(SUBSET Nodes),
             UpdateUser(t, u, flag, roles, units)
      PROVE  AdminInv'
  <2>1. status[u] # "absent"
    BY <1>0, <1>2 DEF SeenBy, NodesOf
  <2>2. /\ status' \in [Users -> {"absent", "active", "inactive"}]
        /\ \A v \in Users : status'[v] = "absent" <=> status[v] = "absent"
        /\ UNCHANGED <<session, login>>
    BY <1>0, <1>2, <2>1 DEF UpdateUser
  <2>3. CASE grants' = grants
    BY <1>0, <2>2, <2>3, AssignedStaysTyped
  <2>4. ASSUME NEW nodes \in (SUBSET Nodes) \ {{}}, NEW role \in Roles,
               grants' = [grants EXCEPT ![u] = [node : nodes, role : {role}]]
        PROVE  AdminInv'
    <3>1. [node : nodes, role : {role}] \in (SUBSET Grants) \ {{}}
      BY GrantsOf
    <3> QED
      BY <1>0, <2>1, <2>2, <2>4, <3>1, AssignedStaysTyped
  <2>5. Regrants(t, u)
    BY <1>2, UpdateWrites
  <2> QED
    BY <2>3, <2>4, <2>5 DEF Regrants
<1> QED
  BY <1>1, <1>2 DEF Request

LEMMA NextKeepsAdminInv == AdminInv /\ [Next]_vars => AdminInv'
<1> SUFFICES ASSUME AdminInv, [Next]_vars PROVE AdminInv'
  OBVIOUS
<1> USE DEF AdminInv, TypeOK, EveryAccountIsAssigned
<1>1. CASE Tick
  <2>1. ASSUME NEW t \in Tokens, session[t] # NoSession, ~Expires(session[t])
        PROVE  [session[t] EXCEPT !.age = @ + 1] \in
                  [user : Users, roles : SUBSET Roles, age : 0..TTL - 1]
    BY <2>1, AdminAssumption DEF Expires
  <2> QED
    BY <1>1, <2>1 DEF Tick
<1>2. CASE \E u \in Users : LookUp(u)
  BY <1>2 DEF LookUp, RolesOf, Grants
<1>3. CASE \E t \in Tokens : CreateSession(t) \/ Logout(t)
  <2>1. 0 \in 0..TTL - 1
    BY AdminAssumption
  <2> QED
    BY <1>3, <2>1 DEF CreateSession, Logout
<1>4. CASE \E t \in Tokens, u \in Users : Request(t, u)
  BY <1>4, RequestKeepsAdminInv
<1>5. CASE UNCHANGED vars
  BY <1>5 DEF vars
<1> QED
  BY <1>1, <1>2, <1>3, <1>4, <1>5 DEF Next

(* Accounts, assignments and sessions keep their types, and every account  *)
(* that exists is assigned to some node, however often its role and its    *)
(* org units are replaced (users.py: create_user, update_user).            *)
THEOREM AccountsStayAssigned == Spec => [](TypeOK /\ EveryAccountIsAssigned)
<1>1. AdminInv /\ [Next]_vars => AdminInv'
  BY NextKeepsAdminInv
<1> QED
  BY InitAdminInv, <1>1, PTL DEF Spec, AdminInv

-----------------------------------------------------------------------------
(* What an account newly sees after a request is within the scope of the   *)
(* administrator who made it: the nodes written are, and with a node so is *)
(* all that lies below it.                                                 *)
LEMMA GainsAreInScope ==
  ASSUME NEW a, NEW u \in Users, NEW nodes \in (SUBSET Nodes) \ {{}}, NEW role \in Roles,
         grants \in [Users -> SUBSET Grants], InScope(a, nodes),
         NodesOf(a) \subseteq Nodes,
         grants' = [grants EXCEPT ![u] = [node : nodes, role : {role}]]
  PROVE  /\ Visible(u)' \subseteq Visible(a)
         /\ \A v \in Users \ {u} : Visible(v)' = Visible(v)
<1>1. NodesOf(u)' = nodes
  <2>1. grants'[u] = [node : nodes, role : {role}]
    OBVIOUS
  <2> QED
    BY <2>1, GrantsOf DEF NodesOf
<1>2. \A v \in Users \ {u} : NodesOf(v)' = NodesOf(v)
  BY DEF NodesOf
<1>3. ASSUME NEW n \in nodes PROVE Below[n] \subseteq Visible(a)
  <2>1. PICK k \in NodesOf(a) : n \in Below[k]
    BY DEF InScope, Visible
  <2>2. Below[n] \subseteq Below[k]
    BY <2>1, AdminAssumption
  <2> QED
    BY <2>1, <2>2 DEF Visible
<1> QED
  BY <1>1, <1>2, <1>3 DEF Visible

(* Whatever a request grants, its caller is administrator and sees.        *)
LEMMA RequestGrants ==
  ASSUME AdminInv, NEW t \in Tokens, NEW u \in Users, Request(t, u)
  PROVE  ActsAsAdmin(t) /\ Regrants(t, u)
<1>1. CASE \E role \in Roles, nodes \in SUBSET Nodes : CreateUser(t, u, role, nodes)
  BY <1>1 DEF CreateUser, Regrants
<1>2. ASSUME ActsAsAdmin(t),
             NEW flag \in {"kept", "active", "inactive"},
             NEW roles \in AtMostOne(Roles), NEW units \in AtMostOne(SUBSET Nodes),
             UpdateUser(t, u, flag, roles, units)
      PROVE  Regrants(t, u)
  BY <1>2, UpdateWrites
<1> QED
  BY <1>1, <1>2 DEF Request

(* Nobody ever gains scope but from an administrator who has it at that    *)
(* moment, stale sessions included (users.py: _resolve_org_nodes).         *)
THEOREM ScopeIsHandedDown == Spec => ScopeOnlyFlowsDown
<1> DEFINE Handed == \A u \in Users :
              LET gained == Visible(u)' \ Visible(u)
              IN  gained # {} => \E t \in Tokens :
                     ActsAsAdmin(t) /\ gained \subseteq Visible(session[t].user)
<1>1. AdminInv /\ [Next]_vars => Handed
  <2> SUFFICES ASSUME AdminInv, [Next]_vars PROVE Handed
    OBVIOUS
  <2>1. grants \in [Users -> SUBSET Grants]
    BY DEF AdminInv, TypeOK
  <2>2. CASE UNCHANGED grants
    BY <2>2 DEF Visible, NodesOf
  <2>3. ASSUME NEW t \in Tokens, NEW u \in Users, ActsAsAdmin(t),
               NEW nodes \in (SUBSET Nodes) \ {{}}, NEW role \in Roles,
               InScope(session[t].user, nodes),
               grants' = [grants EXCEPT ![u] = [node : nodes, role : {role}]]
        PROVE  Handed
    <3>1. session[t].user \in Users
      BY <2>3 DEF AdminInv, TypeOK, ActsAsAdmin
    <3>2. NodesOf(session[t].user) \subseteq Nodes
      BY <2>1, <3>1 DEF NodesOf, Grants
    <3>3. /\ Visible(u)' \subseteq Visible(session[t].user)
          /\ \A v \in Users \ {u} : Visible(v)' = Visible(v)
      BY <2>1, <2>3, <3>2, GainsAreInScope
    <3>4. \A v \in Users : LET gained == Visible(v)' \ Visible(v)
                          IN  gained # {} => v = u
      BY <3>3
    <3> QED
      BY <2>3, <3>3, <3>4
  <2> HIDE DEF Handed
  <2>4. ASSUME NEW t \in Tokens, NEW u \in Users, Request(t, u)
        PROVE  Handed
    BY <2>2, <2>3, <2>4, RequestGrants DEF Regrants
  <2> QED
    BY <2>2, <2>4 DEF Next, Tick, LookUp, CreateSession, Logout, vars
<1>2. Spec => []AdminInv
  BY AccountsStayAssigned DEF AdminInv
<1> QED
  BY <1>1, <1>2, PTL DEF Spec, ScopeOnlyFlowsDown

(* While no session is stale, deactivating never loses the last            *)
(* administrator: whoever does it remains one (users.py: update_user       *)
(* refuses the caller's own account).                                      *)
THEOREM DeactivatorRemains == Spec => DeactivationLeavesAnAdministrator
<1>1. AdminInv /\ [Next]_vars =>
         (SomeAdministrator /\ SessionsAreFresh /\ grants' = grants => SomeAdministrator')
  <2> SUFFICES ASSUME AdminInv, [Next]_vars, SomeAdministrator, SessionsAreFresh,
                      grants' = grants
               PROVE  SomeAdministrator'
    OBVIOUS
  <2>1. status \in [Users -> {"absent", "active", "inactive"}]
    BY DEF AdminInv, TypeOK
  <2>2. PICK w \in Users : CanAdminister(w)
    BY DEF SomeAdministrator
  <2>3. ASSUME NEW v \in Users, CanAdminister(v), status'[v] = "active"
        PROVE  SomeAdministrator'
    BY <2>3 DEF SomeAdministrator, CanAdminister, RolesOf
  <2>4. CASE UNCHANGED status
    BY <2>2, <2>3, <2>4 DEF CanAdminister
  <2>5. ASSUME NEW t \in Tokens, NEW u \in Users, Request(t, u)
        PROVE  SomeAdministrator'
    <3>1. CASE \E role \in Roles, nodes \in SUBSET Nodes : CreateUser(t, u, role, nodes)
      BY <2>1, <2>2, <2>3, <3>1 DEF CreateUser, CanAdminister
    <3>2. ASSUME ActsAsAdmin(t),
                 NEW flag \in {"kept", "active", "inactive"},
                 NEW roles \in AtMostOne(Roles), NEW units \in AtMostOne(SUBSET Nodes),
                 UpdateUser(t, u, flag, roles, units)
          PROVE  SomeAdministrator'
      <4>1. session[t].user \in Users /\ CanAdminister(session[t].user)
        BY <3>2 DEF SessionsAreFresh, AdminInv, TypeOK, ActsAsAdmin
      <4>2. CASE flag = "inactive"
        BY <2>1, <2>3, <3>2, <4>1, <4>2 DEF UpdateUser, MayDeactivate, CanAdminister
      <4>3. CASE flag # "inactive"
        BY <2>1, <2>2, <2>3, <3>2, <4>3 DEF UpdateUser, CanAdminister
      <4> QED
        BY <4>2, <4>3
    <3> QED
      BY <2>5, <3>1, <3>2 DEF Request
  <2> QED
    BY <2>4, <2>5 DEF Next, Tick, LookUp, CreateSession, Logout, vars
<1>2. Spec => []AdminInv
  BY AccountsStayAssigned DEF AdminInv
<1> QED
  BY <1>1, <1>2, PTL DEF Spec, DeactivationLeavesAnAdministrator
=============================================================================
