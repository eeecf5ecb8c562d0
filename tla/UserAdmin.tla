------------------------------ MODULE UserAdmin ------------------------------
(* Who may sign in and act as an administrator of one client: the users,   *)
(* their assignments and the sessions that outlive both                    *)
(* (api/app/routers/users.py, api/app/auth.py, login and logout of         *)
(* api/app/main.py).                                                       *)
(*                                                                         *)
(* A session carries the roles its user had at login; the scope is looked  *)
(* up anew by every request.  login runs in a thread: it reads the user,   *)
(* and creates the session in a later step.                                *)
EXTENDS Naturals, FiniteSets

CONSTANTS
    Users,      \* the accounts there are or may be
    Nodes,      \* org nodes, numbered in the order of their names
    Below,      \* the nodes at or below each node
    Tokens,     \* session tokens
    TTL,        \* ticks a session lasts
    FirstGrants \* the assignments of the users there are at first

Roles  == {"admin", "member"}
Grants == [node : Nodes, role : Roles]

ASSUME AdminAssumption ==
    /\ Nodes \subseteq Nat /\ IsFiniteSet(Nodes)
    /\ Below \in [Nodes -> SUBSET Nodes]
    /\ \A n \in Nodes : n \in Below[n] /\ \A m \in Below[n] : Below[m] \subseteq Below[n]
    /\ TTL \in Nat \ {0}
    /\ "nobody" \notin Users
    /\ \E S \in SUBSET Users : FirstGrants \in [S -> (SUBSET Grants) \ {{}}]

VARIABLES
    status,   \* of each account
    grants,   \* its assignments
    session,  \* [user, roles, age] of each token, or NoSession
    login     \* the login between its two steps: [user, roles], or NoLogin
vars == <<status, grants, session, login>>

NoSession == [user |-> "nobody", roles |-> {}, age |-> 0]
NoLogin   == [user |-> "nobody", roles |-> {}]

TypeOK ==
    /\ status \in [Users -> {"absent", "active", "inactive"}]
    /\ grants \in [Users -> SUBSET Grants]
    /\ session \in [Tokens -> [user : Users, roles : SUBSET Roles, age : 0..TTL - 1]
                              \cup {NoSession}]
    /\ login \in [user : Users, roles : SUBSET Roles] \cup {NoLogin}
    /\ \A u \in Users : status[u] = "absent" => grants[u] = {}

Init ==
    /\ status = [u \in Users |->
                    IF u \in DOMAIN FirstGrants THEN "active" ELSE "absent"]
    /\ grants = [u \in Users |->
                    IF u \in DOMAIN FirstGrants THEN FirstGrants[u] ELSE {}]
    /\ session = [t \in Tokens |-> NoSession]
    /\ login = NoLogin
-----------------------------------------------------------------------------
RolesOf(u) == {g.role : g \in grants[u]}
NodesOf(u) == {g.node : g \in grants[u]}

(* fn_user_visible_org_nodes: at or below an assignment, whatever its role. *)
Visible(u) == UNION {Below[n] : n \in NodesOf(u)}

(* _visible_user: at least one assignment in the caller's scope.           *)
SeenBy(a, u) == NodesOf(u) \cap Visible(a) # {}

(* require_role("admin"): the roles are the session's.                     *)
ActsAsAdmin(t) == session[t] # NoSession /\ "admin" \in session[t].roles

AnyAccount(u) == status[u] # "absent"   \* variant: is_active is not looked at

MaySignIn(u) == status[u] = "active"    \* fn_lookup_login

LookUp(u) ==
    /\ login = NoLogin /\ MaySignIn(u)
    /\ login' = [user |-> u, roles |-> RolesOf(u)]
    /\ UNCHANGED <<status, grants, session>>

CreateSession(t) ==
    /\ login # NoLogin /\ session[t] = NoSession
    /\ session' = [session EXCEPT ![t] =
                      [user |-> login.user, roles |-> login.roles, age |-> 0]]
    /\ login' = NoLogin
    /\ UNCHANGED <<status, grants>>

Logout(t) ==
    /\ session[t] # NoSession
    /\ session' = [session EXCEPT ![t] = NoSession]
    /\ UNCHANGED <<status, grants, login>>

Expires(s) == s.age + 1 = TTL

(* Time passes; a session that is too old resolves to nobody.              *)
Tick ==
    /\ \E t \in Tokens : session[t] # NoSession
    /\ session' = [t \in Tokens |->
          IF session[t] = NoSession \/ Expires(session[t]) THEN NoSession
          ELSE [session[t] EXCEPT !.age = @ + 1]]
    /\ UNCHANGED <<status, grants, login>>

UnitsThatExist(a, nodes) == TRUE   \* variant: any org unit of the client

(* _resolve_org_nodes: every node named must be in the caller's own scope. *)
InScope(a, nodes) == nodes \subseteq Visible(a)

CreateUser(t, u, role, nodes) ==
    LET a == session[t].user IN
    /\ ActsAsAdmin(t)
    /\ status[u] = "absent"
    /\ nodes # {} /\ InScope(a, nodes)
    /\ status' = [status EXCEPT ![u] = "active"]
    /\ grants' = [grants EXCEPT ![u] = [node : nodes, role : {role}]]
    /\ UNCHANGED <<session, login>>

(* The first assignment by name of node, then of role, gives the role that *)
(* is kept when the request names none.                                    *)
FirstRole(u) ==
    LET first == CHOOSE n \in NodesOf(u) : \A m \in NodesOf(u) : n <= m
    IN  IF [node |-> first, role |-> "admin"] \in grants[u] THEN "admin" ELSE "member"

SelfAllowed(t, u) == TRUE   \* variant: anyone may be deactivated

MayDeactivate(t, u) == u # session[t].user

(* update_user, for a user the caller sees: the flag, the role and the org *)
(* units are each optional; role and org units are replaced together, and  *)
(* everything or nothing is written.                                       *)
UpdateUser(t, u, flag, roles, units) ==
    LET a     == session[t].user
        role  == IF roles = {} THEN FirstRole(u) ELSE CHOOSE r \in roles : TRUE
        nodes == IF units = {} THEN NodesOf(u) ELSE CHOOSE n \in units : TRUE
    IN
    /\ flag = "inactive" => MayDeactivate(t, u)
    /\ status' = IF flag = "kept" THEN status ELSE [status EXCEPT ![u] = flag]
    /\ IF roles = {} /\ units = {} THEN UNCHANGED grants
       ELSE /\ nodes # {} /\ InScope(a, nodes)
            /\ grants' = [grants EXCEPT ![u] = [node : nodes, role : {role}]]
    /\ UNCHANGED <<session, login>>

AtMostOne(S) == {{}} \cup {{x} : x \in S}

Request(t, u) ==
    \/ \E role \in Roles, nodes \in SUBSET Nodes : CreateUser(t, u, role, nodes)
    \/ /\ ActsAsAdmin(t) /\ SeenBy(session[t].user, u)
       /\ \E flag \in {"kept", "active", "inactive"},
             roles \in AtMostOne(Roles), units \in AtMostOne(SUBSET Nodes) :
                UpdateUser(t, u, flag, roles, units)

Next ==
    \/ Tick
    \/ \E u \in Users : LookUp(u)
    \/ \E t \in Tokens : CreateSession(t) \/ Logout(t) \/ \E u \in Users : Request(t, u)

(* Time passes and a login that has read its user ends; nobody has to sign *)
(* in, out, or administer anything.                                        *)
Fairness == WF_vars(Tick) /\ WF_vars(\E t \in Tokens : CreateSession(t))

Spec == Init /\ [][Next]_vars /\ Fairness
-----------------------------------------------------------------------------
(* Every account can be reached by some administrator's scope: it has an   *)
(* assignment, however often its role and org units are replaced.          *)
EveryAccountIsAssigned == \A u \in Users : status[u] # "absent" => grants[u] # {}

(* What anyone newly sees was visible to somebody acting as administrator  *)
(* at that moment: no chain of edits leads out of the administrators'      *)
(* scopes, stale sessions included.                                        *)
ScopeOnlyFlowsDown ==
    [][\A u \in Users :
          LET gained == Visible(u)' \ Visible(u)
          IN  gained # {} => \E t \in Tokens :
                                ActsAsAdmin(t) /\ gained \subseteq Visible(session[t].user)]_vars

CanAdminister(u) == status[u] = "active" /\ "admin" \in RolesOf(u)
SomeAdministrator == \E u \in Users : CanAdminister(u)
SessionsAreFresh ==
    \A t \in Tokens : ActsAsAdmin(t) => CanAdminister(session[t].user)

(* While no session is stale, deactivating alone never loses the last      *)
(* administrator: whoever does it remains one.                             *)
DeactivationLeavesAnAdministrator ==
    [][SomeAdministrator /\ SessionsAreFresh /\ grants' = grants
           => SomeAdministrator']_vars

(* Losing the role or the account for good ends the administration: the    *)
(* sessions that still carry the role run out and no new one begins.       *)
LostRoleEndsSessions ==
    \A u \in Users :
        (<>[]~CanAdminister(u)) =>
            <>[](\A t \in Tokens : session[t].user = u => ~ActsAsAdmin(t))

(* What the comment on the check in update_user (users.py:233-235) says it *)
(* is for: nothing locks the last administrator out.  The code does not    *)
(* keep it: two administrators may deactivate each other.                  *)
LastAdministratorStays == SomeAdministrator

(* What users.py says of scope: a caller touches only what is in it.  The  *)
(* code does not keep it: new assignments replace all the old ones.        *)
OutOfScopeGrantsUntouched ==
    [][\A u \in Users :
          LET lost == NodesOf(u) \ NodesOf(u)'
          IN  lost # {} => \E t \in Tokens :
                              ActsAsAdmin(t) /\ lost \subseteq Visible(session[t].user)]_vars
=============================================================================
