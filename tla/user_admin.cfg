SPECIFICATION Spec
CONSTANTS
    Users = {"anna", "bert"}
    Nodes = {1, 2}
    Below <- MCBelow
    Tokens = {t1, t2}
    TTL = 2
    FirstGrants <- MCFirstGrants
PROPERTIES ScopeOnlyFlowsDown DeactivationLeavesAnAdministrator LostRoleEndsSessions
CHECK_DEADLOCK FALSE
