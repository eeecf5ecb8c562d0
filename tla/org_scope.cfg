SPECIFICATION Spec
CONSTANTS
    Nodes <- MCNodes
    Root = "corp"
    Parent <- MCParent
    Divisions = {"sensors"}
    Boundary = {"space", "air"}
    Users = {"eve", "max"}
    Pursuits = {"p1"}
    FirstGrants <- MCFirstGrants
    FirstHome <- MCFirstHome
    MaxSwitches = 1
    MaxGrants = 2
INVARIANTS RollupStaysInScope
PROPERTIES MovesGoToVisibleLeaves NewOwnersSeeTheirPursuit
