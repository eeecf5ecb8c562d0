SPECIFICATION Spec
CONSTANTS
    Pursuits <- MCPursuits
    Predecessor <- MCPredecessor
    Editors = {e1, e2}
    MaxTime = 3
SYMMETRY MCSymmetry
INVARIANTS NoLostUpdate WonWasBid MissedOnlyInAWindow
