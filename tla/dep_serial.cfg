\* Transactions one at a time, four pursuits, a walk long enough for them.
SPECIFICATION SerialSpec
CONSTANTS
    Pursuits = {p1, p2, p3, p4}
    NoPursuit = NoPursuit
    DepthCap = 4
    PoolSize = 10
SYMMETRY Symmetry
INVARIANTS
    LptaStandsAlone
    NoDependentOfCancelled
    SerialInv
PROPERTIES
    ForestSpec
    ClosedChangesOnlyByCancellation
