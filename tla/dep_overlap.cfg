\* Handlers of two pursuits interleaved at every await, a pool of three.
SPECIFICATION Spec
CONSTANTS
    Pursuits = {p1, p2}
    NoPursuit = NoPursuit
    DepthCap = 2
    PoolSize = 3
SYMMETRY Symmetry
INVARIANTS
    SoleSourceStandsAlone
PROPERTIES
    PatchedRowIsHeld
