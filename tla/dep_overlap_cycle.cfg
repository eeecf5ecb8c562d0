\* Two PATCHes that overlap: one waits for the engine, the other commits.
SPECIFICATION Spec
CONSTANTS
    Pursuits = {p1, p2}
    NoPursuit = NoPursuit
    DepthCap = 2
    PoolSize = 10
SYMMETRY Symmetry
INVARIANT
    Acyclic
