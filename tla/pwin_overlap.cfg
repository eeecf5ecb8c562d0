\* Any two transactions may overlap.
SPECIFICATION Spec
CONSTANTS
    PoolSize = 3
    MaxTime = 4
    MaxSaves = 1
INVARIANTS
    TypeOK
    OneCurrentPerScenario
    BaseStaysCovered
    EnteredRowsHavePwin
PROPERTIES
    DemotedRowsAreHistory
