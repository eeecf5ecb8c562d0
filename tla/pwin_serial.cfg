\* Transactions one at a time.
SPECIFICATION SerialSpec
CONSTANTS
    PoolSize = 10
    MaxTime = 4
    MaxSaves = 2
INVARIANTS
    LatestIsCurrent
PROPERTIES
    AnswersNeverRegress
    ClosedPwinIsHistory
