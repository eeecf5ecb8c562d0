SPECIFICATION TableSpec
CONSTANTS
    Callers = {refresher, recalc1, recalc2}
    Refresher = refresher
    MaxKey = 1
    TTL = 1
    MaxVersion = 2
    Faults = {"database", "incomplete"}
INVARIANTS RejectedKeyStaysOut TornTableIsLast
PROPERTIES RejectionsEnd TableCatchesUp
