SPECIFICATION Spec
CONSTANTS
    Categories  <- MCCategories
    Static      <- MCStatic
    HalfWeeks   <- MCHalfWeeks
    Grids       <- MCGrids
    DueDates    <- MCDueDates
    Starts      <- MCStarts
    CancelDates <- MCCancelDates
    NoDate = NoDate
    OverrideYears = {2025, 2027, 2032, 2034}
    Rates       <- MCRates
    MaxOverrides = 2
    FirstYear = 2025
    LastYear = 2034
INVARIANTS TypeOK EveryDayIsWorkedOnce
PROPERTY OverrideReachesOnlyLaterYears
