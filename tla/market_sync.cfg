SPECIFICATION Spec
CONSTANTS
    Clients <- MCClients
    LastName = 4
    Placeholder = 4
    BaseCode <- MCBaseCode
    Seeded <- MCSeeded
    MaxChanges = 2
INVARIANTS TypeOK FlagsFollowGenuineList CodesUnique RecordsExplainFlags
PROPERTIES MarketsKeepTheirCodes SteadyClientConverges
