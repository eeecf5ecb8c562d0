SPECIFICATION MCSpec
CONSTANTS
    Requests = {1, 2, 3}
    Pursuits = {1, 2}
    PoolSize = 2
    MaxCalls = 2
    NoRequest = NoRequest
INVARIANTS RowWaitIsDeadlock
PROPERTIES FrozenUntilRestart SentRequestsEnd
CHECK_DEADLOCK FALSE
