CONSTANTS
    s1 = s1
    s2 = s2
    Symbol <- Symbols
    Lineup <- Lineups
    Minute = 3
    FundingEvery = 4
    Window = 1
    Stale <- StaleAfter
    Grace = 1
    Delay = 1
    Latency = 1
    FirstTick = 3
    LastTick = 10
SPECIFICATION FeedSpec
INVARIANTS NothingIsLost
PROPERTIES NotFrozen
CHECK_DEADLOCK FALSE
