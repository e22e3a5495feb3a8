SPECIFICATION MCSpec
CONSTANTS
    r1 = r1
    r2 = r2
    btc = btc
    eth = eth
    testnet = testnet
    Run = {r1, r2}
    Symbol = {btc, eth}
    Endpoint = {testnet}
    SymbolsOf <- BothWant
    EndpointOf <- OneAccount
    Halting = HALT
    Manual = MANUAL
    Trigger = {HALT, MANUAL}
    Api = api
    Source <- Sources
    Operator = alice
    Actor = {alice}
    Nobody = Nobody
    Clear = Clear
    Paper <- Nothing
    Traders = {r1, r2}
    Casts <- Casting
    MaxTrips = 2
INVARIANTS
    OneTraderUnlessTaken
    BreachIsArmed
    KillReachesAll
SYMMETRY Sessions12
CHECK_DEADLOCK FALSE
