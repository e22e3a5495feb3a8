SPECIFICATION MCFairSpec
CONSTANTS
    r1 = r1
    r2 = r2
    btc = btc
    eth = eth
    testnet = testnet
    Run = {r1}
    Symbol = {btc, eth}
    Endpoint = {testnet}
    SymbolsOf <- BothWant
    EndpointOf <- OneAccount
    Halting = HALT
    Manual = MANUAL
    Trigger = {HALT, MANUAL}
    Api = api
    Source <- Sources
    Operator = alice
    Actor = {alice}
    Nobody = Nobody
    Clear = Clear
    Paper <- Nothing
    Traders = {r1}
    Casts <- AllTogether
    MaxTrips = 2
PROPERTIES
    DeadClaimFreed
    ToldGivesBack
CHECK_DEADLOCK FALSE
