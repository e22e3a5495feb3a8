SPECIFICATION ClaimsSpec
CONSTANTS
    c1 = c1
    c2 = c2
    r1 = r1
    r2 = r2
    r3 = r3
    r4 = r4
    btc = btc
    eth = eth
    testnet = testnet
    production = production
    Run = {r1, r2, r3, r4}
    Symbol = {btc, eth}
    Endpoint = {testnet, production}
    SymbolsOf <- MCSymbolsOf
    EndpointOf <- MCEndpointOf
    Client = {c1, c2}
    Nobody = Nobody
INVARIANTS
    OneOwner
    AllOrNothing
PROPERTIES
    ImplementsOwnership
    RefusedOnlyByRunning
SYMMETRY Alike
