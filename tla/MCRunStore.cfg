SPECIFICATION FairSpec
CONSTANTS
    r1 = r1
    r2 = r2
    api = api
    session = session
    a1 = a1
    a2 = a2
    w1 = w1
    Run = {r1}
    Server = {api, session}
    Thread = {a1, a2, w1}
    ServerOf <- MCServerOf
    NoServer = NoServer
INVARIANTS
    FailedIsAFact
PROPERTIES
    LostHasNoHandle
    DeadIsReported
