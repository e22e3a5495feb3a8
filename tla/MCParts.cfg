SPECIFICATION MCSpec
CONSTANTS
    Trigger = {HALT, MANUAL}
    Source = {r1, r2}
    Actor = {alice, bob}
    Nobody = Nobody
    Clear = Clear
    MaxTrips = 3
    MaxSubmitted = 2
    OurOrders = {o1, o2}
    Editor = {c1, c2}
    Name = {1, 2}
    Code = {"good", "bad"}
    Invalid = {"bad"}
    Message = {"", "m"}
    MaxStrategies = 2
    MaxVersions = 3
    MaxRows = 1
    MarketSteps = 7
    MaxTold = 4
    LastMinute = 7
SYMMETRY Exchangeable
INVARIANTS
    OneOpenTrip
    ReplaysTrue
    TradesAreHonest
    RunsKeepTheirCode
    LakeIsReadRight
    FiguresAreTrue
PROPERTIES
    ImplementsSwitch
CHECK_DEADLOCK FALSE
