SPECIFICATION MCSpec
CONSTANTS
    Order = {o1, o2}
    Exit = {x1}
    Kind = {"limit", "stop"}
    Reduces = {TRUE, FALSE}
    MaxLots = 2
    MaxTotal = 2
    Limit = 2
    MaxOpen = 2
    MaxStreak = 2
    Brackets <- MCBrackets
    MmrDen = 8
    MaxIterations = 4
    Opening = 24
    Prices = {8, 16, 32}
    Sizes = {1, 3}
    Amounts = {4}
    Leverages = {2, 4}
    DefaultLeverage = 4
    FeeRates = {1}
    FundingRates = {2}
    RateDen = 8
    RecoveryNum = 1
    RecoveryDen = 2
    Steps = 5
INVARIANTS
    RestsOnce
    BooksBalance
PROPERTIES
    ChecksCountTheWire
    LiquidatesTheInsolvent
    OnlyFundingOverdraws
SYMMETRY Alike
CHECK_DEADLOCK FALSE
