SPECIFICATION FairSpec
CONSTANTS
    w1 = w1
    w2 = w2
    MaxTime = 9
    Day = 6
    FlushEvery = 4
    Threshold = 4
    Silence = 4
    Tolerance = 1
    Detect = 3
    Weather <- Weathers
    Days <- DaysMC
    Fetcher = {w1, w2}
    MaxFaults = 1
    Lots <- AllLots
    StaleState = 4
INVARIANTS NoRowTwice ReceiptMeansWhole 
PROPERTIES EverythingArrives
CHECK_DEADLOCK FALSE
