SPECIFICATION MCSpec
CONSTANTS
    entry = entry
    exit = exit
    Order = {entry}
    SideOf <- MCSideOf
    LotsOf <- MCLotsOf
    Late = FALSE
    MaxBlind = 2
    MaxDown = 1
    MaxAttempts = 3
INVARIANTS
    NothingBookedTwice
    ClosedIsGone
    BlindIsHalted
    EndIsTold
    AnswerIsTheTruth
PROPERTY MissedFillIsCaught
CHECK_DEADLOCK FALSE
