CONSTANTS
    l1 = l1
    l2 = l2
    f1 = f1
    f2 = f2
    g1 = g1
    Lab = {l1, l2}
    Fill = {f1, f2}
    Guest = {g1}
    Lineup <- Lineups
    Policy <- Settings
    MaxFolds = 1
SPECIFICATION FairSpec
INVARIANTS WithinBudget DeletableIsOver
PROPERTIES EverySettles
CHECK_DEADLOCK FALSE
