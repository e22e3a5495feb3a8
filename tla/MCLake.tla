------------------------------- MODULE MCLake -------------------------------
(* The collector in bad weather, the ingest with its faults, and both.     *)
EXTENDS Lake

CONSTANTS w1, w2

In(kinds, n) == [met |-> kinds, most |-> n]

Calm == In({}, 0)
Stops == In({"stop"}, 1)
Rough == {In({"stop"}, 3), In({"crash", "stop"}, 2), In({"crash", "full"}, 2),
          In({"drop", "stop"}, 2), In({"half"}, 1), In({"mute"}, 1)}
Weathers == Rough \cup {Calm, Stops}

Lot(runs, under, comes, bad, faults_) ==
    [runs |-> runs, under |-> under, comes |-> comes, bad |-> bad, met |-> faults_]

Archives == {Lot({"ingest"}, {Calm}, {-2, -1}, {-2}, {"flaky", "crash", "stop"}),
             Lot({"ingest"}, {Calm}, {-2, -1}, {}, {"cut", "force"})}
AllLots == Archives \cup {Lot({"collector"}, Rough, {}, {}, {}),
                          Lot({"collector", "ingest"}, {Stops}, {0}, {}, {})}

DaysMC == -2 .. 0

HalfOpen == {Lot({"collector"}, {In({"half"}, 1)}, {}, {}, {})}
LateArchive == {Lot({"ingest"}, {Calm}, {-2, -1}, {}, {"late"})}
=============================================================================
