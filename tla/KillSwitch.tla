----------------------------- MODULE KillSwitch -----------------------------
(***************************************************************************)
(* The kill switch as core.risk.KillSwitch keeps it inside one process:    *)
(* clear, or tripped by the first trigger that arrived, until somebody     *)
(* un-arms it.  It is also what the persistent store promises.             *)
(***************************************************************************)
CONSTANTS Trigger,      \* what can trip the switch
          Clear         \* the switch is not tripped

VARIABLE tripped        \* the trigger in force, or Clear

TypeOK == tripped \in Trigger \cup {Clear}

Init == tripped = Clear

(* trip: the first trigger wins, a later one changes nothing.              *)
Trip(t) ==
    /\ tripped = Clear
    /\ tripped' = t

Unarm == tripped' = Clear

Next == Unarm \/ \E t \in Trigger : Trip(t)

Spec == Init /\ [][Next]_tripped
=============================================================================
