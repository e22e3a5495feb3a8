-------------------------- MODULE KillSwitchStore --------------------------
(***************************************************************************)
(* perplab.store.killswitch: the kill switch as rows of kill_switch_trips, *)
(* written by the API server and by every session worker, each on its own  *)
(* connection.  A trip is appended and never removed; arming is one        *)
(* transaction, un-arming reads the trip in force and clears in a second   *)
(* step, so two operators and an arming process can interleave.            *)
(***************************************************************************)
EXTENDS TripTable

CONSTANT MaxTrips       \* bound on the history, for the model checker

ASSUME BoundAssumption == MaxTrips \in Nat

VARIABLES trips,        \* the table, in insertion order
          unarming      \* unarming[a]: the trip a has read and will clear, 0 if none

vars == <<trips, unarming>>

TypeOK ==
    /\ trips \in Seq(TripRow)
    /\ unarming \in [Actor -> 0 .. Len(trips)]

Init ==
    /\ trips = <<>>
    /\ unarming = [a \in Actor |-> 0]

-----------------------------------------------------------------------------
(* arm, in one BEGIN IMMEDIATE (the first conjunct bounds the history).    *)
Arm(t, src, flat) ==
    /\ OpenTrip(trips) = 0 => Len(trips) < MaxTrips
    /\ trips' = Armed(trips, t, src, flat)
    /\ UNCHANGED unarming

(* unarm: read the trip in force; with none there is nothing to do ...     *)
UnarmRead(a) ==
    /\ unarming[a] = 0
    /\ OpenTrip(trips) # 0
    /\ unarming' = [unarming EXCEPT ![a] = OpenTrip(trips)]
    /\ UNCHANGED trips

(* ... then clear every open trip, and return the one read before.         *)
UnarmClear(a) ==
    /\ unarming[a] # 0
    /\ trips' = Cleared(trips, a)
    /\ unarming' = [unarming EXCEPT ![a] = 0]

Next ==
    \/ \E t \in Trigger, src \in Source, flat \in BOOLEAN : Arm(t, src, flat)
    \/ \E a \in Actor : UnarmRead(a) \/ UnarmClear(a)

Spec == Init /\ [][Next]_vars
-----------------------------------------------------------------------------
(* At most one trip is open, however processes arm and operators un-arm:   *)
(* two processes tripping on one incident do not insert a row each (arm).  *)
OneOpenTrip == \A i, j \in OpenTrips(trips) : i = j

(* The history is an audit trail: no row is lost, its trigger and session  *)
(* never change, flattened only ever rises and only while the trip is      *)
(* open, and a cleared trip keeps the name of who cleared it (arm, unarm). *)
HistoryKept ==
    [][/\ Len(trips) <= Len(trips')
       /\ \A i \in 1 .. Len(trips) :
             /\ trips'[i].trigger = trips[i].trigger
             /\ trips'[i].source = trips[i].source
             /\ trips[i].flattened => trips'[i].flattened
             /\ ~ IsOpen(trips, i) => trips'[i] = trips[i]]_vars

(* The store decides as the in-memory switch does: the trigger in force is *)
(* the first one since the last un-arm (the note on _OPEN_TRIP).           *)
InForce == LET i == OpenTrip(trips) IN IF i = 0 THEN Clear ELSE trips[i].trigger

Switch == INSTANCE KillSwitch WITH tripped <- InForce

ImplementsSwitch == Switch!Spec
=============================================================================
