----------------------------- MODULE TripTable ------------------------------
(***************************************************************************)
(* The operations of the kill_switch_trips table of                        *)
(* perplab.store.killswitch, as functions of its rows in insertion order.  *)
(* A row is open until somebody is named as having cleared it; rows are    *)
(* appended and never removed.  Details and timestamps are left out.       *)
(***************************************************************************)
EXTENDS Naturals, Sequences

CONSTANTS Trigger,      \* INVARIANT, DISCONNECT, MANUAL, ...
          Source,       \* the session a trip names, or the API server
          Actor,        \* who may un-arm
          Nobody,       \* the clearer of an open trip
          Clear         \* no trip in force

ASSUME SwitchAssumption ==
    /\ Nobody \notin Actor
    /\ Clear \notin Trigger

TripRow == [trigger : Trigger, source : Source, flattened : BOOLEAN,
            cleared_by : Actor \cup {Nobody}]

IsOpen(table, i) == table[i].cleared_by = Nobody

OpenTrips(table) == {i \in 1 .. Len(table) : IsOpen(table, i)}

(* _OPEN_TRIP: the oldest open row, 0 if the switch is clear.              *)
OpenTrip(table) ==
    IF OpenTrips(table) = {} THEN 0
    ELSE CHOOSE i \in OpenTrips(table) : \A j \in OpenTrips(table) : i <= j

NewTrip(t, src, flat) ==
    [trigger |-> t, source |-> src, flattened |-> flat, cleared_by |-> Nobody]

(* Wrong variants of Armed: a row is always appended; the latest trigger   *)
(* wins.                                                                   *)
Armed_AlwaysInserts(table, t, src, flat) == Append(table, NewTrip(t, src, flat))

Armed_LatestTrigger(table, t, src, flat) ==
    LET i == OpenTrip(table)
    IN IF i = 0 THEN Append(table, NewTrip(t, src, flat))
       ELSE [table EXCEPT ![i].trigger = t]

(* arm on a given table: while armed only flattened may change, and only   *)
(* from false to true; otherwise a row is appended.                        *)
Armed(table, t, src, flat) ==
    LET i == OpenTrip(table)
    IN IF i = 0 THEN Append(table, NewTrip(t, src, flat))
       ELSE [table EXCEPT ![i].flattened = @ \/ flat]

(* unarm on a given table: every open row is stamped with the actor.       *)
Cleared(table, a) ==
    [i \in 1 .. Len(table) |->
        IF IsOpen(table, i) THEN [table[i] EXCEPT !.cleared_by = a] ELSE table[i]]
=============================================================================
