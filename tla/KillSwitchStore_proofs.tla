----------------------- MODULE KillSwitchStore_proofs -----------------------
(***************************************************************************)
(* Proofs about the persisted kill switch, for any triggers, sessions and  *)
(* operators, and any length of history.                                   *)
(***************************************************************************)
EXTENDS KillSwitchStore, TLAPS

AtMostOne(table) == \A i, j \in OpenTrips(table) : i = j

(* With at most one open row, OpenTrip is that row, or 0.                  *)
LEMMA OpenTripIs ==
    ASSUME NEW table \in Seq(TripRow), AtMostOne(table)
    PROVE  /\ OpenTrip(table) = 0 <=> OpenTrips(table) = {}
           /\ OpenTrip(table) # 0 => /\ OpenTrip(table) \in 1 .. Len(table)
                                     /\ OpenTrips(table) = {OpenTrip(table)}
<1>1. CASE OpenTrips(table) = {}
  BY <1>1 DEF OpenTrip
<1>2. CASE OpenTrips(table) # {}
  <2>1. PICK k \in OpenTrips(table) : OpenTrips(table) = {k}
    BY <1>2 DEF AtMostOne
  <2>2. k \in 1 .. Len(table)
    BY DEF OpenTrips
  <2>3. k <= k /\ k # 0
    BY <2>2
  <2>4. (CHOOSE i \in OpenTrips(table) : \A j \in OpenTrips(table) : i <= j) = k
    BY <2>1, <2>3
  <2>5. OpenTrip(table) = k
    BY <1>2, <2>4 DEF OpenTrip
  <2> QED  BY <2>1, <2>2, <2>3, <2>5
<1> QED  BY <1>1, <1>2

(* What arming does to the table: nothing is removed or rewritten except   *)
(* flattened of the open trip, and one row is open afterwards.             *)
LEMMA ArmedTable ==
    ASSUME NEW table \in Seq(TripRow), AtMostOne(table), SwitchAssumption,
           NEW t \in Trigger, NEW src \in Source, NEW flat \in BOOLEAN,
           NEW new, new = Armed(table, t, src, flat)
    PROVE  /\ new \in Seq(TripRow)
           /\ AtMostOne(new)
           /\ Len(table) <= Len(new)
           /\ \A i \in 1 .. Len(table) :
                 /\ new[i].trigger = table[i].trigger
                 /\ new[i].source = table[i].source
                 /\ new[i].cleared_by = table[i].cleared_by
                 /\ table[i].flattened => new[i].flattened
                 /\ ~ IsOpen(table, i) => new[i] = table[i]
           /\ OpenTrip(table) # 0 => OpenTrip(new) = OpenTrip(table)
           /\ OpenTrip(table) = 0 => /\ OpenTrip(new) = Len(table) + 1
                                     /\ new[Len(table) + 1].trigger = t
<1> DEFINE k == OpenTrip(table)
<1>1. CASE k = 0
  <2>1. new = Append(table, NewTrip(t, src, flat))
    BY <1>1 DEF Armed
  <2>2. NewTrip(t, src, flat) \in TripRow
    BY DEF NewTrip, TripRow
  <2>3. /\ new \in Seq(TripRow)
        /\ Len(new) = Len(table) + 1
        /\ \A i \in 1 .. Len(table) : new[i] = table[i]
        /\ new[Len(table) + 1] = NewTrip(t, src, flat)
    BY <2>1, <2>2
  <2>4. OpenTrips(table) = {}
    BY <1>1, OpenTripIs
  <2>5. \A i \in 1 .. Len(table) : ~ IsOpen(new, i)
    BY <2>3, <2>4 DEF OpenTrips, IsOpen
  <2>6. IsOpen(new, Len(table) + 1)
    BY <2>3 DEF IsOpen, NewTrip
  <2>7. OpenTrips(new) = {Len(table) + 1}
    BY <2>3, <2>5, <2>6 DEF OpenTrips
  <2>8. AtMostOne(new)
    BY <2>7 DEF AtMostOne
  <2>9. OpenTrip(new) = Len(table) + 1
    BY <2>3, <2>7, <2>8, OpenTripIs
  <2> QED
    BY <1>1, <2>3, <2>8, <2>9 DEF NewTrip
<1>2. CASE k # 0
  <2>1. k \in 1 .. Len(table) /\ OpenTrips(table) = {k}
    BY <1>2, OpenTripIs
  <2>2. new = [table EXCEPT ![k].flattened = @ \/ flat]
    BY <1>2 DEF Armed
  <2>3. table[k] \in TripRow
    BY <2>1
  <2> HIDE DEF k
  <2>4. [table[k] EXCEPT !.flattened = @ \/ flat] \in TripRow
    BY <2>3 DEF TripRow
  <2>5. /\ new \in Seq(TripRow)
        /\ Len(new) = Len(table)
        /\ \A i \in 1 .. Len(table) : i # k => new[i] = table[i]
        /\ new[k] = [table[k] EXCEPT !.flattened = @ \/ flat]
    BY <2>1, <2>2, <2>4
  <2>6. /\ new[k].trigger = table[k].trigger
        /\ new[k].source = table[k].source
        /\ new[k].cleared_by = table[k].cleared_by
        /\ table[k].flattened => new[k].flattened
    BY <2>3, <2>5 DEF TripRow
  <2>7. \A i \in 1 .. Len(table) : IsOpen(new, i) <=> IsOpen(table, i)
    BY <2>5, <2>6 DEF IsOpen
  <2>8. OpenTrips(new) = {k}
    BY <2>1, <2>5, <2>7 DEF OpenTrips
  <2>9. AtMostOne(new)
    BY <2>8 DEF AtMostOne
  <2>10. OpenTrip(new) = k
    BY <2>1, <2>5, <2>8, <2>9, OpenTripIs
  <2>11. IsOpen(table, k)
    BY <2>1 DEF OpenTrips
  <2>12. ASSUME NEW i \in 1 .. Len(table)
         PROVE  /\ new[i].trigger = table[i].trigger
                /\ new[i].source = table[i].source
                /\ new[i].cleared_by = table[i].cleared_by
                /\ table[i].flattened => new[i].flattened
                /\ ~ IsOpen(table, i) => new[i] = table[i]
    <3>1. CASE i = k
      BY <2>6, <2>11, <3>1
    <3>2. CASE i # k
      BY <2>5, <3>2
    <3> QED  BY <3>1, <3>2
  <2>13. Len(table) <= Len(new)
    BY <2>5
  <2>14. OpenTrip(table) # 0 /\ OpenTrip(new) = OpenTrip(table)
    BY <1>2, <2>10 DEF k
  <2> QED
    BY <2>5, <2>9, <2>12, <2>13, <2>14
<1> QED  BY <1>1, <1>2

(* What un-arming does: no row is left open, cleared rows are untouched.   *)
LEMMA ClearedTable ==
    ASSUME NEW table \in Seq(TripRow), SwitchAssumption, NEW a \in Actor,
           NEW new, new = Cleared(table, a)
    PROVE  /\ new \in Seq(TripRow)
           /\ Len(new) = Len(table)
           /\ OpenTrips(new) = {}
           /\ \A i \in 1 .. Len(table) :
                 /\ new[i].trigger = table[i].trigger
                 /\ new[i].source = table[i].source
                 /\ new[i].flattened = table[i].flattened
                 /\ ~ IsOpen(table, i) => new[i] = table[i]
<1>1. \A i \in 1 .. Len(table) : table[i] \in TripRow
  OBVIOUS
<1>2. \A i \in 1 .. Len(table) : [table[i] EXCEPT !.cleared_by = a] \in TripRow
  BY <1>1 DEF TripRow
<1>3. Len(table) \in Nat
  OBVIOUS
<1>4. new = [i \in 1 .. Len(table) |->
                IF IsOpen(table, i) THEN [table[i] EXCEPT !.cleared_by = a] ELSE table[i]]
  BY DEF Cleared
<1>5. new \in Seq(TripRow) /\ Len(new) = Len(table)
  BY <1>1, <1>2, <1>3, <1>4
<1>6. ASSUME NEW i \in 1 .. Len(table)
      PROVE  /\ new[i].trigger = table[i].trigger
             /\ new[i].source = table[i].source
             /\ new[i].flattened = table[i].flattened
             /\ ~ IsOpen(table, i) => new[i] = table[i]
             /\ new[i].cleared_by # Nobody
  BY <1>1, <1>4 DEF TripRow, IsOpen, SwitchAssumption
<1>7. OpenTrips(new) = {}
  BY <1>5, <1>6 DEF OpenTrips, IsOpen
<1> QED  BY <1>5, <1>6, <1>7

-----------------------------------------------------------------------------
(* Rows are well formed and at most one is open: the inductive invariant.  *)
IInv ==
    /\ trips \in Seq(TripRow)
    /\ unarming \in [Actor -> 0 .. Len(trips)]
    /\ AtMostOne(trips)

LEMMA IInvInit == Init => IInv
BY DEF Init, IInv, AtMostOne, OpenTrips

LEMMA IInvNext == IInv /\ [Next]_vars => IInv'
<1> SUFFICES ASSUME IInv, [Next]_vars PROVE IInv'
  OBVIOUS
<1> USE DEF IInv
<1>1. ASSUME NEW t \in Trigger, NEW src \in Source, NEW flat \in BOOLEAN, Arm(t, src, flat)
      PROVE  IInv'
  <2>1. trips' = Armed(trips, t, src, flat)
    BY <1>1 DEF Arm
  <2>2. trips' \in Seq(TripRow) /\ AtMostOne(trips') /\ Len(trips) <= Len(trips')
    BY <2>1, ArmedTable, SwitchAssumption
  <2>3. unarming' = unarming
    BY <1>1 DEF Arm
  <2>4. unarming' \in [Actor -> 0 .. Len(trips')]
    BY <2>2, <2>3
  <2> QED  BY <2>2, <2>4 DEF AtMostOne
<1>2. ASSUME NEW a \in Actor, UnarmRead(a) PROVE IInv'
  <2>1. OpenTrip(trips) \in 1 .. Len(trips)
    BY <1>2, OpenTripIs DEF UnarmRead
  <2> QED  BY <1>2, <2>1 DEF UnarmRead, AtMostOne
<1>3. ASSUME NEW a \in Actor, UnarmClear(a) PROVE IInv'
  <2>1. trips' = Cleared(trips, a)
    BY <1>3 DEF UnarmClear
  <2>2. trips' \in Seq(TripRow) /\ Len(trips') = Len(trips) /\ OpenTrips(trips') = {}
    BY <2>1, ClearedTable, SwitchAssumption
  <2> QED  BY <1>3, <2>2 DEF UnarmClear, AtMostOne
<1>4. CASE UNCHANGED vars
  BY <1>4 DEF vars, AtMostOne
<1> QED  BY <1>1, <1>2, <1>3, <1>4 DEF Next

(* However processes arm and operators un-arm, one trip at most is open    *)
(* (KillSwitchStore.arm's BEGIN IMMEDIATE), and rows keep their types.     *)
THEOREM OneOpenTripHolds == Spec => [](TypeOK /\ OneOpenTrip)
<1>1. IInv => TypeOK /\ OneOpenTrip
  BY DEF IInv, TypeOK, OneOpenTrip, AtMostOne
<1> QED  BY <1>1, IInvInit, IInvNext, PTL DEF Spec

(* The table is an audit trail: first trigger wins, flattened only rises,  *)
(* a cleared trip is never touched again (KillSwitchStore.arm, unarm).     *)
THEOREM HistoryIsKept == Spec => HistoryKept
<1> DEFINE Kept ==
       /\ Len(trips) <= Len(trips')
       /\ \A i \in 1 .. Len(trips) :
             /\ trips'[i].trigger = trips[i].trigger
             /\ trips'[i].source = trips[i].source
             /\ trips[i].flattened => trips'[i].flattened
             /\ ~ IsOpen(trips, i) => trips'[i] = trips[i]
<1>1. IInv /\ [Next]_vars => [Kept]_vars
  <2> SUFFICES ASSUME IInv, Next PROVE Kept
    OBVIOUS
  <2>1. ASSUME NEW t \in Trigger, NEW src \in Source, NEW flat \in BOOLEAN, Arm(t, src, flat)
        PROVE  Kept
    <3>1. trips' = Armed(trips, t, src, flat)
      BY <2>1 DEF Arm
    <3> QED  BY <3>1, ArmedTable, SwitchAssumption DEF IInv
  <2>2. ASSUME NEW a \in Actor, UnarmRead(a) PROVE Kept
    BY <2>2 DEF UnarmRead, IInv
  <2>3. ASSUME NEW a \in Actor, UnarmClear(a) PROVE Kept
    <3>1. trips' = Cleared(trips, a)
      BY <2>3 DEF UnarmClear
    <3>2. /\ Len(trips') = Len(trips)
          /\ \A i \in 1 .. Len(trips) :
                /\ trips'[i].trigger = trips[i].trigger
                /\ trips'[i].source = trips[i].source
                /\ trips'[i].flattened = trips[i].flattened
                /\ ~ IsOpen(trips, i) => trips'[i] = trips[i]
      BY <3>1, ClearedTable, SwitchAssumption DEF IInv
    <3>3. Len(trips) \in Nat
      BY DEF IInv
    <3> QED  BY <3>2, <3>3
  <2> QED  BY <2>1, <2>2, <2>3 DEF Next
<1> QED  BY <1>1, IInvInit, IInvNext, PTL DEF Spec, HistoryKept

(* The store decides as the in-memory switch of core.risk does.            *)
THEOREM Refinement == Spec => ImplementsSwitch
<1>1. Init => Switch!Init
  BY DEF Init, Switch!Init, InForce, OpenTrip, OpenTrips
<1>2. IInv /\ [Next]_vars => [Switch!Next]_InForce
  <2> SUFFICES ASSUME IInv, [Next]_vars PROVE Switch!Next \/ InForce' = InForce
    OBVIOUS
  <2>0. trips \in Seq(TripRow) /\ AtMostOne(trips)
    BY DEF IInv
  <2>1. ASSUME NEW t \in Trigger, NEW src \in Source, NEW flat \in BOOLEAN, Arm(t, src, flat)
        PROVE  Switch!Next \/ InForce' = InForce
    <3>1. trips' = Armed(trips, t, src, flat)
      BY <2>1 DEF Arm
    <3>2. CASE OpenTrip(trips) = 0
      <4>1. OpenTrip(trips') = Len(trips) + 1 /\ trips'[Len(trips) + 1].trigger = t
        BY <2>0, <3>1, <3>2, ArmedTable, SwitchAssumption
      <4>2. Len(trips) + 1 # 0
        BY <2>0
      <4>3. InForce = Clear /\ InForce' = t
        BY <3>2, <4>1, <4>2 DEF InForce
      <4> QED  BY <4>3 DEF Switch!Next, Switch!Trip
    <3>3. CASE OpenTrip(trips) # 0
      <4>1. /\ OpenTrip(trips') = OpenTrip(trips)
            /\ \A i \in 1 .. Len(trips) : trips'[i].trigger = trips[i].trigger
        BY <2>0, <3>1, <3>3, ArmedTable, SwitchAssumption
      <4>2. OpenTrip(trips) \in 1 .. Len(trips)
        BY <2>0, <3>3, OpenTripIs
      <4> QED  BY <3>3, <4>1, <4>2 DEF InForce
    <3> QED  BY <3>2, <3>3
  <2>2. ASSUME NEW a \in Actor, UnarmClear(a) PROVE Switch!Next
    <3>1. trips' = Cleared(trips, a)
      BY <2>2 DEF UnarmClear
    <3>2. OpenTrips(trips') = {}
      BY <2>0, <3>1, ClearedTable, SwitchAssumption
    <3>3. InForce' = Clear
      BY <3>2 DEF InForce, OpenTrip
    <3> QED  BY <3>3 DEF Switch!Next, Switch!Unarm
  <2>3. ASSUME UNCHANGED trips PROVE InForce' = InForce
    BY <2>3 DEF InForce, OpenTrip, OpenTrips, IsOpen
  <2> QED  BY <2>1, <2>2, <2>3 DEF Next, vars, UnarmRead
<1> QED
  BY <1>1, <1>2, IInvInit, IInvNext, PTL DEF Spec, ImplementsSwitch, Switch!Spec
=============================================================================
