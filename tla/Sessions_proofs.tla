--------------------------- MODULE Sessions_proofs ---------------------------
(***************************************************************************)
(* Proofs about trading sessions, for any number of sessions and accounts, *)
(* whatever overlaps, sleeps, crashes or is cancelled, and any length of   *)
(* the history of trips.                                                   *)
(***************************************************************************)
EXTENDS Sessions, TLAPS

(* The sessions' table of trips is the store's, so that what is proved of  *)
(* arming and un-arming there is so here.                                  *)
Store == INSTANCE KillSwitchStore_proofs

AtMostOne(table) == \A i, j \in OpenTrips(table) : i = j

LEMMA SameTable ==
    ASSUME NEW table
    PROVE  /\ Store!TripRow = TripRow
           /\ Store!OpenTrips(table) = OpenTrips(table)
           /\ Store!OpenTrip(table) = OpenTrip(table)
           /\ Store!AtMostOne(table) <=> AtMostOne(table)
<1>1. Store!TripRow = TripRow
  BY DEF Store!TripRow, TripRow
<1>2. Store!OpenTrips(table) = OpenTrips(table)
  BY DEF Store!OpenTrips, OpenTrips, Store!IsOpen, IsOpen
<1>3. Store!OpenTrip(table) = OpenTrip(table)
  BY <1>2 DEF Store!OpenTrip, OpenTrip
<1> QED  BY <1>1, <1>2, <1>3 DEF Store!AtMostOne, AtMostOne

LEMMA OpenTripIs ==
    ASSUME NEW table \in Seq(TripRow), AtMostOne(table)
    PROVE  OpenTrip(table) \in 0 .. Len(table)
<1>1. table \in Seq(Store!TripRow) /\ Store!AtMostOne(table)
  BY SameTable
<1>2. Store!OpenTrip(table) = 0 \/ Store!OpenTrip(table) \in 1 .. Len(table)
  BY <1>1, Store!OpenTripIs, SwitchAssumption, SessionAssumption
<1>3. Len(table) \in Nat
  OBVIOUS
<1> QED  BY <1>2, <1>3, SameTable

LEMMA ArmedTable ==
    ASSUME NEW table \in Seq(TripRow), AtMostOne(table),
           NEW t \in Trigger, NEW src \in Source, NEW flat \in BOOLEAN,
           NEW new, new = Armed(table, t, src, flat)
    PROVE  /\ new \in Seq(TripRow)
           /\ AtMostOne(new)
           /\ Len(table) <= Len(new)
           /\ OpenTrip(table) # 0 => OpenTrip(new) = OpenTrip(table)
           /\ OpenTrip(table) = 0 => OpenTrip(new) = Len(table) + 1
<1>1. Store!NewTrip(t, src, flat) = NewTrip(t, src, flat)
  BY DEF Store!NewTrip, NewTrip
<1>2. new = Store!Armed(table, t, src, flat)
  BY <1>1, SameTable DEF Store!Armed, Armed
<1>3. table \in Seq(Store!TripRow) /\ Store!AtMostOne(table) /\ MaxTrips \in Nat
  BY SameTable, SessionAssumption
<1>4. /\ new \in Seq(Store!TripRow)
      /\ Store!AtMostOne(new)
      /\ Len(table) <= Len(new)
      /\ Store!OpenTrip(table) # 0 => Store!OpenTrip(new) = Store!OpenTrip(table)
      /\ Store!OpenTrip(table) = 0 => Store!OpenTrip(new) = Len(table) + 1
  BY <1>2, <1>3, Store!ArmedTable, SwitchAssumption
<1> QED  BY <1>4, SameTable

LEMMA ClearedTable ==
    ASSUME NEW table \in Seq(TripRow), NEW a \in Actor,
           NEW new, new = Cleared(table, a)
    PROVE  new \in Seq(TripRow) /\ OpenTrips(new) = {}
<1>1. new = Store!Cleared(table, a)
  BY DEF Store!Cleared, Cleared, Store!IsOpen, IsOpen
<1>2. table \in Seq(Store!TripRow)
  BY SameTable
<1>3. new \in Seq(Store!TripRow) /\ Store!OpenTrips(new) = {}
  BY <1>1, <1>2, Store!ClearedTable, SwitchAssumption, SessionAssumption
<1> QED  BY <1>3, SameTable

-----------------------------------------------------------------------------
Switches == {"no", "breach", "invariant", "cleared"}

(* Why a breach stays armed: the open trip, of which there is one at most, *)
(* can only be cleared by the step that clears every session's breach.     *)
IInv ==
    /\ trips \in Seq(TripRow)
    /\ AtMostOne(trips)
    /\ tripped \in [Run -> Switches]
    /\ BreachIsArmed

LEMMA IInvInit == Init => IInv
BY DEF Init, IInv, AtMostOne, OpenTrips, Switches, BreachIsArmed

(* An arming keeps the table well formed and leaves it armed, whoever arms *)
(* and whether or not it was armed before.                                 *)
LEMMA ArmsArm ==
    ASSUME IInv, NEW t \in Trigger, NEW src \in Source, NEW flat \in BOOLEAN,
           Arms(t, src, flat)
    PROVE  /\ trips' \in Seq(TripRow)
           /\ AtMostOne(trips')
           /\ OpenTrip(trips') # 0
<1>1. trips \in Seq(TripRow) /\ AtMostOne(trips) /\ trips' = Armed(trips, t, src, flat)
  BY DEF IInv, Arms
<1>2. /\ trips' \in Seq(TripRow)
      /\ AtMostOne(trips')
      /\ OpenTrip(trips) # 0 => OpenTrip(trips') = OpenTrip(trips)
      /\ OpenTrip(trips) = 0 => OpenTrip(trips') = Len(trips) + 1
  BY <1>1, ArmedTable
<1>3. Len(trips) + 1 # 0
  BY <1>1
<1> QED  BY <1>2, <1>3

(* Steps that neither touch the table nor trip a session for a breach.     *)
LEMMA Elsewhere ==
    ASSUME IInv, UNCHANGED trips, tripped' \in [Run -> Switches],
           \A r \in Run : tripped'[r] = "breach" => tripped[r] = "breach"
    PROVE  IInv'
BY DEF IInv, AtMostOne, OpenTrips, OpenTrip, IsOpen, BreachIsArmed

LEMMA IInvNext == IInv /\ [Next]_vars => IInv'
<1> SUFFICES ASSUME IInv, [Next]_vars PROVE IInv'
  OBVIOUS
<1>0. tripped \in [Run -> Switches]
  BY DEF IInv
<1>1. ASSUME UNCHANGED <<trips, tripped>> PROVE IInv'
  BY <1>0, <1>1, Elsewhere
<1>2. ASSUME NEW r \in Run, Halt(r) PROVE IInv'
  <2>1. Arms(Halting, r, FALSE) /\ tripped' = [tripped EXCEPT ![r] = "breach"]
    BY <1>2 DEF Halt
  <2>2. trips' \in Seq(TripRow) /\ AtMostOne(trips') /\ OpenTrip(trips') # 0
    BY <2>1, ArmsArm, SessionAssumption
  <2>3. tripped' \in [Run -> Switches]
    BY <1>0, <2>1 DEF Switches
  <2> QED  BY <2>2, <2>3 DEF IInv, AtMostOne, BreachIsArmed, OpenTrips,
      OpenTrip, IsOpen
<1>3. ASSUME NEW r \in Run, InvariantFails(r) PROVE IInv'
  <2>1. tripped' = [tripped EXCEPT ![r] = "invariant"] /\ UNCHANGED trips
    BY <1>3 DEF InvariantFails
  <2>2. tripped' \in [Run -> Switches]
    BY <1>0, <2>1 DEF Switches
  <2> QED  BY <1>0, <2>1, <2>2, Elsewhere
<1>4. ASSUME NEW r \in Run, FinalArm(r) PROVE IInv'
  <2>1. UNCHANGED tripped
    BY <1>4 DEF FinalArm, stop_vars
  <2>2. CASE tripped[r] = "no"
    BY <1>1, <1>4, <2>1, <2>2 DEF FinalArm
  <2>3. CASE tripped[r] # "no"
    <3>1. PICK flat \in Flat(r) : Arms(Halting, r, flat)
      BY <1>4, <2>3 DEF FinalArm
    <3>2. flat \in BOOLEAN
      BY DEF Flat
    <3>3. trips' \in Seq(TripRow) /\ AtMostOne(trips') /\ OpenTrip(trips') # 0
      BY <3>1, <3>2, ArmsArm, SessionAssumption
    <3> QED  BY <1>0, <2>1, <3>3 DEF IInv, AtMostOne, BreachIsArmed, OpenTrips,
        OpenTrip, IsOpen
  <2> QED  BY <2>2, <2>3
<1>5. CASE KillArm
  <2> DEFINE stopped == kill.active \ kill.failed
             src == IF \E r \in Run : stopped = {r} THEN CHOOSE r \in Run : stopped = {r}
                    ELSE Api
  <2>1. src \in Source
    BY SessionAssumption
  <2>2. Arms(Manual, src, FALSE) /\ UNCHANGED tripped
    BY <1>5 DEF KillArm, stop_vars
  <2>3. trips' \in Seq(TripRow) /\ AtMostOne(trips') /\ OpenTrip(trips') # 0
    BY <2>1, <2>2, ArmsArm, SessionAssumption
  <2> QED  BY <1>0, <2>2, <2>3 DEF IInv, AtMostOne, BreachIsArmed, OpenTrips,
      OpenTrip, IsOpen
<1>6. CASE UnarmClear
  <2>1. /\ trips' = Cleared(trips, Operator)
        /\ tripped' = [r \in Run |-> IF tripped[r] = "no" THEN "no" ELSE "cleared"]
    BY <1>6 DEF UnarmClear
  <2>2. trips' \in Seq(TripRow) /\ OpenTrips(trips') = {}
    BY <2>1, ClearedTable, SessionAssumption DEF IInv
  <2>3. tripped' \in [Run -> Switches] /\ \A r \in Run : tripped'[r] # "breach"
    BY <2>1 DEF Switches
  <2> QED  BY <2>2, <2>3 DEF IInv, AtMostOne, BreachIsArmed, OpenTrips,
      OpenTrip, IsOpen
<1>7. ASSUME NEW r \in Run, StartGate(r) \/ StartStep(r) PROVE IInv'
  BY <1>1, <1>7 DEF StartGate, StartStep, StartCreate, StartLook, StartClaim,
     StartLaunch,
                    StartReleases, StartFails, stop_vars
<1>8. ASSUME NEW r \in Run, WorkerStep(r) PROVE IInv'
  <2>1. CASE FinalArm(r)
    BY <1>4, <2>1
  <2>2. CASE ~ FinalArm(r)
    BY <1>1, <1>8, <2>2 DEF WorkerStep, MarkRunning, WorkerGate, WorkerLook,
       WorkerClaim,
                            Settle, Records, Releases, stop_vars
  <2> QED  BY <2>1, <2>2
<1>9. ASSUME NEW r \in Run,
             \/ Trade(r) \/ Raises(r) \/ Stops(r) \/ Crash(r)
             \/ Reap(r) \/ Cancel(r) \/ Stop(r) \/ KillTell(r)
      PROVE  IInv'
  BY <1>1, <1>9 DEF Trade, Raises, Stops, Crash, Reap, Cancel, Stop, KillTell,
     stop_vars
<1>10. ASSUME NEW e \in Endpoint, ListLook(e) PROVE IInv'
  BY <1>1, <1>10 DEF ListLook, stop_vars
<1>11. CASE ListPrune \/ Restart \/ KillSweep \/ UnarmRead
  BY <1>1, <1>11 DEF ListPrune, Restart, KillSweep, UnarmRead, stop_vars
<1>12. CASE UNCHANGED vars
  BY <1>1, <1>12 DEF vars, stop_vars
<1> QED
  BY <1>2, <1>3, <1>5, <1>6, <1>7, <1>8, <1>9, <1>10, <1>11, <1>12 DEF Next

(* A breach outlives the process: whatever crashes, restarts, is cancelled *)
(* or arms at the same time, the store is armed from the halt to the       *)
(* un-arm (on_halt in _execute_session, KillSwitchStore.arm).              *)
THEOREM BreachStaysArmed == Spec => []BreachIsArmed
<1>1. IInv => BreachIsArmed
  BY DEF IInv
<1> QED  BY <1>1, IInvInit, IInvNext, PTL DEF Spec

(* Two sessions that halt on one incident, with an operator killing and    *)
(* un-arming, leave one open trip between them (KillSwitchStore.arm's      *)
(* BEGIN IMMEDIATE), so what un-arming clears is what is in force.         *)
THEOREM OneTripInForce == Spec => [](\A i, j \in OpenTrips(trips) : i = j)
<1>1. IInv => \A i, j \in OpenTrips(trips) : i = j
  BY DEF IInv, AtMostOne
<1> QED  BY <1>1, IInvInit, IInvNext, PTL DEF Spec
-----------------------------------------------------------------------------
(* Types.  The table only grows, so that an un-arm's row stays in it.        *)
LEMMA ArmsType ==
    ASSUME TypeOK, AtMostOne(trips), NEW t \in Trigger, NEW src \in Source, NEW flat \in BOOLEAN,
           Arms(t, src, flat)
    PROVE  trips' \in Seq(TripRow) /\ Len(trips) <= Len(trips')
BY ArmedTable DEF TypeOK, Arms

(* What a claim prunes and adds stays within the symbols of the exchange.  *)
LEMMA ClaimsType ==
    ASSUME TypeOK, NEW r \in Run
    PROVE  /\ Kept(r) \in [Run -> SUBSET Symbol]
           /\ Granted(r) \/ Refused(r) => open' \in [Run -> SUBSET Symbol]
<1>1. open \in [Run -> SUBSET Symbol]
  BY DEF TypeOK
<1>2. Kept(r) \in [Run -> SUBSET Symbol]
  BY <1>1 DEF Kept, Pruned
<1>3. Upsert(Kept(r), r) \in [Run -> SUBSET Symbol]
  BY <1>2, ConfigAssumption DEF Upsert
<1> QED  BY <1>1, <1>2, <1>3 DEF Granted, Refused

(* What a request under way carries is told by its op.                     *)
LEMMA KillFields ==
    ASSUME TypeOK, kill.op = "telling"
    PROVE  /\ kill.active \subseteq Run /\ kill.left \subseteq Run /\ kill.failed \subseteq Run
           /\ kill = [op |-> "telling", active |-> kill.active, left |-> kill.left,
                      failed |-> kill.failed]
BY DEF TypeOK

LEMMA TypeNext == TypeOK /\ AtMostOne(trips) /\ [Next]_vars => TypeOK'
<1> SUFFICES ASSUME TypeOK, AtMostOne(trips), [Next]_vars PROVE TypeOK'
  OBVIOUS
<1> USE DEF TypeOK, Goes, Row, Looks, Forgets, Active, Unfinished, InProgress,
    Living, PastGate, AtWork, run_vars, stop_vars, api_vars
<1>1. ASSUME NEW r \in Run, StartGate(r) \/ StartStep(r) PROVE TypeOK'
  <2>1. CASE StartGate(r)
    BY <2>1 DEF StartGate
  <2>2. CASE StartCreate(r)
    BY <2>2 DEF StartCreate
  <2>3. CASE StartLook(r)
    BY <2>3 DEF StartLook
  <2>4. CASE StartClaim(r)
    BY <2>4, ClaimsType DEF StartClaim, Takes
  <2>5. CASE StartLaunch(r)
    BY <2>5 DEF StartLaunch
  <2>6. CASE StartReleases(r)
    BY <2>6 DEF StartReleases
  <2>7. CASE StartFails(r)
    BY <2>7 DEF StartFails
  <2> QED  BY <1>1, <2>1, <2>2, <2>3, <2>4, <2>5, <2>6, <2>7 DEF StartStep
<1>2. ASSUME NEW r \in Run, WorkerStep(r) PROVE TypeOK'
  <2>1. CASE MarkRunning(r)
    BY <2>1 DEF MarkRunning
  <2>2. CASE WorkerGate(r)
    BY <2>2 DEF WorkerGate
  <2>3. CASE WorkerLook(r)
    BY <2>3 DEF WorkerLook
  <2>4. CASE WorkerClaim(r)
    <3>1. open' \in [Run -> SUBSET Symbol]
      BY <2>4, ClaimsType DEF WorkerClaim
    <3>2. worker' \in [Run -> {"none", "gone"} \cup Living]
      BY <2>4 DEF WorkerClaim
    <3> QED  BY <2>4, <3>1, <3>2 DEF WorkerClaim, Takes
  <2>5. CASE Settle(r)
    <3>1. PICK left \in {FALSE, position[r]} : position' = [position EXCEPT ![r] = left]
      BY <2>5 DEF Settle
    <3>2. position' \in [Run -> BOOLEAN]
      BY <3>1
    <3> QED  BY <2>5, <3>2 DEF Settle
  <2>6. CASE FinalArm(r)
    <3>1. trips' \in Seq(TripRow) /\ Len(trips) <= Len(trips')
      <4>1. CASE tripped[r] = "no"
        BY <2>6, <4>1 DEF FinalArm
      <4>2. CASE tripped[r] # "no"
        <5>1. PICK flat \in Flat(r) : Arms(Halting, r, flat)
          BY <2>6, <4>2 DEF FinalArm
        <5>2. flat \in BOOLEAN
          BY DEF Flat
        <5> QED  BY <5>1, <5>2, ArmsType, SessionAssumption
      <4> QED  BY <4>1, <4>2
    <3>2. worker' \in [Run -> {"none", "gone"} \cup Living]
      BY <2>6 DEF FinalArm
    <3> QED BY <2>6, <3>1, <3>2 DEF FinalArm
  <2>7. CASE Records(r)
    <3>1. PICK s \in {"done", "failed"} : Row(r, s)
      BY <2>7 DEF Records
    <3>2. status' \in [Run -> {"absent", "done", "failed", "cancelled", "lost"} \cup Unfinished]
      BY <3>1
    <3>3. worker' \in [Run -> {"none", "gone"} \cup Living]
      BY <2>7 DEF Records
    <3> QED  BY <2>7, <3>2, <3>3 DEF Records
  <2>8. CASE Releases(r)
    BY <2>8 DEF Releases
  <2> QED  BY <1>2, <2>1, <2>2, <2>3, <2>4, <2>5, <2>6, <2>7, <2>8
      DEF WorkerStep
<1>3. ASSUME NEW r \in Run,
             Trade(r) \/ Stops(r) \/ Crash(r) \/ Raises(r) \/ InvariantFails(r)
      PROVE  TypeOK'
  <2>1. CASE Trade(r)
    BY <2>1 DEF Trade
  <2>2. CASE Stops(r)
    BY <2>2 DEF Stops
  <2>3. CASE Crash(r)
    BY <2>3 DEF Crash
  <2>4. CASE Raises(r)
    <3>1. PICK w \in {"failing", "broken"} : worker' = [worker EXCEPT ![r] = w]
      BY <2>4 DEF Raises
    <3>2. worker' \in [Run -> {"none", "gone"} \cup Living]
      BY <3>1
    <3> QED  BY <2>4, <3>2 DEF Raises
  <2>5. CASE InvariantFails(r)
    BY <2>5 DEF InvariantFails
  <2> QED  BY <1>3, <2>1, <2>2, <2>3, <2>4, <2>5
<1>4. ASSUME NEW r \in Run, Halt(r) PROVE TypeOK'
  <2>1. trips' \in Seq(TripRow) /\ Len(trips) <= Len(trips')
    BY <1>4, ArmsType, SessionAssumption DEF Halt
  <2> QED  BY <1>4, <2>1 DEF Halt
<1>5. ASSUME NEW r \in Run, Reap(r) PROVE TypeOK'
  BY <1>5 DEF Reap
<1>6. ASSUME NEW r \in Run, Cancel(r) PROVE TypeOK'
  <2>1. worker' \in [Run -> {"none", "gone"} \cup Living]
    BY <1>6 DEF Cancel
  <2> QED  BY <1>6, <2>1 DEF Cancel
<1>7. ASSUME NEW r \in Run, Stop(r) PROVE TypeOK'
  BY <1>7 DEF Stop
<1>8. ASSUME NEW r \in Run, KillTell(r) PROVE TypeOK'
  <2>1. r \in kill.left /\ kill.op = "telling" /\ UNCHANGED <<run_vars, position, tripped, open,
                                                               trips, unarming, lister, taken>>
    BY <1>8 DEF KillTell
  <2>2. CASE told' = [told EXCEPT ![r] = TRUE] /\ kill' = [kill EXCEPT !.left = @ \ {r}]
    BY <2>1, <2>2, KillFields
  <2>3. CASE UNCHANGED told /\ kill' = [kill EXCEPT !.left = @ \ {r}, !.failed = @ \cup {r}]
    BY <2>1, <2>3, KillFields
  <2> QED  BY <1>8, <2>2, <2>3 DEF KillTell
<1>9. ASSUME NEW e \in Endpoint, ListLook(e) PROVE TypeOK'
  BY <1>9 DEF ListLook
<1>10. CASE ListPrune
  BY <1>10 DEF ListPrune, Pruned, Takes
<1>11. CASE Restart
  BY <1>11 DEF Restart, Starting
<1>12. CASE KillSweep
  BY <1>12 DEF KillSweep
<1>13. CASE KillArm
  <2>1. trips' \in Seq(TripRow) /\ Len(trips) <= Len(trips')
    BY <1>13, ArmsType, SessionAssumption DEF KillArm
  <2>2. kill' \in [op : {"armed"}, failed : SUBSET Run, overlapped : SUBSET Run]
    BY <1>13, KillFields DEF KillArm
  <2> QED  BY <1>13, <2>1, <2>2 DEF KillArm
<1>14. CASE UnarmRead
  <2>1. OpenTrip(trips) \in 0 .. Len(trips)
    BY OpenTripIs
  <2> QED BY <1>14, <2>1 DEF UnarmRead
<1>15. CASE UnarmClear
  <2>1. trips' \in Seq(TripRow)
    BY <1>15, ClearedTable, SessionAssumption DEF UnarmClear
  <2> QED  BY <1>15, <2>1 DEF UnarmClear
<1>16. CASE UNCHANGED vars
  BY <1>16 DEF vars
<1> QED
  BY <1>1, <1>2, <1>3, <1>4, <1>5, <1>6, <1>7, <1>8, <1>9, <1>10, <1>11, <1>12,
     <1>13, <1>14, <1>15, <1>16 DEF Next

-----------------------------------------------------------------------------
(* One trader per symbol.  A worker follows its start; open rows are for   *)
(* symbols the run asked for, and those of two runs of an account are      *)
(* disjoint; and who is at work holds his rows unless they were taken.     *)
OneProcess == \A r \in Run : worker[r] # "none" => starter[r] = "over"

OwnRows == \A r \in Run : open[r] \subseteq SymbolsOf[r]

RowsApart ==
    \A q, r \in Run : q # r /\ EndpointOf[q] = EndpointOf[r] => open[q] \cap open[r] = {}

WorkersHold ==
    \A r \in Run : worker[r] \in AtWork => r \in taken \/ open[r] = SymbolsOf[r]

ClaimsInv == TypeOK /\ OneProcess /\ OwnRows /\ RowsApart /\ WorkersHold

LEMMA WorkersHoldApart == ClaimsInv => OneTraderUnlessTaken
BY DEF ClaimsInv, RowsApart, WorkersHold, OneTraderUnlessTaken, Share

(* Rows that only shrink stay apart.                                       *)
LEMMA FewerRows ==
    ASSUME ClaimsInv, \A r \in Run : open'[r] \subseteq open[r]
    PROVE  OwnRows' /\ RowsApart'
BY DEF ClaimsInv, OwnRows, RowsApart

(* A prune by somebody who is not at work takes, and says whose it took.   *)
LEMMA TakesHold ==
    ASSUME ClaimsInv, Takes,
           \A r \in Run : worker'[r] \in AtWork =>
               worker[r] \in AtWork \/ open'[r] = SymbolsOf[r]
    PROVE  WorkersHold'
BY DEF ClaimsInv, WorkersHold, Takes

(* The rows a claim leaves, granted or refused.                            *)
LEMMA ClaimKeeps ==
    ASSUME ClaimsInv, NEW r \in Run, Granted(r) \/ Refused(r)
    PROVE  /\ open' \in [Run -> SUBSET Symbol]
           /\ OwnRows' /\ RowsApart'
           /\ Granted(r) => open'[r] = SymbolsOf[r]
<1>1. open' \in [Run -> SUBSET Symbol] /\ Kept(r) \in [Run -> SUBSET Symbol]
  BY ClaimsType DEF ClaimsInv
<1>2. \A q \in Run : Kept(r)[q] \subseteq open[q]
  BY DEF Kept, Pruned
<1>3. CASE Refused(r)
  <2>1. open' = open /\ ~ Granted(r)
    BY <1>3 DEF Refused, Granted
  <2> QED  BY <1>1, <2>1 DEF ClaimsInv, OwnRows, RowsApart
<1>4. CASE Granted(r)
  <2>1. open' = [Kept(r) EXCEPT ![r] = @ \cup SymbolsOf[r]] /\ Conflicts(Kept(r), r) = {}
    BY <1>4 DEF Granted, Upsert
  <2>2. \A q \in Run : q # r => open'[q] = Kept(r)[q]
    BY <1>1, <2>1
  <2>3. open'[r] = SymbolsOf[r]
    <3>1. Kept(r)[r] \subseteq SymbolsOf[r]
      BY <1>2 DEF ClaimsInv, OwnRows
    <3> QED  BY <1>1, <2>1, <3>1
  <2>4. ASSUME NEW q \in Run, q # r, EndpointOf[q] = EndpointOf[r]
        PROVE  open'[q] \cap open'[r] = {}
    <3>1. Kept(r)[q] \cap SymbolsOf[r] = {}
      BY <2>1, <2>4 DEF Conflicts
    <3> QED  BY <2>2, <2>3, <2>4, <3>1
  <2>5. OwnRows'
    BY <1>2, <2>2, <2>3 DEF ClaimsInv, OwnRows
  <2>6. RowsApart'
    <3> SUFFICES ASSUME NEW p \in Run, NEW q \in Run, p # q, EndpointOf[p] = EndpointOf[q]
                 PROVE  open'[p] \cap open'[q] = {}
      BY DEF RowsApart
    <3>1. CASE p # r /\ q # r
      <4>1. open'[p] \subseteq open[p] /\ open'[q] \subseteq open[q]
        BY <1>2, <2>2, <3>1
      <4> QED  BY <4>1 DEF ClaimsInv, RowsApart
    <3>2. CASE p = r \/ q = r
      BY <2>4, <3>2
    <3> QED  BY <3>1, <3>2
  <2> QED  BY <1>1, <2>3, <2>5, <2>6
<1> QED  BY <1>3, <1>4

(* Steps that leave the rows and the history alone, and put nobody to work *)
(* who was not: a worker only appears where there is a start, which it     *)
(* ends.                                                                   *)
LEMMA ClaimsElsewhere ==
    ASSUME ClaimsInv, TypeOK', UNCHANGED <<open, taken>>,
           \A r \in Run : worker'[r] \in AtWork => worker[r] \in AtWork,
           OneProcess'
    PROVE  ClaimsInv'
BY DEF ClaimsInv, OwnRows, RowsApart, WorkersHold

LEMMA ClaimsNext == ClaimsInv /\ AtMostOne(trips) /\ [Next]_vars => ClaimsInv'
<1> SUFFICES ASSUME ClaimsInv, AtMostOne(trips), [Next]_vars PROVE ClaimsInv'
  OBVIOUS
<1>1. TypeOK /\ TypeOK' /\ OneProcess
  BY TypeNext DEF ClaimsInv
<1>2. /\ worker \in [Run -> {"none", "gone"} \cup Living]
      /\ starter \in [Run -> {"idle", "over"} \cup InProgress]
      /\ open \in [Run -> SUBSET Symbol]
  BY <1>1 DEF TypeOK
<1> USE DEF Goes, run_vars, stop_vars, api_vars
(* The start. *)
<1>3. ASSUME NEW r \in Run,
             StartGate(r) \/ StartCreate(r) \/ StartLook(r) \/ StartFails(r)
      PROVE  ClaimsInv'
  <2>1. UNCHANGED <<worker, open, taken>>
    BY <1>3 DEF StartGate, StartCreate, StartLook, StartFails
  <2>2. starter[r] # "over" /\ \A q \in Run : q # r => starter'[q] = starter[q]
    BY <1>2, <1>3 DEF StartGate, StartCreate, StartLook, StartFails
  <2>3. OneProcess'
    BY <1>1, <2>1, <2>2 DEF OneProcess
  <2> QED  BY <1>1, <2>1, <2>3, ClaimsElsewhere
<1>4. ASSUME NEW r \in Run, StartClaim(r) PROVE ClaimsInv'
  <2>1. (Granted(r) \/ Refused(r)) /\ Takes /\ UNCHANGED worker
    BY <1>4 DEF StartClaim
  <2>2. OneProcess'
    <3>1. starter[r] = "claiming" /\ \A q \in Run : q # r => starter'[q] = starter[q]
      BY <1>2, <1>4 DEF StartClaim
    <3> QED  BY <1>1, <2>1, <3>1 DEF OneProcess
  <2> QED  BY <1>1, <2>1, <2>2, ClaimKeeps, TakesHold DEF ClaimsInv
<1>5. ASSUME NEW r \in Run, StartLaunch(r) PROVE ClaimsInv'
  <2>1. /\ worker' = [worker EXCEPT ![r] = "boot"] /\ starter' = [starter EXCEPT ![r] = "over"]
        /\ UNCHANGED <<open, taken>>
    BY <1>5 DEF StartLaunch
  <2>2. OneProcess' /\ \A q \in Run : worker'[q] \in AtWork => worker[q] \in AtWork
    BY <1>1, <1>2, <2>1 DEF OneProcess, AtWork
  <2> QED  BY <1>1, <2>1, <2>2, ClaimsElsewhere
<1>6. ASSUME NEW r \in Run, StartReleases(r) PROVE ClaimsInv'
  <2>1. /\ starter[r] = "claimed" /\ starter' = [starter EXCEPT ![r] = "released"]
        /\ open' = [open EXCEPT ![r] = {}] /\ UNCHANGED <<worker, taken>>
    BY <1>6 DEF StartReleases
  <2>2. worker[r] = "none" /\ OneProcess'
    BY <1>1, <1>2, <2>1 DEF OneProcess
  <2>3. OwnRows' /\ RowsApart'
    BY <1>2, <2>1, FewerRows
  <2>4. WorkersHold'
    BY <1>2, <2>1, <2>2 DEF ClaimsInv, WorkersHold, AtWork
  <2> QED  BY <1>1, <2>2, <2>3, <2>4 DEF ClaimsInv
(* The worker. *)
<1>7. ASSUME NEW r \in Run, NEW w, worker[r] # "none", worker' = [worker EXCEPT ![r] = w],
             w \in AtWork => worker[r] \in AtWork, UNCHANGED <<starter, open, taken>>
      PROVE  ClaimsInv'
  <2>1. OneProcess' /\ \A q \in Run : worker'[q] \in AtWork => worker[q] \in AtWork
    BY <1>1, <1>2, <1>7 DEF OneProcess
  <2> QED  BY <1>1, <1>7, <2>1, ClaimsElsewhere
<1>8. ASSUME NEW r \in Run, MarkRunning(r) PROVE ClaimsInv'
  BY <1>7, <1>8 DEF MarkRunning, AtWork
<1>9. ASSUME NEW r \in Run, WorkerGate(r) PROVE ClaimsInv'
  BY <1>7, <1>9 DEF WorkerGate, AtWork
<1>10. ASSUME NEW r \in Run, WorkerLook(r) PROVE ClaimsInv'
  BY <1>7, <1>10 DEF WorkerLook, AtWork
<1>11. ASSUME NEW r \in Run, WorkerClaim(r) PROVE ClaimsInv'
  <2>1. (Granted(r) \/ Refused(r)) /\ Takes /\ UNCHANGED starter
    BY <1>11 DEF WorkerClaim
  <2>2. /\ worker[r] = "claim" /\ \A q \in Run : q # r => worker'[q] = worker[q]
        /\ worker'[r] = "trading" => Granted(r)
        /\ worker'[r] \in {"trading", "failing"}
    BY <1>2, <1>11 DEF WorkerClaim
  <2>3. OneProcess'
    BY <1>1, <2>1, <2>2 DEF OneProcess
  <2>4. \A q \in Run : worker'[q] \in AtWork => worker[q] \in AtWork \/ open'[q] = SymbolsOf[q]
    BY <2>1, <2>2, ClaimKeeps DEF AtWork
  <2> QED  BY <1>1, <2>1, <2>3, <2>4, ClaimKeeps, TakesHold DEF ClaimsInv
<1>12. ASSUME NEW r \in Run, Settle(r) PROVE ClaimsInv'
  BY <1>7, <1>12 DEF Settle, AtWork
<1>13. ASSUME NEW r \in Run, FinalArm(r) PROVE ClaimsInv'
  BY <1>7, <1>13 DEF FinalArm, AtWork
<1>14. ASSUME NEW r \in Run, Records(r) PROVE ClaimsInv'
  BY <1>7, <1>14 DEF Records, AtWork
<1>15. ASSUME NEW r \in Run, Releases(r) PROVE ClaimsInv'
  <2>1. /\ worker[r] = "recorded" /\ worker' = [worker EXCEPT ![r] = "gone"]
        /\ open' = [open EXCEPT ![r] = {}] /\ UNCHANGED <<starter, taken>>
    BY <1>15 DEF Releases
  <2>2. OneProcess'
    BY <1>1, <1>2, <2>1 DEF OneProcess
  <2>3. OwnRows' /\ RowsApart'
    BY <1>2, <2>1, FewerRows
  <2>4. WorkersHold'
    BY <1>2, <2>1 DEF ClaimsInv, WorkersHold, AtWork
  <2> QED  BY <1>1, <2>2, <2>3, <2>4 DEF ClaimsInv
<1>16. ASSUME NEW r \in Run, Halt(r) \/ InvariantFails(r) \/ Stops(r) PROVE ClaimsInv'
  <2>1. worker[r] \in AtWork /\ UNCHANGED <<starter, open, taken>>
    BY <1>16 DEF Halt, InvariantFails, Stops, AtWork
  <2>2. PICK w : worker' = [worker EXCEPT ![r] = w]
    BY <1>16 DEF Halt, InvariantFails, Stops
  <2> QED  BY <1>7, <2>1, <2>2 DEF AtWork
<1>17. ASSUME NEW r \in Run, Raises(r) PROVE ClaimsInv'
  <2>1. worker[r] # "none" /\ UNCHANGED <<starter, open, taken>>
    BY <1>17 DEF Raises, AtWork
  <2>2. PICK w \in {"failing", "broken"} : worker' = [worker EXCEPT ![r] = w]
    BY <1>17 DEF Raises
  <2> QED  BY <1>7, <2>1, <2>2 DEF AtWork
<1>18. ASSUME NEW r \in Run, Crash(r) \/ Cancel(r) PROVE ClaimsInv'
  <2>1. UNCHANGED <<starter, open, taken>>
    BY <1>18 DEF Crash, Cancel
  <2>2. \/ UNCHANGED worker
        \/ worker[r] # "none" /\ worker' = [worker EXCEPT ![r] = "gone"]
    BY <1>18 DEF Crash, Cancel, Alive, Living, PastGate, AtWork
  <2>3. CASE UNCHANGED worker
    BY <1>1, <2>1, <2>3, ClaimsElsewhere DEF OneProcess
  <2> QED  BY <1>7, <2>1, <2>2, <2>3 DEF AtWork
(* The others. *)
<1>19. ASSUME UNCHANGED <<worker, starter, open, taken>> PROVE ClaimsInv'
  BY <1>1, <1>19, ClaimsElsewhere DEF OneProcess
<1>20. ASSUME NEW r \in Run, Trade(r) \/ Reap(r) \/ Stop(r) \/ KillTell(r) PROVE ClaimsInv'
  BY <1>19, <1>20 DEF Trade, Reap, Stop, KillTell
<1>21. ASSUME NEW e \in Endpoint, ListLook(e) PROVE ClaimsInv'
  BY <1>19, <1>21 DEF ListLook
<1>22. CASE KillSweep \/ KillArm \/ UnarmRead \/ UnarmClear \/ UNCHANGED vars
  BY <1>19, <1>22 DEF KillSweep, KillArm, UnarmRead, UnarmClear, vars
<1>23. CASE ListPrune
  <2>1. Takes /\ UNCHANGED <<worker, starter>> /\ \A r \in Run : open'[r] \subseteq open[r]
    BY <1>23 DEF ListPrune, Pruned
  <2> QED  BY <1>1, <2>1, FewerRows, TakesHold DEF ClaimsInv, OneProcess
<1>24. CASE Restart
  <2>1. UNCHANGED <<worker, open, taken>> /\ \A r \in Run : starter[r] = "over" => starter'[r] = "over"
    BY <1>24 DEF Restart
  <2>2. OneProcess'
    BY <1>1, <2>1 DEF OneProcess
  <2> QED  BY <1>1, <2>1, <2>2, ClaimsElsewhere
<1> QED
  BY <1>3, <1>4, <1>5, <1>6, <1>8, <1>9, <1>10, <1>11, <1>12, <1>13, <1>14, <1>15,
     <1>16, <1>17, <1>18, <1>20, <1>21, <1>22, <1>23, <1>24 DEF Next, StartStep, WorkerStep

-----------------------------------------------------------------------------
(* The operator's kill.  While it tells, whoever was active at its sweep   *)
(* is still on its list, or told, or noted as one that could not be; once  *)
(* it has armed, the store is armed, which closes the workers' gate.       *)
KillInv ==
    /\ kill.op = "telling" =>
           \A r \in kill.active : r \in kill.left \/ told[r] \/ r \in kill.failed
    /\ kill.op = "armed" => OpenTrip(trips) # 0
    /\ KillReachesAll

(* Steps of which the kill hears nothing: nobody passes the gate, nobody   *)
(* is less told, and an armed store stays armed.                           *)
LEMMA KillElsewhere ==
    ASSUME TypeOK, KillInv, UNCHANGED kill,
           \A r \in Run : told[r] => told'[r],
           \A r \in Run : worker'[r] \in PastGate => worker[r] \in PastGate,
           OpenTrip(trips) # 0 => OpenTrip(trips)' # 0
    PROVE  KillInv'
<1>1. kill.op = "telling" => kill.active \subseteq Run
  BY KillFields
<1> QED  BY <1>1 DEF KillInv, KillReachesAll

(* Arming and everything but un-arming keep the store armed.               *)
LEMMA StaysArmed ==
    ASSUME IInv, [Next]_vars, ~ UnarmClear, OpenTrip(trips) # 0
    PROVE  OpenTrip(trips') # 0
<1> USE DEF run_vars, stop_vars, api_vars
<1>1. ASSUME UNCHANGED trips PROVE OpenTrip(trips') # 0
  BY <1>1
<1>2. ASSUME NEW r \in Run, Halt(r) PROVE OpenTrip(trips') # 0
  BY <1>2, ArmsArm, SessionAssumption DEF Halt
<1>3. ASSUME NEW r \in Run, FinalArm(r) PROVE OpenTrip(trips') # 0
  <2>1. CASE UNCHANGED trips
    BY <2>1
  <2>2. CASE \E flat \in Flat(r) : Arms(Halting, r, flat)
    <3>1. PICK flat \in Flat(r) : Arms(Halting, r, flat)
      BY <2>2
    <3>2. flat \in BOOLEAN
      BY DEF Flat
    <3> QED  BY <3>1, <3>2, ArmsArm, SessionAssumption
  <2> QED  BY <1>3, <2>1, <2>2 DEF FinalArm
<1>4. CASE KillArm
  <2> DEFINE stopped == kill.active \ kill.failed
             src == IF \E r \in Run : stopped = {r} THEN CHOOSE r \in Run : stopped = {r}
                    ELSE Api
  <2>1. src \in Source
    BY SessionAssumption
  <2>2. Arms(Manual, src, FALSE)
    BY <1>4 DEF KillArm
  <2> QED  BY <2>1, <2>2, ArmsArm, SessionAssumption
<1>5. ASSUME NEW r \in Run, StartGate(r) \/ StartStep(r) PROVE UNCHANGED trips
  BY <1>5 DEF StartGate, StartStep, StartCreate, StartLook, StartClaim, StartLaunch,
     StartReleases, StartFails
<1>6. ASSUME NEW r \in Run, WorkerStep(r), ~ FinalArm(r) PROVE UNCHANGED trips
  BY <1>6 DEF WorkerStep, MarkRunning, WorkerGate, WorkerLook, WorkerClaim, Settle, Records,
     Releases
<1>7. ASSUME NEW r \in Run,
             \/ Trade(r) \/ InvariantFails(r) \/ Raises(r) \/ Stops(r) \/ Crash(r)
             \/ Reap(r) \/ Cancel(r) \/ Stop(r) \/ KillTell(r)
      PROVE  UNCHANGED trips
  BY <1>7 DEF Trade, InvariantFails, Raises, Stops, Crash, Reap, Cancel, Stop, KillTell
<1>8. ASSUME NEW e \in Endpoint, ListLook(e) PROVE UNCHANGED trips
  BY <1>8 DEF ListLook
<1>9. CASE ListPrune \/ Restart \/ KillSweep \/ UnarmRead \/ UNCHANGED vars
  BY <1>9 DEF ListPrune, Restart, KillSweep, UnarmRead, vars
<1> QED
  BY <1>1, <1>2, <1>3, <1>4, <1>5, <1>6, <1>7, <1>8, <1>9 DEF Next

LEMMA KillNext == KillInv /\ TypeOK /\ IInv /\ [Next]_vars => KillInv'
<1> SUFFICES ASSUME KillInv, TypeOK, IInv, [Next]_vars PROVE KillInv'
  OBVIOUS
<1>1. worker \in [Run -> {"none", "gone"} \cup Living] /\ told \in [Run -> BOOLEAN]
  BY DEF TypeOK
<1>2. ~ UnarmClear => (OpenTrip(trips) # 0 => OpenTrip(trips') # 0)
  BY StaysArmed
<1> USE DEF Goes, run_vars, stop_vars, api_vars
<1>3. ASSUME NEW r \in Run, StartGate(r) \/ StartStep(r), ~ UnarmClear PROVE KillInv'
  <2>1. /\ UNCHANGED <<kill, told>>
        /\ worker' = worker \/ worker' = [worker EXCEPT ![r] = "boot"]
    BY <1>3 DEF StartGate, StartStep, StartCreate, StartLook, StartClaim, StartLaunch,
       StartReleases, StartFails
  <2>2. \A q \in Run : worker'[q] \in PastGate => worker[q] \in PastGate
    BY <1>1, <2>1 DEF PastGate
  <2> QED  BY <1>2, <1>3, <2>1, <2>2, KillElsewhere
<1>4. ASSUME NEW r \in Run, WorkerGate(r) PROVE KillInv'
  <2>1. /\ UNCHANGED <<kill, told, trips>>
        /\ worker' = [worker EXCEPT ![r] = IF OpenTrip(trips) = 0 THEN "look" ELSE "failing"]
    BY <1>4 DEF WorkerGate
  <2>2. CASE OpenTrip(trips) # 0
    <3>1. \A q \in Run : worker'[q] \in PastGate => worker[q] \in PastGate
      BY <1>1, <2>1, <2>2 DEF PastGate
    <3> QED  BY <2>1, <3>1, KillElsewhere
  <2>3. CASE OpenTrip(trips) = 0
    <3>1. kill.op # "armed"
      BY <2>3 DEF KillInv
    <3> QED  BY <2>1, <3>1 DEF KillInv, KillReachesAll
  <2> QED  BY <2>2, <2>3
<1>5. ASSUME NEW r \in Run, ~ WorkerGate(r), ~ UnarmClear,
             \/ WorkerStep(r) \/ Trade(r) \/ Halt(r) \/ InvariantFails(r) \/ Raises(r)
             \/ Stops(r) \/ Crash(r) \/ Reap(r) \/ Cancel(r)
      PROVE  KillInv'
  <2>1. UNCHANGED <<kill, told>>
    BY <1>5 DEF WorkerStep, MarkRunning, WorkerLook, WorkerClaim, Settle, FinalArm,
       Records, Releases, Trade, Halt, InvariantFails, Raises, Stops, Crash, Reap, Cancel
  <2>2. \/ UNCHANGED worker
        \/ \E w : /\ worker' = [worker EXCEPT ![r] = w]
                  /\ w \in PastGate => worker[r] \in PastGate
    BY <1>5 DEF WorkerStep, MarkRunning, WorkerLook, WorkerClaim, Settle, FinalArm,
       Records, Releases, Trade, Halt, InvariantFails, Raises, Stops, Crash, Reap, Cancel,
       PastGate
  <2>3. \A q \in Run : worker'[q] \in PastGate => worker[q] \in PastGate
    BY <1>1, <2>2
  <2> QED  BY <1>2, <1>5, <2>1, <2>3, KillElsewhere
<1>6. ASSUME NEW r \in Run, Stop(r), ~ UnarmClear PROVE KillInv'
  BY <1>1, <1>2, <1>6, KillElsewhere DEF Stop
<1>7. ASSUME NEW r \in Run, KillTell(r) PROVE KillInv'
  <2>1. kill.op = "telling" /\ kill.active \subseteq Run
    BY <1>7, KillFields DEF KillTell
  <2>2. CASE told' = [told EXCEPT ![r] = TRUE] /\ kill' = [kill EXCEPT !.left = @ \ {r}]
    <3>1. /\ kill'.op = "telling" /\ kill'.active = kill.active /\ kill'.failed = kill.failed
          /\ kill'.left = kill.left \ {r}
      BY <2>1, <2>2, KillFields
    <3> QED  BY <1>1, <2>1, <2>2, <3>1 DEF KillInv, KillReachesAll
  <2>3. CASE UNCHANGED told /\ kill' = [kill EXCEPT !.left = @ \ {r}, !.failed = @ \cup {r}]
    <3>1. /\ kill'.op = "telling" /\ kill'.active = kill.active
          /\ kill'.failed = kill.failed \cup {r} /\ kill'.left = kill.left \ {r}
      BY <2>1, <2>3, KillFields
    <3> QED  BY <2>1, <2>3, <3>1 DEF KillInv, KillReachesAll
  <2> QED  BY <1>7, <2>2, <2>3 DEF KillTell
<1>8. CASE KillArm
  <2>1. /\ kill.op = "telling" /\ kill.left = {} /\ UNCHANGED <<told, worker>>
        /\ kill' = [op |-> "armed", failed |-> kill.failed,
                    overlapped |-> {r \in Run : worker[r] \in PastGate} \ kill.active]
    BY <1>8 DEF KillArm
  <2>2. OpenTrip(trips') # 0
    <3> DEFINE stopped == kill.active \ kill.failed
               src == IF \E r \in Run : stopped = {r} THEN CHOOSE r \in Run : stopped = {r}
                      ELSE Api
    <3>1. src \in Source
      BY SessionAssumption
    <3>2. Arms(Manual, src, FALSE)
      BY <1>8 DEF KillArm
    <3> QED  BY <3>1, <3>2, ArmsArm, SessionAssumption
  <2>3. \A r \in Run : worker[r] \in PastGate =>
            told[r] \/ r \in kill.failed \/ r \in kill'.overlapped
    BY <2>1 DEF KillInv
  <2> QED  BY <2>1, <2>2, <2>3 DEF KillInv, KillReachesAll
<1>9. CASE KillSweep
  <2>1. kill'.op = "telling" /\ kill'.left = kill'.active
    BY <1>9 DEF KillSweep
  <2> QED  BY <2>1 DEF KillInv, KillReachesAll
<1>10. CASE UnarmClear
  <2>1. UNCHANGED told /\ kill' = IF kill.op = "armed" THEN [op |-> "idle"] ELSE kill
    BY <1>10 DEF UnarmClear
  <2>2. kill'.op # "armed"
    BY <2>1
  <2> QED  BY <2>1, <2>2 DEF KillInv, KillReachesAll
<1>11. CASE Restart /\ ~ UnarmClear
  <2>1. /\ UNCHANGED <<worker, trips>> /\ \A r \in Run : told[r] => told'[r]
        /\ kill' = IF kill.op = "telling" THEN [op |-> "idle"] ELSE kill
    BY <1>11 DEF Restart
  <2>2. CASE kill.op = "telling"
    BY <2>1, <2>2 DEF KillInv, KillReachesAll
  <2>3. CASE kill.op # "telling"
    BY <2>1, <2>3, KillElsewhere
  <2> QED  BY <2>2, <2>3
<1>12. CASE ListPrune \/ UnarmRead \/ UNCHANGED vars
  <2>1. UNCHANGED <<kill, told, worker, trips>>
    BY <1>12 DEF ListPrune, UnarmRead, vars
  <2> QED  BY <2>1, KillElsewhere
<1>13. ASSUME NEW e \in Endpoint, ListLook(e) PROVE KillInv'
  <2>1. UNCHANGED <<kill, told, worker, trips>>
    BY <1>13 DEF ListLook
  <2> QED  BY <2>1, KillElsewhere
<1> QED
  BY <1>3, <1>4, <1>5, <1>6, <1>7, <1>8, <1>9, <1>10, <1>11, <1>12, <1>13 DEF Next

LEMMA TypeInit == Init => TypeOK /\ AtMostOne(trips)
BY IInvInit DEF Init, TypeOK, IInv

LEMMA ClaimsInit == Init => ClaimsInv /\ KillInv
BY TypeInit DEF Init, ClaimsInv, OneProcess, OwnRows, RowsApart, WorkersHold, AtWork,
   KillInv, KillReachesAll

(* Rows, workers, requests, claims and trips keep their types (the state   *)
(* of sessions.py, worker.py and their stores).                            *)
THEOREM TypeCorrect == Spec => []TypeOK
<1>1. TypeOK /\ IInv /\ [Next]_vars => TypeOK' /\ IInv'
  BY TypeNext, IInvNext DEF IInv
<1> QED  BY <1>1, TypeInit, IInvInit, PTL DEF Spec

(* However many sessions, symbols and accounts there are, and whatever     *)
(* overlaps, sleeps, is cancelled, crashes or restarts: no two sessions    *)
(* work on one symbol of an account, unless a prune has taken the claim of *)
(* one of them while it worked (the claim of start_session and the         *)
(* worker's, SymbolClaims.claim).                                          *)
THEOREM OneTraderHolds == Spec => []OneTraderUnlessTaken
<1>1. Init => ClaimsInv /\ IInv
  BY ClaimsInit, IInvInit
<1>2. ClaimsInv /\ IInv /\ [Next]_vars => ClaimsInv' /\ IInv'
  BY ClaimsNext, IInvNext DEF IInv
<1> QED  BY <1>1, <1>2, WorkersHoldApart, PTL DEF Spec

(* For any number of sessions, after the operator's kill has armed and     *)
(* until somebody un-arms, nobody trades or is past its gate who was not   *)
(* told to stop, but those the response names and those whose start the    *)
(* kill overlapped (kill).                                                 *)
THEOREM KillReaches == Spec => []KillReachesAll
<1>1. Init => TypeOK /\ IInv /\ KillInv
  BY TypeInit, ClaimsInit, IInvInit
<1>2. TypeOK /\ IInv /\ KillInv /\ [Next]_vars => TypeOK' /\ IInv' /\ KillInv'
  BY TypeNext, IInvNext, KillNext DEF IInv
<1>3. KillInv => KillReachesAll
  BY DEF KillInv
<1> QED  BY <1>1, <1>2, <1>3, PTL DEF Spec
=============================================================================
