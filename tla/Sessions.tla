------------------------------ MODULE Sessions ------------------------------
(***************************************************************************)
(* Trading sessions from end to end: the API server's start, stop, cancel, *)
(* kill and un-arm requests (perplab.api.routers.sessions), the session    *)
(* workers (perplab.live.worker) and the three stores they meet in: run    *)
(* rows, symbol claims and kill-switch trips.  Each request and each       *)
(* worker goes on step by step, a step being one transaction, one control  *)
(* file or one process event; between two steps anybody else may act.  The *)
(* run rows are RunStore's, with a reap in one step; the tables are        *)
(* ClaimTable's and TripTable's.  Each run is started at most once.        *)
(***************************************************************************)
EXTENDS ClaimTable, TripTable, FiniteSets

CONSTANTS Paper,        \* the runs whose orders go to the simulator
          Api,          \* the source of a trip that names no session
          Operator,     \* who un-arms
          Halting, Manual,   \* the triggers: the risk layer, POST /kill
          Traders,      \* the runs whose strategy opens positions
          MaxTrips      \* bound on the history of trips

ASSUME SessionAssumption ==
    /\ Paper \subseteq Run /\ Traders \subseteq Run
    /\ Api \notin Run
    /\ Source = Run \cup {Api}
    /\ Operator \in Actor
    /\ {Halting, Manual} \subseteq Trigger
    /\ MaxTrips \in Nat

VARIABLES status,       \* the run's row
          handle,       \* the API server has the handle of the run's worker
          starter,      \* how far the request that starts the run has come
          seen,         \* the active runs, as the run's own claim found them
          worker,       \* how far the run's worker has come
          told,         \* the run's control file asks it to stop
          position,     \* the session has a position open
          tripped,      \* the session's in-memory kill switch, see TypeOK
          open,         \* the symbol claims
          trips,        \* the kill-switch trips
          unarming,     \* the trip an un-arm has read and will clear, or 0
          kill,         \* how far POST /kill has come
          lister,       \* how far GET /symbol-claims has come
          taken         \* history: whose claim somebody's prune has taken at work

run_vars   == <<status, handle, starter, seen, worker>>
stop_vars  == <<told, position, tripped>>
api_vars   == <<unarming, kill, lister, taken>>
vars == <<run_vars, stop_vars, open, trips, api_vars>>

Unfinished == {"queued", "running"}
InProgress == {"gated", "created", "claiming", "claimed", "refused", "released"}
PastGate   == {"look", "claim", "trading"}
AtWork     == {"trading", "ending", "halted"}
Living     == PastGate \cup AtWork \cup
              {"boot", "gate", "broken", "closed", "completing", "failing", "recorded"}

(* kill: while POST /kill tells, the runs active at its sweep (history),   *)
(* those it has still to tell and those it failed to tell; once it has     *)
(* armed (history only), the latter, and those who had passed their own    *)
(* gate by then although they were not active at the sweep.                *)
(* tripped: a breach went through _perform_halt, an invariant failure      *)
(* through note_invariant_failure; cleared once somebody has un-armed the  *)
(* store since, which the session does not learn.                          *)
TypeOK ==
    /\ status \in [Run -> {"absent", "done", "failed", "cancelled", "lost"} \cup Unfinished]
    /\ handle \in [Run -> BOOLEAN]
    /\ starter \in [Run -> {"idle", "over"} \cup InProgress]
    /\ seen \in [Run -> SUBSET Run]
    /\ worker \in [Run -> {"none", "gone"} \cup Living]
    /\ told \in [Run -> BOOLEAN]
    /\ position \in [Run -> BOOLEAN]
    /\ tripped \in [Run -> {"no", "breach", "invariant", "cleared"}]
    /\ open \in [Run -> SUBSET Symbol]
    /\ trips \in Seq(TripRow)
    /\ unarming \in 0 .. Len(trips)
    /\ kill \in [op : {"idle"}]
                \cup [op : {"telling"}, active : SUBSET Run, left : SUBSET Run,
                      failed : SUBSET Run]
                \cup [op : {"armed"}, failed : SUBSET Run, overlapped : SUBSET Run]
    /\ lister \in [op : {"idle"}]
                  \cup [op : {"listing"}, endpoint : Endpoint, live : SUBSET Run]
    /\ taken \subseteq Run

Init ==
    /\ status = [r \in Run |-> "absent"]
    /\ handle = [r \in Run |-> FALSE]
    /\ starter = [r \in Run |-> "idle"]
    /\ seen = [r \in Run |-> {}]
    /\ worker = [r \in Run |-> "none"]
    /\ told = [r \in Run |-> FALSE]
    /\ position = [r \in Run |-> FALSE]
    /\ tripped = [r \in Run |-> "no"]
    /\ open = [r \in Run |-> {}]
    /\ trips = <<>>
    /\ unarming = 0
    /\ kill = [op |-> "idle"]
    /\ lister = [op |-> "idle"]
    /\ taken = {}

-----------------------------------------------------------------------------
Active == {r \in Run : status[r] \in Unfinished}

Starting == {r \in Run : starter[r] \in InProgress}

Alive(r) == worker[r] \in Living

Dead(r) == worker[r] \in {"none", "gone"} /\ r \notin Starting

Goes(var, r, from, to) == var[r] = from /\ var' = [var EXCEPT ![r] = to]

Row(r, s) == status' = [status EXCEPT ![r] = s]

(* KillSwitchStore.arm.                                                    *)
Arms(t, src, flat) == trips' = Armed(trips, t, src, flat)

(* SymbolClaims.claim by a caller of run r with the enumeration seen[r].   *)
Kept(r) == Pruned(open, Stale(open, EndpointOf[r], seen[r]))

Granted(r) ==
    /\ Conflicts(Kept(r), r) = {}
    /\ open' = Upsert(Kept(r), r)

Refused(r) == Conflicts(Kept(r), r) # {} /\ UNCHANGED open

(* A prune may take rows of a session at work (its own claim takes none).  *)
Takes == taken' = taken \cup {r \in Run : worker[r] \in AtWork /\ open'[r] # open[r]}

Looks(r)   == seen' = [seen EXCEPT ![r] = Active]
Forgets(r) == seen' = [seen EXCEPT ![r] = {}]

-----------------------------------------------------------------------------
(* POST /sessions: gate, row, enumeration, claim, launch.                  *)

StartGate(r) ==
    /\ OpenTrip(trips) = 0
    /\ Goes(starter, r, "idle", "gated")
    /\ UNCHANGED <<status, handle, seen, worker, stop_vars, open, trips, api_vars>>

StartCreate(r) ==
    /\ Goes(starter, r, "gated", "created")
    /\ Row(r, "queued")
    /\ UNCHANGED <<handle, seen, worker, stop_vars, open, trips, api_vars>>

StartLook(r) ==
    /\ Goes(starter, r, "created", "claiming")
    /\ Looks(r)
    /\ UNCHANGED <<status, handle, worker, stop_vars, open, trips, api_vars>>

StartClaim(r) ==
    /\ \/ Granted(r) /\ Goes(starter, r, "claiming", "claimed")
       \/ Refused(r) /\ Goes(starter, r, "claiming", "refused")
    /\ Forgets(r)
    /\ Takes
    /\ UNCHANGED <<status, handle, worker, stop_vars, trips, unarming, kill, lister>>

(* launch_session, whatever became of the row meanwhile.                   *)
StartLaunch(r) ==
    /\ Goes(starter, r, "claimed", "over")
    /\ handle' = [handle EXCEPT ![r] = TRUE]
    /\ worker' = [worker EXCEPT ![r] = "boot"]
    /\ UNCHANGED <<status, seen, stop_vars, open, trips, api_vars>>

(* The spawn fails or the key has expired: release first ...               *)
StartReleases(r) ==
    /\ Goes(starter, r, "claimed", "released")
    /\ open' = [open EXCEPT ![r] = {}]
    /\ UNCHANGED <<status, handle, seen, worker, stop_vars, trips, api_vars>>

(* ... and then, as after a refused claim, the row says so.                *)
StartFails(r) ==
    /\ \/ Goes(starter, r, "released", "over") /\ \E s \in {"failed", "cancelled"} : Row(r, s)
       \/ Goes(starter, r, "refused", "over") /\ Row(r, "cancelled")
    /\ UNCHANGED <<handle, seen, worker, stop_vars, open, trips, api_vars>>

-----------------------------------------------------------------------------
(* The worker, in the order of _execute_session and main.                  *)

MarkRunning(r) ==
    /\ Goes(worker, r, "boot", "gate")
    /\ Row(r, "running")
    /\ UNCHANGED <<handle, starter, seen, stop_vars, open, trips, api_vars>>

WorkerGate(r) ==
    /\ Goes(worker, r, "gate", IF OpenTrip(trips) = 0 THEN "look" ELSE "failing")
    /\ UNCHANGED <<status, handle, starter, seen, stop_vars, open, trips, api_vars>>

WorkerLook(r) ==
    /\ Goes(worker, r, "look", "claim")
    /\ Looks(r)
    /\ UNCHANGED <<status, handle, starter, stop_vars, open, trips, api_vars>>

(* Wrong variant of WorkerClaim: what the request was granted still stands. *)
WorkerClaim_Granted(r) ==
    /\ Goes(worker, r, "claim", "trading")
    /\ Forgets(r)
    /\ UNCHANGED <<status, handle, starter, stop_vars, open, trips, api_vars>>

WorkerClaim(r) ==
    /\ \/ Granted(r) /\ Goes(worker, r, "claim", "trading")
       \/ Refused(r) /\ Goes(worker, r, "claim", "failing")
    /\ Forgets(r)
    /\ Takes
    /\ UNCHANGED <<status, handle, starter, stop_vars, trips, unarming, kill, lister>>

(* The strategy opens a position, or closes it.                            *)
Trade(r) ==
    /\ worker[r] = "trading" /\ r \in Traders
    /\ position' = [position EXCEPT ![r] = ~ @]
    /\ UNCHANGED <<run_vars, told, tripped, open, trips, api_vars>>

(* Wrong variant of Halt: the store is armed in the finally only.          *)
Halt_InMemory(r) ==
    /\ worker[r] \in {"trading", "ending"}
    /\ worker' = [worker EXCEPT ![r] = "halted"]
    /\ tripped' = [tripped EXCEPT ![r] = "breach"]
    /\ UNCHANGED <<status, handle, starter, seen, told, position, open, trips, api_vars>>

(* _perform_halt, on a breach while trading or in the final reconciliation *)
(* of an ending: on_halt arms the store before anything else.              *)
Halt(r) ==
    /\ worker[r] \in {"trading", "ending"}
    /\ worker' = [worker EXCEPT ![r] = "halted"]
    /\ tripped' = [tripped EXCEPT ![r] = "breach"]
    /\ Arms(Halting, r, FALSE)
    /\ UNCHANGED <<status, handle, starter, seen, told, position, open, api_vars>>

(* note_invariant_failure: the switch trips in memory; the session is      *)
(* abandoned, and the store is armed when the worker's finally is reached. *)
InvariantFails(r) ==
    /\ worker[r] \in {"trading", "ending"}
    /\ worker' = [worker EXCEPT ![r] = "broken"]
    /\ tripped' = [tripped EXCEPT ![r] = "invariant"]
    /\ UNCHANGED <<status, handle, starter, seen, told, position, open, trips, api_vars>>

(* Any other exception: before there is a session it goes on to main, and  *)
(* afterwards through the finally, the session abandoned as it stands.     *)
Raises(r) ==
    /\ \/ worker[r] \in {"gate", "look", "claim"} /\ worker' = [worker EXCEPT ![r] = "failing"]
       \/ worker[r] \in AtWork /\ worker' = [worker EXCEPT ![r] = "broken"]
    /\ Forgets(r)
    /\ UNCHANGED <<status, handle, starter, stop_vars, open, trips, api_vars>>

(* The session reads a stop, or ends of its own accord.                    *)
Stops(r) ==
    /\ Goes(worker, r, "trading", "ending")
    /\ UNCHANGED <<status, handle, starter, seen, stop_vars, open, trips, api_vars>>

(* Wrong variant of Settle: the wait for the exit has no bound.            *)
Settle_UntilFlat(r) ==
    /\ worker[r] \in {"ending", "halted"}
    /\ ~ position[r]
    /\ worker' = [worker EXCEPT ![r] = "closed"]
    /\ UNCHANGED <<status, handle, starter, seen, stop_vars, open, trips, api_vars>>

(* _end, _end_live: the book is cancelled, the position closed if that was *)
(* asked for and the venue did it.                                         *)
Settle(r) ==
    /\ worker[r] \in {"ending", "halted"}
    /\ worker' = [worker EXCEPT ![r] = "closed"]
    /\ \E left \in {FALSE, position[r]} : position' = [position EXCEPT ![r] = left]
    /\ UNCHANGED <<status, handle, starter, seen, told, tripped, open, trips, api_vars>>

(* _arm_kill_switch, in the finally.  A live session that was abandoned    *)
(* has no final reconciliation; another one's may have failed.             *)
Flat(r) ==
    IF r \in Paper THEN {~ position[r]}
    ELSE IF worker[r] = "broken" THEN {FALSE} ELSE {FALSE, ~ position[r]}

FinalArm(r) ==
    /\ worker[r] \in {"closed", "broken"}
    /\ worker' = [worker EXCEPT ![r] = IF @ = "closed" THEN "completing" ELSE "failing"]
    /\ IF tripped[r] = "no" THEN UNCHANGED trips
       ELSE \E flat \in Flat(r) : Arms(Halting, r, flat)
    /\ UNCHANGED <<status, handle, starter, seen, stop_vars, open, api_vars>>

(* complete, or fail where the resource guard or an exception says so.     *)
Records(r) ==
    /\ \/ Goes(worker, r, "completing", "recorded") /\ \E s \in {"done", "failed"} : Row(r, s)
       \/ Goes(worker, r, "failing", "recorded") /\ Row(r, "failed")
    /\ UNCHANGED <<handle, starter, seen, stop_vars, open, trips, api_vars>>

(* main's finally, after the shadow: the claim goes, then the process.     *)
Releases(r) ==
    /\ Goes(worker, r, "recorded", "gone")
    /\ open' = [open EXCEPT ![r] = {}]
    /\ UNCHANGED <<status, handle, starter, seen, stop_vars, trips, api_vars>>

Crash(r) ==
    /\ Alive(r)
    /\ worker' = [worker EXCEPT ![r] = "gone"]
    /\ UNCHANGED <<status, handle, starter, seen, stop_vars, open, trips, api_vars>>

-----------------------------------------------------------------------------
(* The run rows, from outside the worker.                                  *)

(* A reap closes the books of a run whose handle says that it has exited   *)
(* (failed) or that has been silent for too long (lost), which a worker    *)
(* that lives and a start that goes on may have been: the machine slept.   *)
Reap(r) ==
    /\ status[r] \in Unfinished
    /\ Row(r, IF handle[r] /\ worker[r] = "gone" THEN "failed" ELSE "lost")
    /\ UNCHANGED <<handle, starter, seen, worker, stop_vars, open, trips, api_vars>>

(* cancel: a worker this server has a handle to is terminated; the row is  *)
(* cancelled in any case.  (RunStore has the steps in between.)            *)
Cancel(r) ==
    /\ status[r] \in Unfinished
    /\ Row(r, "cancelled")
    /\ \/ handle[r] /\ Alive(r) /\ worker' = [worker EXCEPT ![r] = "gone"]
       \/ UNCHANGED worker
    /\ handle' = [handle EXCEPT ![r] = FALSE]
    /\ UNCHANGED <<starter, seen, stop_vars, open, trips, api_vars>>

(* The API server dies and starts again.  Its requests and handles are     *)
(* gone, and its startup tells every live session to stop whose control    *)
(* file it can write.                                                      *)
Restart ==
    /\ starter' = [r \in Run |-> IF r \in Starting THEN "over" ELSE starter[r]]
    /\ seen' = [r \in Run |-> IF r \in Starting THEN {} ELSE seen[r]]
    /\ handle' = [r \in Run |-> FALSE]
    /\ \E reached \in SUBSET (Active \ Paper) :
          told' = [r \in Run |-> told[r] \/ r \in reached]
    /\ kill' = IF kill.op = "telling" THEN [op |-> "idle"] ELSE kill
    /\ lister' = [op |-> "idle"]
    /\ unarming' = 0
    /\ UNCHANGED <<status, worker, position, tripped, open, trips, taken>>

-----------------------------------------------------------------------------
(* POST /sessions/{id}/stop, POST /kill, POST /kill/unarm, GET             *)
(* /symbol-claims.                                                         *)

Stop(r) ==
    /\ status[r] \in Unfinished
    /\ ~ told[r]
    /\ told' = [told EXCEPT ![r] = TRUE]
    /\ UNCHANGED <<run_vars, position, tripped, open, trips, api_vars>>

(* Wrong variant of KillSweep: the enumeration ends at a window's edge.    *)
KillSweep_Newest ==
    /\ kill.op # "telling"
    /\ kill' = [op |-> "telling", active |-> Active, failed |-> {},
                left |-> IF Active = {} THEN {} ELSE {CHOOSE r \in Active : TRUE}]
    /\ UNCHANGED <<run_vars, stop_vars, open, trips, unarming, lister, taken>>

(* kill: enumerate the active sessions ...                                 *)
KillSweep ==
    /\ kill.op # "telling"
    /\ kill' = [op |-> "telling", active |-> Active, left |-> Active, failed |-> {}]
    /\ UNCHANGED <<run_vars, stop_vars, open, trips, unarming, lister, taken>>

(* ... write the control file of each, or note that it could not be        *)
(* written and go on ...                                                   *)
KillTell(r) ==
    /\ kill.op = "telling" /\ r \in kill.left
    /\ \/ told' = [told EXCEPT ![r] = TRUE] /\ kill' = [kill EXCEPT !.left = @ \ {r}]
       \/ UNCHANGED told /\ kill' = [kill EXCEPT !.left = @ \ {r}, !.failed = @ \cup {r}]
    /\ UNCHANGED <<run_vars, position, tripped, open, trips, unarming, lister, taken>>

(* ... and arm, whoever could not be told, naming the session if just one  *)
(* was.                                                                    *)
KillArm ==
    /\ kill.op = "telling" /\ kill.left = {}
    /\ LET stopped == kill.active \ kill.failed
       IN Arms(Manual, IF \E r \in Run : stopped = {r} THEN CHOOSE r \in Run : stopped = {r}
                       ELSE Api, FALSE)
    /\ kill' = [op |-> "armed", failed |-> kill.failed,
                overlapped |-> {r \in Run : worker[r] \in PastGate} \ kill.active]
    /\ UNCHANGED <<run_vars, stop_vars, open, unarming, lister, taken>>

(* The last trip the bound admits is not un-armed; arming is never held    *)
(* back.                                                                   *)
UnarmRead ==
    /\ Len(trips) < MaxTrips
    /\ unarming = 0 /\ OpenTrip(trips) # 0
    /\ unarming' = OpenTrip(trips)
    /\ UNCHANGED <<run_vars, stop_vars, open, trips, kill, lister, taken>>

UnarmClear ==
    /\ unarming # 0
    /\ trips' = Cleared(trips, Operator)
    /\ unarming' = 0
    /\ tripped' = [r \in Run |-> IF tripped[r] = "no" THEN "no" ELSE "cleared"]
    /\ kill' = IF kill.op = "armed" THEN [op |-> "idle"] ELSE kill
    /\ UNCHANGED <<run_vars, told, position, open, lister, taken>>

(* Wrong variant of ListLook: every row counts as running.                 *)
ListLook_AllRows(e) ==
    /\ lister.op = "idle"
    /\ lister' = [op |-> "listing", endpoint |-> e,
                  live |-> {r \in Run : status[r] # "absent"}]
    /\ UNCHANGED <<run_vars, stop_vars, open, trips, unarming, kill, taken>>

(* The SELECT and the UPDATE of open_claims are one step here (they are    *)
(* two in SymbolClaims).                                                   *)
ListLook(e) ==
    /\ lister.op = "idle"
    /\ lister' = [op |-> "listing", endpoint |-> e, live |-> Active]
    /\ UNCHANGED <<run_vars, stop_vars, open, trips, unarming, kill, taken>>

ListPrune ==
    /\ lister.op = "listing"
    /\ open' = Pruned(open, Stale(open, lister.endpoint, lister.live))
    /\ lister' = [op |-> "idle"]
    /\ Takes
    /\ UNCHANGED <<run_vars, stop_vars, trips, unarming, kill>>

-----------------------------------------------------------------------------
StartStep(r) ==
    \/ StartCreate(r) \/ StartLook(r) \/ StartClaim(r)
    \/ StartLaunch(r) \/ StartReleases(r) \/ StartFails(r)

(* What a worker does of itself, one step after the other.                 *)
WorkerStep(r) ==
    \/ MarkRunning(r) \/ WorkerGate(r) \/ WorkerLook(r) \/ WorkerClaim(r)
    \/ Settle(r) \/ FinalArm(r) \/ Records(r) \/ Releases(r)

Next ==
    \/ \E r \in Run :
          \/ StartGate(r) \/ StartStep(r)
          \/ WorkerStep(r) \/ Trade(r) \/ Halt(r) \/ InvariantFails(r) \/ Raises(r)
          \/ Stops(r) \/ Crash(r)
          \/ Reap(r) \/ Cancel(r) \/ Stop(r) \/ KillTell(r)
    \/ \E e \in Endpoint : ListLook(e)
    \/ ListPrune \/ Restart \/ KillSweep \/ KillArm \/ UnarmRead \/ UnarmClear

Spec == Init /\ [][Next]_vars

(* A start and a running worker go on, the worker reading its control file *)
(* every 250 ms; the Live Monitor polls the rows, so dead runs are reaped  *)
(* (nobody owes the reap of a run that lives), and it lists the claims;    *)
(* the API server is not stopped in the middle of every listing.           *)
Fairness ==
    /\ \A r \in Run : /\ WF_vars(StartStep(r)) /\ WF_vars(WorkerStep(r))
                     /\ WF_vars(told[r] /\ Stops(r)) /\ WF_vars(Dead(r) /\ Reap(r))
    /\ \A e \in Endpoint : SF_vars(ListLook(e))
    /\ SF_vars(ListPrune)

FairSpec == Spec /\ Fairness
-----------------------------------------------------------------------------
Share(q, r) ==
    /\ q # r /\ EndpointOf[q] = EndpointOf[r]
    /\ SymbolsOf[q] \cap SymbolsOf[r] # {}

(* "A symbol on an account belongs to one running session" (start_session, *)
(* SymbolClaims), whatever overlaps, sleeps or is cancelled: two sessions  *)
(* that work on one symbol have come to it by a prune that took the claim  *)
(* of one of them from it while it worked.                                 *)
OneTraderUnlessTaken ==
    \A q, r \in Run : Share(q, r) /\ worker[q] \in AtWork /\ worker[r] \in AtWork
                         => q \in taken \/ r \in taken

(* The same without the exception: what the documentation promises.  Not   *)
(* so; see the README.                                                     *)
OneTraderPerSymbol ==
    \A q, r \in Run : Share(q, r) => ~ (worker[q] \in AtWork /\ worker[r] \in AtWork)

(* A breach outlives the process: from the moment a session has halted,    *)
(* whoever crashes or restarts, the store stays armed until somebody       *)
(* un-arms it (the note on on_halt in _execute_session).                   *)
BreachIsArmed == \A r \in Run : tripped[r] = "breach" => OpenTrip(trips) # 0

(* ... and so does an invariant failure: "a process that dies cannot clear *)
(* the switch" (store.killswitch, which names the invariant failure first  *)
(* among the events that end with the process dying).  Not so.             *)
InvariantIsArmed ==
    \A r \in Run : tripped[r] = "invariant" /\ worker[r] = "gone" => OpenTrip(trips) # 0

(* From the arming of the operator's kill until somebody un-arms, every    *)
(* session that is on its way to trade or trades has been told to stop,    *)
(* or the response has named it as one that could not be told, or its      *)
(* start overlapped the kill: it had passed its gate before the arming     *)
(* without being active at the sweep (kill, with the gate of the worker).  *)
KillReachesAll ==
    kill.op = "armed" =>
        \A r \in Run : worker[r] \in PastGate =>
            told[r] \/ r \in kill.failed \/ r \in kill.overlapped

(* "Arming last is also what makes the state on disk mean 'everything has  *)
(* been told'" (kill): the same without the overlapping starts.  Not so.   *)
ArmedMeansTold ==
    kill.op = "armed" =>
        \A r \in Run : worker[r] \in PastGate => told[r] \/ r \in kill.failed

(* "flattened may only catch up from false to true, written by the worker  *)
(* that actually closed the book flat" (kill): where a trip that names a   *)
(* session says flattened, that session, its process over, has left no     *)
(* position open.  Not so: _arm_kill_switch raises the flag of whichever   *)
(* trip is in force.                                                       *)
FlatByItsSession ==
    \A i \in DOMAIN trips : \A r \in Run :
        trips[i].flattened /\ trips[i].source = r /\ worker[r] = "gone" => ~ position[r]

(* No dead session blocks a symbol for good: the claim of a run without    *)
(* worker or start is freed, though nobody released it (open_claims).      *)
DeadClaimFreed == \A r \in Run : Dead(r) /\ open[r] # {} ~> open[r] = {}

(* Who is told to stop ends and gives its symbols back, wherever in its    *)
(* start, its trading or its ending the request found it (stop_session).   *)
ToldGivesBack == \A r \in Run : (told[r] /\ Alive(r)) ~> (~ Alive(r) /\ open[r] = {})
=============================================================================
