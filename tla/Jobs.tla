-------------------------------- MODULE Jobs --------------------------------
(***************************************************************************)
(* The background work of the platform: the rows of IngestStore and        *)
(* LabStore, the server's thread that reaps them, a worker process per     *)
(* job, the processes of a walk-forward's sweep, the memory leases all of  *)
(* them are admitted by (perplab.resources), and the lock file that keeps  *)
(* refreshes of the lake apart (perplab.data.refresh.refresh_lock).        *)
(* A lease is counted in workers' allowances, which are all the same.      *)
(***************************************************************************)
EXTENDS Integers, FiniteSets

CONSTANTS Lab,       \* walk-forward jobs
          Fill,      \* refresh jobs
          Guest,     \* strategy validations, which run inside the budget only
          Lineup,    \* the jobs that are created together, and what befalls
                     \*   them
          Policy,    \* ResourcePolicy: allowances in the budget, worker slots
          MaxFolds   \* sweeps in a walk-forward

Job  == Lab \cup Fill
Proc == Job \cup Guest \cup (Lab \X {1, 2})

Trouble == {"cancel", "delete", "crash", "stall", "restart"}

Policies == [research : Nat \ {0}, workers : {1, 2}]

ASSUME JobsAssumption ==
    /\ IsFiniteSet(Proc) /\ Lab \cap Fill = {} /\ Job \cap Guest = {}
    /\ (Job \cup Guest) \cap (Lab \X {1, 2}) = {}
    /\ Lineup \subseteq [jobs : SUBSET (Job \cup Guest), met : SUBSET Trouble]
    /\ Policy \subseteq Policies /\ MaxFolds \in Nat

VARIABLES used,        \* the jobs and the troubles of this behaviour
          policy,      \* the resource settings
          row,         \* the row's status in the database
          stop,        \* control.json asks the worker to stop
          beats,       \* the row's heartbeat is recent
          handle,      \* the server that launched the worker still runs
          stale,       \* the rows _reap found, while it fails them
          restarted,   \* the server has been restarted
          pc,          \* where the process of a job or validation stands
          folds,       \* sweeps left
          point,       \* the processes of a sweep's pool
          shut,        \* the sweep has all its results and closes its pool
          lease,       \* the running rows of the lease table
          lock         \* refresh.lock: who wrote it, how far, how long ago

row_vars  == <<row, stop, beats>>
api_vars  == <<handle, stale, restarted>>
pool_vars == <<folds, point, shut>>
vars == <<used, policy, row_vars, api_vars, pc, pool_vars, lease, lock>>

Active   == {"queued", "running"}
Deletable == {"done", "failed", "cancelled"}
Terminal == Deletable \cup {"lost"}

Alive(p) == IF p \in Lab \X {1, 2} THEN point[p] \in {"waiting", "running"}
            ELSE pc[p] \notin {"none", "gone"}

Absent == [by |-> {}, text |-> FALSE, recent |-> FALSE]

TypeOK ==
    /\ used \in Lineup /\ policy \in Policy
    /\ row \in [Job -> {"none", "deleted"} \cup Active \cup Terminal]
    /\ {stop, beats, handle} \subseteq [Job -> BOOLEAN]
    /\ stale \subseteq Job /\ restarted \in BOOLEAN
    /\ pc \in [Job \cup Guest -> {"none", "waiting", "admitted", "opened", "working",
                                  "pooling", "unlocking", "leaving", "gone"}]
    /\ folds \in [Lab -> 0 .. MaxFolds] /\ shut \in [Lab -> BOOLEAN]
    /\ point \in [Lab \X {1, 2} -> {"none", "waiting", "running"}]
    /\ lease \subseteq Proc
    /\ lock \in [by : SUBSET Fill, text : BOOLEAN, recent : BOOLEAN]

Init ==
    /\ used \in Lineup /\ policy \in Policy
    /\ row = [j \in Job |-> "none"]
    /\ stop = [j \in Job |-> FALSE] /\ beats = stop /\ handle = stop
    /\ stale = {} /\ restarted = FALSE
    /\ pc = [j \in Job \cup Guest |-> "none"]
    /\ folds = [l \in Lab |-> MaxFolds] /\ shut = [l \in Lab |-> FALSE]
    /\ point = [p \in Lab \X {1, 2} |-> "none"]
    /\ lease = {} /\ lock = Absent

(* One UPDATE of a row: no condition on what it says now, none on a row    *)
(* that is gone.  It refreshes the heartbeat too.                          *)
Write(j, status) ==
    /\ row' = [row EXCEPT ![j] = IF @ \in {"none", "deleted"} THEN @ ELSE status]
    /\ beats' = [beats EXCEPT ![j] = TRUE]
    /\ UNCHANGED stop

(***************************************************************************)
(* The server.                                                             *)
(***************************************************************************)

(* IngestStore.create, LabStore.create *)
Create(j) ==
    /\ j \in used.jobs /\ row[j] = "none"
    /\ row' = [row EXCEPT ![j] = "queued"]
    /\ beats' = [beats EXCEPT ![j] = TRUE]
    /\ UNCHANGED <<used, policy, stop, api_vars, pc, pool_vars, lease, lock>>

(* launch: the process, its handle, its heartbeat.  The server that made   *)
(* the row launches its worker, or nobody does: a restart comes between.   *)
Launch(j) ==
    /\ row[j] # "none" /\ pc[j] = "none" /\ stale = {}
    /\ pc' = [pc EXCEPT ![j] = "waiting"]
    /\ handle' = [handle EXCEPT ![j] = TRUE]
    /\ beats' = [beats EXCEPT ![j] = TRUE]
    /\ UNCHANGED <<used, policy, row, stop, stale, restarted, pool_vars, lease, lock>>

(* Mutant: the row says cancelled as soon as it is asked, as a run's does. *)
Cancel_AtOnce(j) ==
    /\ "cancel" \in used.met /\ row[j] \in Active /\ ~stop[j]
    /\ stop' = [stop EXCEPT ![j] = TRUE]
    /\ row' = [row EXCEPT ![j] = "cancelled"]
    /\ UNCHANGED <<used, policy, beats, api_vars, pc, pool_vars, lease, lock>>

(* cancel: the file, then the stamp on the row *)
Cancel(j) ==
    /\ "cancel" \in used.met /\ row[j] \in Active /\ ~stop[j]
    /\ stop' = [stop EXCEPT ![j] = TRUE]
    /\ UNCHANGED <<used, policy, row, beats, api_vars, pc, pool_vars, lease, lock>>

(* delete: the directory with the control file, then the row *)
Delete(j) ==
    /\ "delete" \in used.met /\ row[j] \in Terminal
    /\ row' = [row EXCEPT ![j] = "deleted"]
    /\ stop' = [stop EXCEPT ![j] = FALSE]
    /\ UNCHANGED <<used, policy, beats, api_vars, pc, pool_vars, lease, lock>>

(* _reap, its first half: a worker of this server that has exited without  *)
(* recording a result *)
Reap(j) ==
    /\ stale = {} /\ handle[j] /\ pc[j] = "gone"
    /\ handle' = [handle EXCEPT ![j] = FALSE]
    /\ \/ row[j] \in Active /\ Write(j, "failed")
       \/ row[j] \notin Active /\ UNCHANGED row_vars
    /\ UNCHANGED <<used, policy, stale, restarted, pc, pool_vars, lease, lock>>

(* _reap, its second half, once the first is through: the rows whose       *)
(* heartbeat is old ...                                                    *)
Sweep ==
    /\ stale = {} /\ \A j \in Job : ~(handle[j] /\ pc[j] = "gone")
    /\ stale' = {j \in Job : row[j] \in Active /\ ~beats[j]} /\ stale' # {}
    /\ UNCHANGED <<used, policy, row_vars, handle, restarted, pc, pool_vars, lease, lock>>

(* ... are failed one by one by _fail_stale, unless the worker is ours     *)
FailStale(j) ==
    /\ j \in stale
    /\ stale' = stale \ {j}
    /\ \/ handle[j] /\ UNCHANGED row_vars
       \/ ~handle[j] /\ Write(j, "lost")
    /\ UNCHANGED <<used, policy, handle, restarted, pc, pool_vars, lease, lock>>

(* The server stops and starts again: the workers go on without it, and a  *)
(* job it had not launched yet never is.                                   *)
Restart ==
    /\ "restart" \in used.met /\ ~restarted /\ restarted' = TRUE
    /\ handle' = [j \in Job |-> FALSE] /\ stale' = {}
    /\ pc' = [p \in DOMAIN pc |->
                IF p \in Job /\ pc[p] = "none" /\ row[p] # "none" THEN "gone" ELSE pc[p]]
    /\ UNCHANGED <<used, policy, row_vars, pool_vars, lease, lock>>

(***************************************************************************)
(* Admission (ResourceGuard.__enter__).                                    *)
(***************************************************************************)

Nested(p) == p \in Guest \cup (Lab \X {1, 2})

(* _read_leases: the rows of processes that are gone are deleted           *)
Seen == {p \in lease : Alive(p)}

(* Mutant: what runs inside the budget skips it, too. *)
Fits_NestedFree(p) ==
    Nested(p) \/ /\ Cardinality({q \in Seen : ~Nested(q)}) < policy.workers
                 /\ Cardinality(Seen) + 1 <= policy.research

(* admission_reason finds nothing against it.  Other processes' memory is  *)
(* not modelled: while it is short the step waits.                         *)
Fits(p) ==
    /\ Nested(p) \/ Cardinality({q \in Seen : ~Nested(q)}) < policy.workers
    /\ Cardinality(Seen) + 1 <= policy.research

(* One pass of the admission loop that ends the wait, in one transaction.  *)
Admit(p) ==
    /\ Fits(p)
    /\ lease' = Seen \cup {p}
    /\ UNCHANGED <<used, policy, row, stop, api_vars, folds, shut, lock>>

AdmitJob(j) ==
    /\ pc[j] = "waiting" /\ ~(j \in Job /\ stop[j]) /\ Admit(j)
    /\ pc' = [pc EXCEPT ![j] = "admitted"]
    /\ beats' = IF j \in Job THEN [beats EXCEPT ![j] = TRUE] ELSE beats
    /\ UNCHANGED point

AdmitPoint(p) ==
    /\ point[p] = "waiting" /\ Admit(p)
    /\ point' = [point EXCEPT ![p] = "running"]
    /\ UNCHANGED <<pc, beats>>

(* A validation: its process, and its end by result or by timeout          *)
Validate(g) ==
    /\ g \in used.jobs /\ pc[g] = "none"
    /\ pc' = [pc EXCEPT ![g] = "waiting"]
    /\ UNCHANGED <<used, policy, row_vars, api_vars, pool_vars, lease, lock>>

Validated(g) ==
    /\ pc[g] \in {"waiting", "admitted"}
    /\ pc' = [pc EXCEPT ![g] = "gone"]
    /\ lease' \in {lease, lease \ {g}}
    /\ UNCHANGED <<used, policy, row_vars, api_vars, pool_vars, lock>>

(***************************************************************************)
(* A worker.                                                               *)
(***************************************************************************)

(* The worker records how it ended, and has only its clean-up left: of a   *)
(* refresh that was not failed, the lock.                                  *)
Record(j, status) ==
    /\ Write(j, status)
    /\ pc' = [pc EXCEPT ![j] =
                IF j \in Fill /\ status # "failed" THEN "unlocking" ELSE "leaving"]

(* Cancelled while it waited for memory: an exception, out of a guard that *)
(* has no lease to give back.                                              *)
Dismissed(j) ==
    /\ pc[j] = "waiting" /\ stop[j] /\ Write(j, "failed")
    /\ pc' = [pc EXCEPT ![j] = "gone"]
    /\ UNCHANGED <<used, policy, api_vars, pool_vars, lease, lock>>

(* _execute_job of a Lab worker starts; the run it is about is done.       *)
Start(l) ==
    /\ pc[l] = "admitted" /\ Write(l, "running")
    /\ pc' = [pc EXCEPT ![l] = "working"]
    /\ UNCHANGED <<used, policy, api_vars, pool_vars, lease, lock>>

(* refresh_lock: created, and still empty ...                              *)
Lock(f) ==
    /\ pc[f] = "admitted" /\ lock.by = {}
    /\ lock' = [by |-> {f}, text |-> FALSE, recent |-> TRUE]
    /\ pc' = [pc EXCEPT ![f] = "opened"]
    /\ UNCHANGED <<used, policy, row_vars, api_vars, pool_vars, lease>>

(* ... or taken over, when it is old or cannot be read                     *)
TakeOver(f) ==
    /\ pc[f] = "admitted" /\ lock.by # {} /\ ~(lock.text /\ lock.recent)
    /\ lock' = [by |-> {f}, text |-> FALSE, recent |-> TRUE]
    /\ pc' = [pc EXCEPT ![f] = "opened"]
    /\ UNCHANGED <<used, policy, row_vars, api_vars, pool_vars, lease>>

(* ... or held by another: the refresh is refused                          *)
Refused(f) ==
    /\ pc[f] = "admitted" /\ lock.by # {} /\ lock.text /\ lock.recent
    /\ Record(f, "failed")
    /\ UNCHANGED <<used, policy, api_vars, pool_vars, lease, lock>>

(* The payload is written, the row says running, and the refresh starts.   *)
Locked(f) ==
    /\ pc[f] = "opened"
    /\ lock' = [by |-> {f}, text |-> TRUE, recent |-> TRUE]
    /\ Write(f, "running")
    /\ pc' = [pc EXCEPT ![f] = "working"]
    /\ UNCHANGED <<used, policy, api_vars, pool_vars, lease>>

(* _Pulse.tick of a refresh: the row's heartbeat, and the lock's, which    *)
(* write_text empties before it fills it                                   *)
Pulse(f) ==
    /\ pc[f] = "working"
    /\ lock' = [by |-> {f}, text |-> lock.by = {f} /\ ~lock.text, recent |-> TRUE]
    /\ beats' = [beats EXCEPT ![f] = TRUE]
    /\ UNCHANGED <<used, policy, row, stop, api_vars, pc, pool_vars, lease>>

(* The monitor of any worker's guard beats too (_publish).                 *)
Beat(j) ==
    /\ pc[j] \in {"waiting", "admitted", "working", "pooling"} /\ ~beats[j]
    /\ beats' = [beats EXCEPT ![j] = TRUE]
    /\ UNCHANGED <<used, policy, row, stop, api_vars, pc, pool_vars, lease, lock>>

(* The job is done: for a walk-forward, every fold.                        *)
Complete(j) ==
    /\ pc[j] = "working" /\ (j \in Lab => folds[j] = 0) /\ (j \in Fill => ~stop[j])
    /\ Record(j, "done")
    /\ UNCHANGED <<used, policy, api_vars, pool_vars, lease, lock>>

(* The stop file is found: between folds, or between archives.             *)
Stopped(j) ==
    /\ pc[j] = "working" /\ stop[j] /\ (j \in Lab => folds[j] > 0)
    /\ Record(j, "cancelled")
    /\ UNCHANGED <<used, policy, api_vars, pool_vars, lease, lock>>

(* Any exception of the job, a precondition it refuses or checkpoint's     *)
(* memory limit: the lock is released on the way, the row written last.    *)
Fail(j) ==
    /\ pc[j] \in {"admitted", "working"}
    /\ lock' = IF j \in Fill /\ pc[j] = "working" THEN Absent ELSE lock
    /\ Record(j, "failed")
    /\ UNCHANGED <<used, policy, api_vars, pool_vars, lease>>

(* The clean-up of a Lab job cannot remove a temporary directory.          *)
Uncleaned(l) ==
    /\ pc[l] = "leaving" /\ row[l] \in {"done", "cancelled"} /\ Write(l, "failed")
    /\ UNCHANGED <<used, policy, api_vars, pc, pool_vars, lease, lock>>

(* _LockHandle.release: the file goes, whoever wrote it.                   *)
Unlock(f) ==
    /\ pc[f] = "unlocking"
    /\ lock' = Absent
    /\ pc' = [pc EXCEPT ![f] = "leaving"]
    /\ UNCHANGED <<used, policy, row_vars, api_vars, pool_vars, lease>>

(* The guard's exit: the lease goes with the process.                      *)
Leave(j) ==
    /\ pc[j] = "leaving"
    /\ pc' = [pc EXCEPT ![j] = "gone"]
    /\ lease' = lease \ {j}
    /\ UNCHANGED <<used, policy, row_vars, api_vars, pool_vars, lock>>

(* The process dies, by itself or by the monitor's os._exit, and its pool  *)
(* with it.                                                                *)
Crash(j) ==
    /\ "crash" \in used.met /\ pc[j] \notin {"none", "gone"}
    /\ pc' = [pc EXCEPT ![j] = "gone"]
    /\ point' = [p \in Lab \X {1, 2} |-> IF p[1] = j THEN "none" ELSE point[p]]
    /\ UNCHANGED <<used, policy, row_vars, api_vars, folds, shut, lease, lock>>

(***************************************************************************)
(* sweep: a fold's grid points, in a pool of processes or one by one.      *)
(***************************************************************************)

Points(l) == {<<l, 1>>, <<l, 2>>}

(* Mutant: a pool is used whenever the settings allow two workers. *)
PoolFits_Unreserved == policy.workers > 1

(* A pool is used only if all of it fits beside what is reserved now.      *)
PoolFits == policy.workers > 1 /\ Cardinality(Seen) + policy.workers <= policy.research

OpenPool(l) ==
    /\ pc[l] = "working" /\ folds[l] > 0 /\ PoolFits
    /\ pc' = [pc EXCEPT ![l] = "pooling"]
    /\ point' = [p \in Lab \X {1, 2} |-> IF p[1] = l THEN "waiting" ELSE point[p]]
    /\ UNCHANGED <<used, policy, row_vars, api_vars, folds, shut, lease, lock>>

Inline(l) ==
    /\ pc[l] = "working" /\ folds[l] > 0 /\ ~PoolFits
    /\ folds' = [folds EXCEPT ![l] = @ - 1]
    /\ UNCHANGED <<used, policy, row_vars, api_vars, pc, point, shut, lease, lock>>

(* The last result is in: some process of the pool was admitted.           *)
Drain(l) ==
    /\ pc[l] = "pooling" /\ ~shut[l] /\ \E p \in Points(l) : point[p] = "running"
    /\ shut' = [shut EXCEPT ![l] = TRUE]
    /\ UNCHANGED <<used, policy, row_vars, api_vars, pc, folds, point, lease, lock>>

(* A process reads the sentinel, once it is through its initializer; its   *)
(* guard is never left, so its lease outlives it.                          *)
PointEnds(p) ==
    /\ point[p] = "running" /\ shut[p[1]]
    /\ point' = [point EXCEPT ![p] = "none"]
    /\ UNCHANGED <<used, policy, row_vars, api_vars, pc, folds, shut, lease, lock>>

(* The pool is joined: the sweep of this fold is over.                     *)
ClosePool(l) ==
    /\ pc[l] = "pooling" /\ shut[l] /\ \A p \in Points(l) : point[p] = "none"
    /\ pc' = [pc EXCEPT ![l] = "working"]
    /\ folds' = [folds EXCEPT ![l] = @ - 1]
    /\ shut' = [shut EXCEPT ![l] = FALSE]
    /\ UNCHANGED <<used, policy, row_vars, api_vars, point, lease, lock>>

(* BrokenProcessPool: one process died, the pool ends the others, and the  *)
(* job fails.                                                              *)
BreakPool(l) ==
    /\ pc[l] = "pooling" /\ ~shut[l]
    /\ point' = [p \in Lab \X {1, 2} |-> IF p[1] = l THEN "none" ELSE point[p]]
    /\ Record(l, "failed")
    /\ UNCHANGED <<used, policy, api_vars, folds, shut, lease, lock>>

(***************************************************************************)
(* Time.                                                                   *)
(***************************************************************************)

(* Nobody beats for a row whose worker is gone, or was never launched ...  *)
Age(j) ==
    /\ row[j] \in Active /\ pc[j] \in {"none", "gone"} /\ beats[j]
    /\ beats' = [beats EXCEPT ![j] = FALSE]
    /\ UNCHANGED <<used, policy, row, stop, api_vars, pc, pool_vars, lease, lock>>

(* ... and a worker that is alive may be kept from it.                     *)
Stall(j) ==
    /\ "stall" \in used.met /\ row[j] \in Active /\ pc[j] \notin {"none", "gone"} /\ beats[j]
    /\ beats' = [beats EXCEPT ![j] = FALSE]
    /\ UNCHANGED <<used, policy, row, stop, api_vars, pc, pool_vars, lease, lock>>

LockAges ==
    /\ lock.by # {} /\ lock.recent /\ \A f \in lock.by : ~Alive(f)
    /\ lock' = [lock EXCEPT !.recent = FALSE]
    /\ UNCHANGED <<used, policy, row_vars, api_vars, pc, pool_vars, lease>>

Server(j) == Create(j) \/ Launch(j) \/ Cancel(j) \/ Delete(j) \/ Reap(j) \/ FailStale(j)

AnyWorker(j) ==
    \/ AdmitJob(j) \/ Dismissed(j) \/ Beat(j) \/ Complete(j) \/ Stopped(j) \/ Fail(j)
    \/ Leave(j) \/ Crash(j) \/ Age(j) \/ Stall(j)

LabWorker(l) ==
    \/ Start(l) \/ OpenPool(l) \/ Inline(l) \/ Drain(l) \/ ClosePool(l) \/ BreakPool(l)
    \/ Uncleaned(l)

FillWorker(f) == Lock(f) \/ TakeOver(f) \/ Refused(f) \/ Locked(f) \/ Pulse(f) \/ Unlock(f)

Next ==
    \/ \E j \in Job : Server(j) \/ AnyWorker(j)
    \/ \E l \in Lab : LabWorker(l)
    \/ \E f \in Fill : FillWorker(f)
    \/ \E p \in Lab \X {1, 2} : AdmitPoint(p) \/ PointEnds(p)
    \/ \E g \in Guest : Validate(g) \/ AdmitJob(g) \/ Validated(g)
    \/ Sweep \/ Restart \/ LockAges

Spec == Init /\ [][Next]_vars

(* Processes run, memory other processes hold is given back, time passes,  *)
(* and the page that lists the jobs is polled.  Nothing else is promised:  *)
(* no job need be created, launched, cancelled or deleted.                 *)
Fairness ==
    /\ \A j \in Job : WF_vars(AdmitJob(j)) /\ WF_vars(Dismissed(j)) /\ WF_vars(Leave(j))
                      /\ WF_vars(Complete(j) \/ Stopped(j) \/ Fail(j))
                      /\ WF_vars(Age(j)) /\ WF_vars(Reap(j)) /\ WF_vars(FailStale(j))
    /\ \A l \in Lab : WF_vars(Start(l)) /\ WF_vars(OpenPool(l) \/ Inline(l))
                      /\ WF_vars(Drain(l)) /\ WF_vars(ClosePool(l))
    /\ \A f \in Fill : WF_vars(Lock(f) \/ TakeOver(f) \/ Refused(f)) /\ WF_vars(Locked(f))
                       /\ WF_vars(Unlock(f))
    /\ \A p \in Lab \X {1, 2} : WF_vars(AdmitPoint(p)) /\ WF_vars(PointEnds(p))
    /\ \A g \in Guest : WF_vars(Validated(g))
    /\ WF_vars(Sweep)

FairSpec == Spec /\ Fairness

(***************************************************************************)
(* Properties.                                                             *)
(***************************************************************************)

(* The budget and the slots hold for every set of processes that are       *)
(* admitted, whoever they are and however they came in: the leases of dead *)
(* processes are dropped, those of live ones never are                     *)
(* (resources.ResourceGuard.__enter__, admission_reason).                  *)
Admitted == {p \in Proc : IF p \in Lab \X {1, 2} THEN point[p] = "running"
                          ELSE pc[p] \notin {"none", "waiting", "gone"}}

WithinBudget ==
    /\ Cardinality(Admitted) <= policy.research
    /\ Cardinality({p \in Admitted : ~Nested(p)}) <= policy.workers

(* A row that may be deleted has no worker still at work behind it, except *)
(* one that was given up for lost: of done, failed and cancelled the first *)
(* is written by the worker itself or after it exited (RunStatus.DELETABLE,*)
(* delete, cancel and _reap of both stores).                               *)
DeletableIsOver ==
    \A j \in Job : row[j] \in Deletable =>
        pc[j] \in {"unlocking", "leaving", "gone"}

(* Every job comes to an end that its row tells, or is deleted: none waits *)
(* for ever for memory its own pool, or another's, is waiting for          *)
(* (lab.sweep: "A waiting pool must not hold its parent's reservation      *)
(* forever"), and none stays "running" after its worker died.              *)
EverySettles ==
    \A j \in Job : row[j] \in Active ~> row[j] \in Terminal \cup {"deleted"}

(* refresh.refresh_lock: "Only one refresh runs at a time".                *)
OneRefresh == Cardinality({f \in Fill : pc[f] = "working"}) <= 1
=============================================================================
