------------------------------ MODULE RunStore ------------------------------
(***************************************************************************)
(* perplab.store.runs: the run rows that the API server and the session    *)
(* workers share, and what each of their stores knows of the worker        *)
(* processes.  A store holds the handles of the workers it spawned itself, *)
(* and every read of it first reaps: it polls those handles, then presumes *)
(* lost every unfinished row that has been silent for STALE_HEARTBEAT_MS   *)
(* and whose worker it has no handle to.  The threads of one server share  *)
(* a store and its lock; two servers share only the database.  Figures,    *)
(* labels, errors and timestamps are left out; a heartbeat is kept as      *)
(* whether it is recent.                                                   *)
(***************************************************************************)
EXTENDS FiniteSets

CONSTANTS Run,
          Server,       \* the processes that own a RunStore
          Thread,       \* their request threads
          ServerOf,     \* the process a thread runs in
          NoServer      \* nobody holds the worker's handle

ASSUME ServerAssumption ==
    /\ ServerOf \in [Thread -> Server]
    /\ NoServer \notin Server

VARIABLES status,       \* the row: its RunStatus, or absent, or deleted
          fresh,        \* the row's heartbeat is recent
          archived,     \* the row is hidden from the default lists
          files,        \* the run's directory exists
          worker,       \* the worker process of the run
          holder,       \* the server that has the worker's handle
          task          \* what each thread is in the middle of

vars == <<status, fresh, archived, files, worker, holder, task>>

Unfinished == {"queued", "running"}
Deletable  == {"done", "failed", "cancelled"}
Terminal   == Deletable \cup {"lost"}

HasRow(r) == status[r] \in Unfinished \cup Terminal
Alive(r)  == worker[r] \in {"boot", "working", "ended", "leaving"}

(* What follows the reaping read: nothing, or the rest of an operation.    *)
Follow == [op : {"idle"}] \cup [op : {"cancel", "delete", "archive"}, run : Run]

TypeOK ==
    /\ status \in [Run -> {"absent", "deleted"} \cup Unfinished \cup Terminal]
    /\ fresh \in [Run -> BOOLEAN]
    /\ archived \in [Run -> BOOLEAN]
    /\ files \in [Run -> BOOLEAN]
    /\ worker \in [Run -> {"none", "boot", "working", "ended", "leaving", "gone"}]
    /\ holder \in [Run -> Server \cup {NoServer}]
    /\ task \in [Thread ->
            Follow
            \cup [op : {"created", "spawned", "cancelRow", "deleteRow"}, run : Run]
            \cup [op : {"reap"}, stale : SUBSET Run, then : Follow]]

Init ==
    /\ status = [r \in Run |-> "absent"]
    /\ fresh = [r \in Run |-> FALSE]
    /\ archived = [r \in Run |-> FALSE]
    /\ files = [r \in Run |-> FALSE]
    /\ worker = [r \in Run |-> "none"]
    /\ holder = [r \in Run |-> NoServer]
    /\ task = [t \in Thread |-> [op |-> "idle"]]

-----------------------------------------------------------------------------
Doing(t, r, op) == task[t] = [op |-> op, run |-> r]

Becomes(t, what) == task' = [task EXCEPT ![t] = what]

(* The store's lock, which a reaping read keeps from its first poll to the *)
(* read itself.                                                            *)
Unlocked(t) ==
    \A u \in Thread : ServerOf[u] = ServerOf[t] => task[u].op # "reap"

(* UPDATE runs SET status, heartbeat_ms WHERE id: no row, no effect.       *)
Write(r, s) ==
    /\ status' = [status EXCEPT ![r] = IF HasRow(r) THEN s ELSE @]
    /\ fresh' = [fresh EXCEPT ![r] = TRUE]

-----------------------------------------------------------------------------
(* Starting a run.                                                         *)

Create(t, r) ==
    /\ task[t].op = "idle" /\ Unlocked(t)
    /\ status[r] = "absent"
    /\ status' = [status EXCEPT ![r] = "queued"]
    /\ fresh' = [fresh EXCEPT ![r] = TRUE]
    /\ files' = [files EXCEPT ![r] = TRUE]
    /\ Becomes(t, [op |-> "created", run |-> r])
    /\ UNCHANGED <<archived, worker, holder>>

(* The start is refused, or the spawn raises: the row says so.             *)
Abandon(t, r) ==
    /\ Doing(t, r, "created") /\ Unlocked(t)
    /\ \E s \in {"cancelled", "failed"} : Write(r, s)
    /\ Becomes(t, [op |-> "idle"])
    /\ UNCHANGED <<archived, files, worker, holder>>

(* launch: Popen, outside the lock and whatever became of the row ...      *)
Spawn(t, r) ==
    /\ Doing(t, r, "created")
    /\ worker' = [worker EXCEPT ![r] = "boot"]
    /\ Becomes(t, [op |-> "spawned", run |-> r])
    /\ UNCHANGED <<status, fresh, archived, files, holder>>

(* ... and _track, which registers the handle.                             *)
Track(t, r) ==
    /\ Doing(t, r, "spawned") /\ Unlocked(t)
    /\ holder' = [holder EXCEPT ![r] = ServerOf[t]]
    /\ fresh' = [fresh EXCEPT ![r] = TRUE]
    /\ Becomes(t, [op |-> "idle"])
    /\ UNCHANGED <<status, archived, files, worker>>

-----------------------------------------------------------------------------
(* The worker's writes.                                                    *)

MarkRunning(r) ==
    /\ worker[r] = "boot"
    /\ worker' = [worker EXCEPT ![r] = "working"]
    /\ Write(r, "running")
    /\ UNCHANGED <<archived, files, holder, task>>

Heartbeat(r) ==
    /\ Alive(r)
    /\ fresh' = [fresh EXCEPT ![r] = TRUE]
    /\ UNCHANGED <<status, archived, files, worker, holder, task>>

(* complete, after the artefacts; a session calls it again when its shadow *)
(* left a note, up to SHADOW_TIMEOUT_S later.                              *)
Complete(r) ==
    /\ worker[r] \in {"working", "ended"}
    /\ files[r]
    /\ worker' = [worker EXCEPT ![r] = "ended"]
    /\ Write(r, "done")
    /\ UNCHANGED <<archived, files, holder, task>>

(* fail, from an exception at any point or from the resource guard.        *)
WorkerFails(r) ==
    /\ worker[r] \in {"boot", "working", "ended"}
    /\ worker' = [worker EXCEPT ![r] = "leaving"]
    /\ Write(r, "failed")
    /\ UNCHANGED <<archived, files, holder, task>>

(* The process ends: at its own end, or killed where it stands.            *)
Exit(r) ==
    /\ Alive(r)
    /\ worker' = [worker EXCEPT ![r] = "gone"]
    /\ UNCHANGED <<status, fresh, archived, files, holder, task>>

(* STALE_HEARTBEAT_MS pass with no heartbeat: the worker is dead, or its   *)
(* machine slept.                                                          *)
GoesSilent(r) ==
    /\ fresh[r]
    /\ fresh' = [fresh EXCEPT ![r] = FALSE]
    /\ UNCHANGED <<status, archived, files, worker, holder, task>>

-----------------------------------------------------------------------------
(* Reading, which reaps first (_reap_locked, then the SELECT).             *)

Exited(s) == {r \in Run : holder[r] = s /\ worker[r] = "gone"}

(* Wrong variants of Silent: the tracked workers are not left out; queued  *)
(* rows are not looked at.                                                 *)
Silent_Tracked(s, rows, handles) ==
    {r \in Run : rows[r] \in Unfinished /\ ~ fresh[r]}

Silent_RunningOnly(s, rows, handles) ==
    {r \in Run : rows[r] = "running" /\ ~ fresh[r] /\ handles[r] # s}

(* The rows the sweep of server s will presume lost.                       *)
Silent(s, rows, handles) ==
    {r \in Run : rows[r] \in Unfinished /\ ~ fresh[r] /\ handles[r] # s}

Reap(t, then) ==
    /\ task[t].op = "idle" /\ Unlocked(t)
    /\ LET s       == ServerOf[t]
           rows    == [r \in Run |-> IF r \in Exited(s) /\ status[r] \in Unfinished
                                     THEN "failed" ELSE status[r]]
           handles == [r \in Run |-> IF r \in Exited(s) THEN NoServer ELSE holder[r]]
       IN /\ status' = rows
          /\ holder' = handles
          /\ Becomes(t, [op |-> "reap", stale |-> Silent(s, rows, handles), then |-> then])
    /\ UNCHANGED <<fresh, archived, files, worker>>

(* Wrong variant of ReapLost: silence is taken for failure, as it once was. *)
ReapLost_AsFailed(t, r) ==
    /\ task[t].op = "reap"
    /\ r \in task[t].stale
    /\ Write(r, "failed")
    /\ Becomes(t, [task[t] EXCEPT !.stale = @ \ {r}])
    /\ UNCHANGED <<archived, files, worker, holder>>

ReapLost(t, r) ==
    /\ task[t].op = "reap"
    /\ r \in task[t].stale
    /\ Write(r, "lost")
    /\ Becomes(t, [task[t] EXCEPT !.stale = @ \ {r}])
    /\ UNCHANGED <<archived, files, worker, holder>>

(* Which statuses an operation goes on from; it answers or raises on the   *)
(* others.                                                                 *)
Admits(op, s) ==
    \/ op = "cancel" /\ s \in Unfinished
    \/ op = "delete" /\ s \in Deletable
    \/ op = "archive" /\ s \in Terminal

(* The read that ends the reap.  A delete is refused as well when Lab jobs *)
(* are linked to the run, which is left open here.                         *)
Read(t) ==
    /\ task[t].op = "reap" /\ task[t].stale = {}
    /\ LET then == task[t].then
       IN \/ /\ then.op # "idle" /\ Admits(then.op, status[then.run])
             /\ Becomes(t, then)
          \/ /\ then.op # "idle" => (then.op = "delete" \/ ~ Admits(then.op, status[then.run]))
             /\ Becomes(t, [op |-> "idle"])
    /\ UNCHANGED <<status, fresh, archived, files, worker, holder>>

-----------------------------------------------------------------------------
(* cancel, archive and delete, after their read.                           *)

(* The handle is popped and, if its worker still runs, terminated: a       *)
(* session worker that has installed its handlers only learns that it is   *)
(* to stop.                                                                *)
CancelWorker(t, r) ==
    /\ Doing(t, r, "cancel") /\ Unlocked(t)
    /\ IF holder[r] = ServerOf[t]
       THEN /\ holder' = [holder EXCEPT ![r] = NoServer]
            /\ \/ worker' = [worker EXCEPT ![r] = "gone"]
               \/ worker[r] \in {"working", "ended"} /\ UNCHANGED worker
       ELSE UNCHANGED <<holder, worker>>
    /\ Becomes(t, [op |-> "cancelRow", run |-> r])
    /\ UNCHANGED <<status, fresh, archived, files>>

(* The row is cancelled whether or not there was a handle.                 *)
CancelRow(t, r) ==
    /\ Doing(t, r, "cancelRow") /\ Unlocked(t)
    /\ Write(r, "cancelled")
    /\ Becomes(t, [op |-> "idle"])
    /\ UNCHANGED <<archived, files, worker, holder>>

Archive(t, r) ==
    /\ Doing(t, r, "archive") /\ Unlocked(t)
    /\ archived' = [archived EXCEPT ![r] = TRUE]
    /\ Becomes(t, [op |-> "idle"])
    /\ UNCHANGED <<status, fresh, files, worker, holder>>

(* archive(archived=False) has no guard.                                   *)
Reveal(t, r) ==
    /\ task[t].op = "idle" /\ Unlocked(t)
    /\ archived[r]
    /\ archived' = [archived EXCEPT ![r] = FALSE]
    /\ UNCHANGED <<status, fresh, files, worker, holder, task>>

(* delete: the directory first, outside the lock, the row last.            *)
DeleteFiles(t, r) ==
    /\ Doing(t, r, "delete")
    /\ files' = [files EXCEPT ![r] = FALSE]
    /\ Becomes(t, [op |-> "deleteRow", run |-> r])
    /\ UNCHANGED <<status, fresh, archived, worker, holder>>

DeleteRow(t, r) ==
    /\ Doing(t, r, "deleteRow") /\ Unlocked(t)
    /\ status' = [status EXCEPT ![r] = IF HasRow(r) THEN "deleted" ELSE @]
    /\ archived' = [archived EXCEPT ![r] = FALSE]
    /\ Becomes(t, [op |-> "idle"])
    /\ UNCHANGED <<fresh, files, worker, holder>>

(* A server stops: its threads and its handles go, the workers do not.     *)
ServerStops(s) ==
    /\ \/ \E r \in Run : holder[r] = s
       \/ \E t \in Thread : ServerOf[t] = s /\ task[t].op # "idle"
    /\ holder' = [r \in Run |-> IF holder[r] = s THEN NoServer ELSE holder[r]]
    /\ task' = [t \in Thread |-> IF ServerOf[t] = s THEN [op |-> "idle"] ELSE task[t]]
    /\ UNCHANGED <<status, fresh, archived, files, worker>>

-----------------------------------------------------------------------------
(* What finishes an operation the thread has begun.                        *)
Finish(t) ==
    \/ Read(t)
    \/ \E r \in Run :
          \/ Abandon(t, r) \/ Spawn(t, r) \/ Track(t, r)
          \/ ReapLost(t, r)
          \/ CancelWorker(t, r) \/ CancelRow(t, r)
          \/ Archive(t, r)
          \/ DeleteFiles(t, r) \/ DeleteRow(t, r)

BeginReap(t) == \E then \in Follow : Reap(t, then)

WorkerStep(r) ==
    MarkRunning(r) \/ Heartbeat(r) \/ Complete(r) \/ WorkerFails(r) \/ Exit(r)

Next ==
    \/ \E t \in Thread :
          BeginReap(t) \/ Finish(t) \/ \E r \in Run : Create(t, r) \/ Reveal(t, r)
    \/ \E r \in Run : WorkerStep(r) \/ GoesSilent(r)
    \/ \E s \in Server : ServerStops(s)

Spec == Init /\ [][Next]_vars

(* The Live Monitor and the Runs list keep polling, so some thread begins  *)
(* a reap again and again, and some thread finishes what it began unless   *)
(* the servers are stopped every time; a row nobody beats for goes silent. *)
(* No worker and no particular thread owes a step.                         *)
Fairness ==
    /\ SF_vars(\E t \in Thread : BeginReap(t))
    /\ SF_vars(\E t \in Thread : Finish(t))
    /\ \A r \in Run : WF_vars(~ Alive(r) /\ GoesSilent(r))

FairSpec == Spec /\ Fairness

-----------------------------------------------------------------------------
(* "failed is a fact": a row says failed only once its worker has left, or *)
(* never existed, or wrote so itself (the note on _reap; RunStatus.LOST).  *)
FailedIsAFact ==
    \A r \in Run : status[r] = "failed" => worker[r] \notin {"boot", "working", "ended"}

(* Whoever marks a run lost has no handle to its worker: not even a launch *)
(* racing the sweep of the same server has its run called lost, though it  *)
(* stalled until the row went silent (_reap_locked).                       *)
LostHasNoHandle ==
    [][\A r \in Run : (status[r] # "lost" /\ status'[r] = "lost") =>
          \E t \in Thread : /\ task[t].op = "reap" /\ r \in task[t].stale
                           /\ holder[r] # ServerOf[t]]_vars

(* No row claims for ever that a dead run is going on: whatever was killed *)
(* and whatever restarted, an unfinished row without a worker is closed or *)
(* gets its worker (_reap: "workers that died without saying so").         *)
DeadIsReported ==
    \A r \in Run : (status[r] \in Unfinished /\ ~ Alive(r))
                      ~> (status[r] \notin Unfinished \/ Alive(r))

(* The guard of delete "exists precisely to stop a run being removed while *)
(* its worker is alive" (RunStatus.LOST).                                  *)
DeletedOnlyWhenDead ==
    \A r \in Run : worker[r] \in {"boot", "working", "ended"} => files[r]

(* "A run can be archived only once it has finished" (archive): no run     *)
(* that is going on is hidden from the default lists.                      *)
ArchivedIsFinished == \A r \in Run : archived[r] => status[r] \notin Unfinished
=============================================================================
