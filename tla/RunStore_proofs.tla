--------------------------- MODULE RunStore_proofs ---------------------------
(***************************************************************************)
(* Proofs about the run rows, for any number of runs, servers and request  *)
(* threads.                                                                *)
(***************************************************************************)
EXTENDS RunStore, TLAPS

Status == {"absent", "deleted"} \cup Unfinished \cup Terminal
Worker == {"none", "boot", "working", "ended", "leaving", "gone"}
Step   == [op : {"created", "spawned", "cancelRow", "deleteRow"}, run : Run]
Sweep  == [op : {"reap"}, stale : SUBSET Run, then : Follow]
Task   == Follow \cup Step \cup Sweep

(* The row part and the task part of the type invariant.                   *)
RowsOK ==
    /\ status \in [Run -> Status]
    /\ fresh \in [Run -> BOOLEAN]
    /\ archived \in [Run -> BOOLEAN]
    /\ files \in [Run -> BOOLEAN]
    /\ worker \in [Run -> Worker]
    /\ holder \in [Run -> Server \cup {NoServer}]

TaskOK == task \in [Thread -> Task]

LEMMA Types == TypeOK <=> RowsOK /\ TaskOK
BY DEF TypeOK, RowsOK, TaskOK, Status, Worker, Task, Step, Sweep

LEMMA WriteType ==
    ASSUME RowsOK, NEW r \in Run, NEW s \in Status, Write(r, s)
    PROVE  /\ status' \in [Run -> Status]
           /\ fresh' \in [Run -> BOOLEAN]
BY DEF RowsOK, Write

LEMMA RowsNext ==
    ASSUME RowsOK, [Next]_vars
    PROVE  RowsOK'
<1> USE DEF RowsOK
<1>1. ASSUME NEW t \in Thread, NEW then \in Follow, Reap(t, then) PROVE RowsOK'
  <2>1. ServerOf[t] \in Server
    BY ServerAssumption
  <2>2. /\ status' = [r \in Run |-> IF r \in Exited(ServerOf[t]) /\ status[r] \in Unfinished
                                    THEN "failed" ELSE status[r]]
        /\ holder' = [r \in Run |-> IF r \in Exited(ServerOf[t]) THEN NoServer ELSE holder[r]]
        /\ UNCHANGED <<fresh, archived, files, worker>>
    BY <1>1 DEF Reap
  <2> QED  BY <2>2 DEF Status, Terminal, Deletable
<1>2. ASSUME NEW t \in Thread, NEW r \in Run,
             \/ Create(t, r) \/ Spawn(t, r) \/ Track(t, r) \/ CancelWorker(t, r)
             \/ Archive(t, r) \/ Reveal(t, r) \/ DeleteFiles(t, r) \/ DeleteRow(t, r)
      PROVE  RowsOK'
  BY <1>2, ServerAssumption
     DEF Create, Spawn, Track, CancelWorker, Archive, Reveal, DeleteFiles, DeleteRow,
         Status, Unfinished, Worker
<1>3. ASSUME NEW t \in Thread, NEW r \in Run, Abandon(t, r) \/ ReapLost(t, r) \/ CancelRow(t, r)
      PROVE  RowsOK'
  <2>1. \E s \in {"cancelled", "failed", "lost"} : Write(r, s)
    BY <1>3 DEF Abandon, ReapLost, CancelRow
  <2>2. \A s \in {"cancelled", "failed", "lost"} : s \in Status
    BY DEF Status, Terminal, Deletable
  <2> QED  BY <1>3, <2>1, <2>2, WriteType DEF Abandon, ReapLost, CancelRow
<1>4. ASSUME NEW r \in Run, WorkerStep(r) PROVE RowsOK'
  <2>1. CASE MarkRunning(r) \/ Complete(r) \/ WorkerFails(r)
    <3>1. \E s \in {"running", "done", "failed"} : Write(r, s)
      BY <2>1 DEF MarkRunning, Complete, WorkerFails
    <3>2. \A s \in {"running", "done", "failed"} : s \in Status
      BY DEF Status, Terminal, Deletable, Unfinished
    <3>3. status' \in [Run -> Status] /\ fresh' \in [Run -> BOOLEAN]
      BY <3>1, <3>2, WriteType
    <3>4. worker' \in [Run -> Worker] /\ UNCHANGED <<archived, files, holder>>
      BY <2>1 DEF MarkRunning, Complete, WorkerFails, Worker
    <3> QED  BY <3>3, <3>4
  <2>2. CASE Heartbeat(r) \/ Exit(r)
    BY <2>2 DEF Heartbeat, Exit, Worker
  <2> QED  BY <1>4, <2>1, <2>2 DEF WorkerStep
<1>5. ASSUME NEW r \in Run, GoesSilent(r) PROVE RowsOK'
  BY <1>5 DEF GoesSilent
<1>6. ASSUME NEW s \in Server, ServerStops(s) PROVE RowsOK'
  BY <1>6 DEF ServerStops
<1>7. ASSUME NEW t \in Thread, Read(t) PROVE RowsOK'
  BY <1>7 DEF Read
<1>8. CASE UNCHANGED vars
  BY <1>8 DEF vars
<1> QED
  BY <1>1, <1>2, <1>3, <1>4, <1>5, <1>6, <1>7, <1>8 DEF Next, Finish, BeginReap

(* A thread only ever gets idle, a step of an operation, or a sweep.       *)
LEMMA TaskNext ==
    ASSUME TaskOK, [Next]_vars
    PROVE  TaskOK'
<1> USE DEF TaskOK
<1>0. [op |-> "idle"] \in Task
  BY DEF Task, Follow
<1>1. ASSUME NEW t \in Thread, NEW what \in Task, Becomes(t, what) PROVE TaskOK'
  BY <1>1 DEF Becomes
<1>2. ASSUME NEW t \in Thread, NEW then \in Follow, Reap(t, then) PROVE TaskOK'
  <2>1. PICK rows, handles :
           Becomes(t, [op |-> "reap", stale |-> Silent(ServerOf[t], rows, handles),
                       then |-> then])
    BY <1>2 DEF Reap
  <2>2. [op |-> "reap", stale |-> Silent(ServerOf[t], rows, handles), then |-> then] \in Task
    BY DEF Task, Sweep, Silent
  <2> QED  BY <1>1, <2>1, <2>2
<1>3. ASSUME NEW t \in Thread, NEW r \in Run,
             \/ Create(t, r) \/ Spawn(t, r) \/ CancelWorker(t, r) \/ DeleteFiles(t, r)
      PROVE  TaskOK'
  <2>1. \E op \in {"created", "spawned", "cancelRow", "deleteRow"} :
           Becomes(t, [op |-> op, run |-> r])
    BY <1>3 DEF Create, Spawn, CancelWorker, DeleteFiles
  <2>2. \A op \in {"created", "spawned", "cancelRow", "deleteRow"} :
           [op |-> op, run |-> r] \in Task
    BY DEF Task, Step
  <2> QED  BY <1>1, <2>1, <2>2
<1>4. ASSUME NEW t \in Thread, NEW r \in Run,
             \/ Abandon(t, r) \/ Track(t, r) \/ CancelRow(t, r) \/ Archive(t, r) \/ DeleteRow(t, r)
      PROVE  TaskOK'
  BY <1>0, <1>1, <1>4 DEF Abandon, Track, CancelRow, Archive, DeleteRow
<1>5. ASSUME NEW t \in Thread, NEW r \in Run, ReapLost(t, r) PROVE TaskOK'
  <2>1. task[t] \in Sweep
    BY <1>5 DEF ReapLost, Task, Follow, Step
  <2>2. [task[t] EXCEPT !.stale = @ \ {r}] \in Sweep
    BY <2>1 DEF Sweep
  <2>3. Becomes(t, [task[t] EXCEPT !.stale = @ \ {r}])
    BY <1>5 DEF ReapLost
  <2> QED  BY <1>1, <2>2, <2>3 DEF Task
<1>6. ASSUME NEW t \in Thread, Read(t) PROVE TaskOK'
  <2>1. task[t] \in Sweep
    BY <1>6 DEF Read, Task, Follow, Step
  <2>2. task[t].then \in Task
    BY <2>1 DEF Sweep, Task
  <2>3. Becomes(t, task[t].then) \/ Becomes(t, [op |-> "idle"])
    BY <1>6 DEF Read
  <2> QED  BY <1>0, <1>1, <2>2, <2>3
<1>7. ASSUME NEW r \in Run, WorkerStep(r) \/ GoesSilent(r) PROVE TaskOK'
  BY <1>7 DEF WorkerStep, MarkRunning, Heartbeat, Complete, WorkerFails, Exit, GoesSilent
<1>8. ASSUME NEW s \in Server, ServerStops(s) PROVE TaskOK'
  BY <1>0, <1>8 DEF ServerStops
<1>9. ASSUME NEW t \in Thread, NEW r \in Run, Reveal(t, r) PROVE TaskOK'
  BY <1>9 DEF Reveal
<1>10. CASE UNCHANGED vars
  BY <1>10 DEF vars
<1> QED
  BY <1>2, <1>3, <1>4, <1>5, <1>6, <1>7, <1>8, <1>9, <1>10 DEF Next, Finish, BeginReap

LEMMA TypeInit == Init => TypeOK
<1>1. ASSUME Init PROVE RowsOK
  BY <1>1 DEF Init, RowsOK, Status, Worker
<1>2. ASSUME Init PROVE TaskOK
  BY <1>2 DEF Init, TaskOK, Task, Follow
<1> QED  BY <1>1, <1>2, Types

LEMMA TypeNext == TypeOK /\ [Next]_vars => TypeOK'
<1> SUFFICES ASSUME TypeOK, [Next]_vars PROVE TypeOK'
  OBVIOUS
<1>1. RowsOK /\ TaskOK
  BY Types
<1>2. RowsOK' /\ TaskOK'
  BY <1>1, RowsNext, TaskNext
<1> QED  BY <1>2, Types DEF TypeOK, RowsOK, TaskOK, Status, Worker, Task, Step, Sweep

(* The rows, the processes, the handles and what each thread is in the     *)
(* middle of keep their types.                                             *)
THEOREM TypeCorrect == Spec => []TypeOK
BY TypeInit, TypeNext, PTL DEF Spec
-----------------------------------------------------------------------------
(* A created run is not launched yet, and its row does not say failed.     *)
CreatedIsFresh ==
    \A t \in Thread, r \in Run : Doing(t, r, "created") =>
        worker[r] = "none" /\ status[r] \notin {"absent", "failed"}

(* The request that created a run is the only one that will launch it.     *)
OneStarter ==
    \A t, u \in Thread, r \in Run :
        Doing(t, r, "created") /\ Doing(u, r, "created") => t = u

AbsentHasNoWorker == \A r \in Run : status[r] = "absent" => worker[r] = "none"

HandleHasWorker ==
    \A r \in Run : worker[r] = "none" =>
        holder[r] = NoServer /\ \A t \in Thread : ~ Doing(t, r, "spawned")

(* What a sweep has found silent stays without a handle of its own server, *)
(* because a launch cannot register one before the sweep has ended.        *)
SweepSpares ==
    \A t \in Thread, r \in Run :
        task[t].op = "reap" /\ r \in task[t].stale => holder[r] # ServerOf[t]

(* Why failed is a fact: only the request that created a run launches it,  *)
(* and while it has not, nothing but that request can say failed.          *)
IInv ==
    /\ TypeOK
    /\ CreatedIsFresh
    /\ OneStarter
    /\ AbsentHasNoWorker
    /\ HandleHasWorker
    /\ SweepSpares
    /\ FailedIsAFact

LEMMA Others ==
    ASSUME TaskOK, NEW t \in Thread, NEW what, Becomes(t, what)
    PROVE  task'[t] = what /\ \A u \in Thread : u # t => task'[u] = task[u]
BY DEF TaskOK, Becomes

(* No task starts or launches a run, and no sweep gets a row that it       *)
(* should have spared.                                                     *)
NothingBegun ==
    \A t \in Thread, r \in Run :
        /\ task'[t] = [op |-> "created", run |-> r] => Doing(t, r, "created")
        /\ task'[t] = [op |-> "spawned", run |-> r] => Doing(t, r, "spawned")
        /\ task'[t].op = "reap" /\ r \in task'[t].stale =>
              \/ task[t].op = "reap" /\ r \in task[t].stale
              \/ holder'[r] # ServerOf[t]

(* A worker may go on, though not from or to nothing; it may not be going  *)
(* on under a row that says failed.                                        *)
WorkersGoOn ==
    \A r \in Run :
        \/ /\ worker'[r] = worker[r]
           /\ status'[r] = "failed" => status[r] = "failed" \/ worker[r] \in {"leaving", "gone"}
        \/ /\ worker[r] # "none" /\ worker'[r] # "none"
           /\ status'[r] = "failed" => worker'[r] \in {"leaving", "gone"}

HandlesDropped == \A r \in Run : holder'[r] \in {holder[r], NoServer}

RowsStay == \A r \in Run : status'[r] = "absent" => status[r] = "absent"

(* Every step but those of a start is of this kind.                        *)
LEMMA Later ==
    ASSUME IInv, TypeOK', NothingBegun, WorkersGoOn, HandlesDropped, RowsStay
    PROVE  IInv'
<1>0. \A t \in Thread, r \in Run : Doing(t, r, "created")' => Doing(t, r, "created")
  BY DEF Doing, NothingBegun
<1>1. CreatedIsFresh'
  <2>1. ASSUME NEW r \in Run, worker[r] = "none", status[r] \notin {"absent", "failed"}
        PROVE  worker'[r] = "none" /\ status'[r] \notin {"absent", "failed"}
    BY <2>1 DEF WorkersGoOn, RowsStay
  <2> QED  BY <1>0, <2>1 DEF IInv, CreatedIsFresh
<1>2. OneStarter'
  BY <1>0 DEF IInv, OneStarter
<1>3. AbsentHasNoWorker'
  BY DEF IInv, AbsentHasNoWorker, WorkersGoOn, RowsStay
<1>4. HandleHasWorker'
  BY DEF IInv, HandleHasWorker, Doing, NothingBegun, WorkersGoOn, HandlesDropped
<1>5. SweepSpares'
  BY ServerAssumption DEF IInv, SweepSpares, NothingBegun, HandlesDropped
<1>6. FailedIsAFact'
  BY DEF IInv, FailedIsAFact, WorkersGoOn
<1> QED  BY <1>1, <1>2, <1>3, <1>4, <1>5, <1>6 DEF IInv

LEMMA IInvInit == Init => IInv
BY TypeInit DEF Init, IInv, CreatedIsFresh, OneStarter, AbsentHasNoWorker, HandleHasWorker,
               SweepSpares, FailedIsAFact, Doing

LEMMA CreateKeeps ==
    ASSUME IInv, TypeOK', NEW t \in Thread, NEW r \in Run, Create(t, r)
    PROVE  IInv'
<1>1. RowsOK /\ TaskOK
  BY Types DEF IInv
<1>2. /\ task'[t] = [op |-> "created", run |-> r]
      /\ \A u \in Thread : u # t => task'[u] = task[u]
  BY <1>1, Others DEF Create
<1>3. /\ status[r] = "absent" /\ status'[r] = "queued"
      /\ \A q \in Run : q # r => status'[q] = status[q]
      /\ UNCHANGED <<worker, holder>>
  BY <1>1 DEF Create, RowsOK
<1>4. worker[r] = "none" /\ \A u \in Thread : ~ Doing(u, r, "created")
  BY <1>3 DEF IInv, AbsentHasNoWorker, CreatedIsFresh
<1>5. CreatedIsFresh'
  BY <1>2, <1>3, <1>4 DEF IInv, CreatedIsFresh, Doing
<1>6. OneStarter'
  BY <1>2, <1>4 DEF IInv, OneStarter, Doing
<1>7. AbsentHasNoWorker' /\ FailedIsAFact'
  BY <1>3 DEF IInv, AbsentHasNoWorker, FailedIsAFact
<1>8. HandleHasWorker' /\ SweepSpares'
  BY <1>2, <1>3 DEF IInv, HandleHasWorker, SweepSpares, Doing
<1> QED  BY <1>5, <1>6, <1>7, <1>8 DEF IInv

LEMMA AbandonKeeps ==
    ASSUME IInv, TypeOK', NEW t \in Thread, NEW r \in Run, Abandon(t, r)
    PROVE  IInv'
<1>1. RowsOK /\ TaskOK
  BY Types DEF IInv
<1>2. /\ task'[t] = [op |-> "idle"]
      /\ \A u \in Thread : u # t => task'[u] = task[u]
  BY <1>1, Others DEF Abandon
<1>3. /\ Doing(t, r, "created")
      /\ status'[r] \in {"cancelled", "failed", status[r]}
      /\ \A q \in Run : q # r => status'[q] = status[q]
      /\ UNCHANGED <<worker, holder>>
  BY <1>1 DEF Abandon, Write, RowsOK
<1>4. worker[r] = "none" /\ status[r] # "absent"
  BY <1>3 DEF IInv, CreatedIsFresh
<1>5. \A u \in Thread : u # t => ~ Doing(u, r, "created")
  BY <1>3 DEF IInv, OneStarter
<1>6. CreatedIsFresh' /\ OneStarter'
  BY <1>2, <1>3, <1>5 DEF IInv, CreatedIsFresh, OneStarter, Doing
<1>7. AbsentHasNoWorker' /\ FailedIsAFact'
  BY <1>3, <1>4 DEF IInv, AbsentHasNoWorker, FailedIsAFact
<1>8. HandleHasWorker' /\ SweepSpares'
  BY <1>2, <1>3 DEF IInv, HandleHasWorker, SweepSpares, Doing
<1> QED  BY <1>6, <1>7, <1>8 DEF IInv

LEMMA SpawnKeeps ==
    ASSUME IInv, TypeOK', NEW t \in Thread, NEW r \in Run, Spawn(t, r)
    PROVE  IInv'
<1>1. RowsOK /\ TaskOK
  BY Types DEF IInv
<1>2. /\ task'[t] = [op |-> "spawned", run |-> r]
      /\ \A u \in Thread : u # t => task'[u] = task[u]
  BY <1>1, Others DEF Spawn
<1>3. /\ Doing(t, r, "created")
      /\ worker'[r] = "boot"
      /\ \A q \in Run : q # r => worker'[q] = worker[q]
      /\ UNCHANGED <<status, holder>>
  BY <1>1 DEF Spawn, RowsOK
<1>4. status[r] \notin {"absent", "failed"}
  BY <1>3 DEF IInv, CreatedIsFresh
<1>5. \A u \in Thread : u # t => ~ Doing(u, r, "created")
  BY <1>3 DEF IInv, OneStarter
<1>6. CreatedIsFresh' /\ OneStarter'
  BY <1>2, <1>3, <1>5 DEF IInv, CreatedIsFresh, OneStarter, Doing
<1>7. AbsentHasNoWorker' /\ FailedIsAFact'
  BY <1>3, <1>4 DEF IInv, AbsentHasNoWorker, FailedIsAFact
<1>8. HandleHasWorker' /\ SweepSpares'
  BY <1>2, <1>3 DEF IInv, HandleHasWorker, SweepSpares, Doing
<1> QED  BY <1>6, <1>7, <1>8 DEF IInv

LEMMA TrackKeeps ==
    ASSUME IInv, TypeOK', NEW t \in Thread, NEW r \in Run, Track(t, r)
    PROVE  IInv'
<1>1. RowsOK /\ TaskOK
  BY Types DEF IInv
<1>2. /\ task'[t] = [op |-> "idle"]
      /\ \A u \in Thread : u # t => task'[u] = task[u]
  BY <1>1, Others DEF Track
<1>3. /\ Doing(t, r, "spawned") /\ Unlocked(t)
      /\ holder'[r] = ServerOf[t]
      /\ \A q \in Run : q # r => holder'[q] = holder[q]
      /\ UNCHANGED <<status, worker>>
  BY <1>1 DEF Track, RowsOK
<1>4. worker[r] # "none"
  BY <1>3 DEF IInv, HandleHasWorker
<1>5. CreatedIsFresh' /\ OneStarter'
  BY <1>2, <1>3 DEF IInv, CreatedIsFresh, OneStarter, Doing
<1>6. AbsentHasNoWorker' /\ FailedIsAFact'
  BY <1>3 DEF IInv, AbsentHasNoWorker, FailedIsAFact
<1>7. HandleHasWorker'
  <2>1. ASSUME NEW q \in Run, worker'[q] = "none"
        PROVE  holder'[q] = NoServer /\ \A u \in Thread : ~ Doing(u, q, "spawned")'
    <3>1. q # r /\ worker[q] = "none"
      BY <1>3, <1>4, <2>1
    <3>2. holder'[q] = NoServer /\ \A u \in Thread : ~ Doing(u, q, "spawned")
      BY <1>3, <3>1 DEF IInv, HandleHasWorker
    <3>3. ~ Doing(t, q, "spawned")'
      BY <1>2 DEF Doing
    <3> QED  BY <1>2, <3>2, <3>3 DEF Doing
  <2> QED  BY <2>1 DEF HandleHasWorker
<1>8. SweepSpares'
  BY <1>2, <1>3 DEF IInv, SweepSpares, Unlocked
<1> QED  BY <1>5, <1>6, <1>7, <1>8 DEF IInv
-----------------------------------------------------------------------------
LEMMA ReapKeeps ==
    ASSUME IInv, TypeOK', NEW t \in Thread, NEW then \in Follow, Reap(t, then)
    PROVE  IInv'
<1>1. RowsOK /\ TaskOK
  BY Types DEF IInv
<1> DEFINE out  == Exited(ServerOf[t])
           rows == [r \in Run |-> IF r \in out /\ status[r] \in Unfinished
                                  THEN "failed" ELSE status[r]]
           left == [r \in Run |-> IF r \in out THEN NoServer ELSE holder[r]]
<1>2. /\ status' = rows /\ holder' = left /\ UNCHANGED worker
      /\ Becomes(t, [op |-> "reap", stale |-> Silent(ServerOf[t], rows, left), then |-> then])
  BY DEF Reap
<1>3. /\ task'[t] = [op |-> "reap", stale |-> Silent(ServerOf[t], rows, left), then |-> then]
      /\ \A u \in Thread : u # t => task'[u] = task[u]
  BY <1>1, <1>2, Others
<1>4. \A r \in Silent(ServerOf[t], rows, left) : holder'[r] # ServerOf[t]
  BY <1>2 DEF Silent
<1>5. NothingBegun
  BY <1>3, <1>4 DEF NothingBegun, Doing
<1>6. \A r \in Run : r \in out => worker[r] = "gone"
  BY DEF Exited
<1>7. WorkersGoOn /\ HandlesDropped /\ RowsStay
  BY <1>2, <1>6 DEF WorkersGoOn, HandlesDropped, RowsStay
<1> QED  BY <1>5, <1>7, Later

(* The steps that end a read, a cancel, an archive or a delete.            *)
LEMMA FinishKeeps ==
    ASSUME IInv, TypeOK', NEW t \in Thread, NEW r \in Run,
           \/ Read(t) \/ ReapLost(t, r) \/ CancelWorker(t, r) \/ CancelRow(t, r)
           \/ Archive(t, r) \/ DeleteFiles(t, r) \/ DeleteRow(t, r)
    PROVE  IInv'
<1>1. RowsOK /\ TaskOK
  BY Types DEF IInv
<1>2. PICK what :
         /\ Becomes(t, what)
         /\ what.op \notin {"created", "spawned"}
         /\ what.op = "reap" => task[t].op = "reap" /\ what.stale \subseteq task[t].stale
  <2>1. CASE Read(t)
    <3>1. task[t] \in Sweep
      BY <1>1, <2>1 DEF Read, TaskOK, Task, Follow, Step
    <3>2. task[t].then \in Follow
      BY <3>1 DEF Sweep
    <3>3. task[t].then.op \notin {"created", "spawned", "reap"}
      BY <3>2 DEF Follow
    <3>4. Becomes(t, task[t].then) \/ Becomes(t, [op |-> "idle"])
      BY <2>1 DEF Read
    <3> QED  BY <3>3, <3>4
  <2>2. CASE ReapLost(t, r)
    <3>1. task[t] \in Sweep /\ task[t].op = "reap"
      BY <1>1, <2>2 DEF ReapLost, TaskOK, Task, Follow, Step
    <3> DEFINE what == [task[t] EXCEPT !.stale = @ \ {r}]
    <3>2. what.op = "reap" /\ what.stale \subseteq task[t].stale
      BY <3>1 DEF Sweep
    <3>3. Becomes(t, what)
      BY <2>2 DEF ReapLost
    <3> QED  BY <3>1, <3>2, <3>3
  <2>3. CASE CancelWorker(t, r) \/ DeleteFiles(t, r)
    <3>1. \E op \in {"cancelRow", "deleteRow"} : Becomes(t, [op |-> op, run |-> r])
      BY <2>3 DEF CancelWorker, DeleteFiles
    <3> QED  BY <3>1
  <2>4. CASE CancelRow(t, r) \/ Archive(t, r) \/ DeleteRow(t, r)
    <3>1. Becomes(t, [op |-> "idle"])
      BY <2>4 DEF CancelRow, Archive, DeleteRow
    <3> QED  BY <3>1
  <2> QED  BY <2>1, <2>2, <2>3, <2>4
<1>3. task'[t] = what /\ \A u \in Thread : u # t => task'[u] = task[u]
  BY <1>1, <1>2, Others
<1>4. NothingBegun
  BY <1>2, <1>3 DEF NothingBegun, Doing
<1>5. HandlesDropped
  BY <1>1 DEF HandlesDropped, RowsOK, Read, ReapLost, CancelWorker, CancelRow, Archive,
              DeleteFiles, DeleteRow
<1>6. \A q \in Run : /\ status'[q] \in {status[q], "lost", "cancelled", "deleted"}
                     /\ status'[q] = "absent" => status[q] = "absent"
  BY <1>1 DEF RowsOK, Write, Read, ReapLost, CancelWorker, CancelRow, Archive,
              DeleteFiles, DeleteRow
<1>7. WorkersGoOn
  <2>1. CASE CancelWorker(t, r)
    <3>1. /\ status' = status
          /\ \A q \in Run : \/ worker'[q] = worker[q]
                            \/ holder[q] = ServerOf[t] /\ worker'[q] = "gone"
      BY <1>1, <2>1 DEF CancelWorker, RowsOK
    <3>2. \A q \in Run : holder[q] = ServerOf[t] => worker[q] # "none"
      BY ServerAssumption DEF IInv, HandleHasWorker
    <3> QED  BY <3>1, <3>2 DEF WorkersGoOn
  <2>2. CASE ~ CancelWorker(t, r)
    <3>1. UNCHANGED worker
      BY <2>2 DEF Read, ReapLost, CancelRow, Archive, DeleteFiles, DeleteRow
    <3> QED  BY <1>6, <3>1 DEF WorkersGoOn
  <2> QED  BY <2>1, <2>2
<1> QED  BY <1>4, <1>5, <1>6, <1>7, Later DEF RowsStay

LEMMA WorkerKeeps ==
    ASSUME IInv, TypeOK', NEW r \in Run, WorkerStep(r)
    PROVE  IInv'
<1>1. RowsOK
  BY Types DEF IInv
<1>2. UNCHANGED <<holder, task>>
  BY DEF WorkerStep, MarkRunning, Heartbeat, Complete, WorkerFails, Exit
<1>3. NothingBegun /\ HandlesDropped
  BY <1>2 DEF NothingBegun, HandlesDropped, Doing
<1>4. status[r] = "failed" => worker[r] \notin {"boot", "working", "ended"}
  BY DEF IInv, FailedIsAFact
<1>5. /\ \A q \in Run : q # r => worker'[q] = worker[q] /\ status'[q] = status[q]
      /\ \/ /\ worker'[r] = worker[r] /\ status'[r] = status[r]
         \/ /\ worker[r] # "none" /\ worker'[r] # "none"
            /\ status'[r] = "failed" => worker'[r] \in {"leaving", "gone"}
      /\ status'[r] = "absent" => status[r] = "absent"
  <2>1. CASE MarkRunning(r) \/ Complete(r)
    BY <1>1, <1>4, <2>1 DEF MarkRunning, Complete, Write, RowsOK
  <2>2. CASE WorkerFails(r)
    BY <1>1, <2>2 DEF WorkerFails, Write, RowsOK
  <2>3. CASE Heartbeat(r) \/ Exit(r)
    BY <1>1, <2>3 DEF Heartbeat, Exit, Alive, RowsOK
  <2> QED  BY <2>1, <2>2, <2>3 DEF WorkerStep
<1>6. WorkersGoOn
  BY <1>5 DEF WorkersGoOn
<1>7. RowsStay
  BY <1>5 DEF RowsStay
<1> QED  BY <1>3, <1>6, <1>7, Later

LEMMA StopKeeps ==
    ASSUME IInv, TypeOK', NEW s \in Server, ServerStops(s)
    PROVE  IInv'
<1>1. RowsOK /\ TaskOK
  BY Types DEF IInv
<1>2. /\ UNCHANGED <<status, worker>>
      /\ \A t \in Thread : task'[t] \in {task[t], [op |-> "idle"]}
      /\ \A r \in Run : holder'[r] \in {holder[r], NoServer}
  BY <1>1 DEF ServerStops, RowsOK, TaskOK
<1>3. NothingBegun
  BY <1>2 DEF NothingBegun, Doing
<1>4. WorkersGoOn /\ HandlesDropped /\ RowsStay
  BY <1>2 DEF WorkersGoOn, HandlesDropped, RowsStay
<1> QED  BY <1>3, <1>4, Later

LEMMA IInvNext == IInv /\ [Next]_vars => IInv'
<1> SUFFICES ASSUME IInv, [Next]_vars PROVE IInv'
  OBVIOUS
<1>1. TypeOK'
  BY TypeNext DEF IInv
<1>2. ASSUME UNCHANGED <<status, worker, holder, task>> PROVE IInv'
  BY <1>1, <1>2, Later
     DEF NothingBegun, WorkersGoOn, HandlesDropped, RowsStay, Doing
<1>3. ASSUME NEW t \in Thread, BeginReap(t) PROVE IInv'
  BY <1>1, <1>3, ReapKeeps DEF BeginReap
<1>4. ASSUME NEW t \in Thread, NEW r \in Run,
             Create(t, r) \/ Abandon(t, r) \/ Spawn(t, r) \/ Track(t, r)
      PROVE  IInv'
  BY <1>1, <1>4, CreateKeeps, AbandonKeeps, SpawnKeeps, TrackKeeps
<1>5. ASSUME NEW t \in Thread, Read(t) PROVE IInv'
  <2>1. CASE Run = {}
    BY <1>1, <2>1, Types DEF IInv, CreatedIsFresh, OneStarter, AbsentHasNoWorker,
                             HandleHasWorker, SweepSpares, FailedIsAFact
  <2>2. CASE \E r \in Run : TRUE
    BY <1>1, <1>5, <2>2, FinishKeeps
  <2> QED  BY <2>1, <2>2
<1>6. ASSUME NEW t \in Thread, NEW r \in Run,
             \/ ReapLost(t, r) \/ CancelWorker(t, r) \/ CancelRow(t, r)
             \/ Archive(t, r) \/ DeleteFiles(t, r) \/ DeleteRow(t, r)
      PROVE  IInv'
  BY <1>1, <1>6, FinishKeeps
<1>7. ASSUME NEW r \in Run, WorkerStep(r) PROVE IInv'
  BY <1>1, <1>7, WorkerKeeps
<1>8. ASSUME NEW s \in Server, ServerStops(s) PROVE IInv'
  BY <1>1, <1>8, StopKeeps
<1>9. ASSUME NEW r \in Run, GoesSilent(r) \/ \E t \in Thread : Reveal(t, r) PROVE IInv'
  BY <1>2, <1>9 DEF GoesSilent, Reveal
<1>10. CASE UNCHANGED vars
  BY <1>2, <1>10 DEF vars
<1>11. ASSUME NEW t \in Thread, Finish(t) PROVE IInv'
  BY <1>4, <1>5, <1>6, <1>11 DEF Finish
<1> QED
  BY <1>3, <1>4, <1>7, <1>8, <1>9, <1>10, <1>11 DEF Next

(* failed is a fact (_reap): whatever servers reap, restart, cancel or     *)
(* delete between two steps, no row says failed while its worker works.    *)
THEOREM FailedHolds == Spec => []FailedIsAFact
<1>1. IInv => FailedIsAFact
  BY DEF IInv
<1> QED  BY <1>1, IInvInit, IInvNext, PTL DEF Spec

(* No server calls lost a run whose handle it has (_reap_locked), not even *)
(* when the launch registers it while the sweep is under way.              *)
THEOREM LostHasNoHandleHolds == Spec => LostHasNoHandle
<1> DEFINE NoHandle ==
       \A r \in Run : (status[r] # "lost" /\ status'[r] = "lost") =>
           \E t \in Thread : /\ task[t].op = "reap" /\ r \in task[t].stale
                           /\ holder[r] # ServerOf[t]
<1>1. IInv /\ [Next]_vars => [NoHandle]_vars
  <2> SUFFICES ASSUME IInv, Next, NEW r \in Run, status[r] # "lost", status'[r] = "lost"
               PROVE  \E t \in Thread : /\ task[t].op = "reap" /\ r \in task[t].stale
                                        /\ holder[r] # ServerOf[t]
    OBVIOUS
  <2>1. RowsOK
    BY Types DEF IInv
  <2>2. \E t \in Thread, q \in Run : ReapLost(t, q)
    <3>1. ASSUME NEW t \in Thread, BeginReap(t) PROVE FALSE
      BY <2>1, <3>1 DEF BeginReap, Reap, RowsOK
    <3>2. ASSUME NEW t \in Thread, NEW q \in Run,
                 \/ Create(t, q) \/ Abandon(t, q) \/ Spawn(t, q) \/ Track(t, q)
                 \/ CancelWorker(t, q) \/ CancelRow(t, q) \/ Archive(t, q) \/ Reveal(t, q)
                 \/ DeleteFiles(t, q) \/ DeleteRow(t, q)
          PROVE  FALSE
      BY <2>1, <3>2 DEF Create, Abandon, Spawn, Track, CancelWorker, CancelRow, Archive,
                        Reveal, DeleteFiles, DeleteRow, Write, RowsOK
    <3>3. ASSUME NEW t \in Thread, Read(t) PROVE FALSE
      BY <3>3 DEF Read
    <3>4. ASSUME NEW q \in Run, WorkerStep(q) \/ GoesSilent(q) PROVE FALSE
      BY <2>1, <3>4 DEF WorkerStep, MarkRunning, Heartbeat, Complete, WorkerFails, Exit,
                        GoesSilent, Write, RowsOK
    <3>5. ASSUME NEW s \in Server, ServerStops(s) PROVE FALSE
      BY <3>5 DEF ServerStops
    <3> QED  BY <3>1, <3>2, <3>3, <3>4, <3>5 DEF Next, Finish
  <2>3. PICK t \in Thread, q \in Run : ReapLost(t, q)
    BY <2>2
  <2>4. q = r
    BY <2>1, <2>3 DEF ReapLost, Write, RowsOK
  <2>5. task[t].op = "reap" /\ r \in task[t].stale
    BY <2>3, <2>4 DEF ReapLost
  <2> QED  BY <2>5 DEF IInv, SweepSpares
<1> QED  BY <1>1, IInvInit, IInvNext, PTL DEF Spec, LostHasNoHandle
=============================================================================
