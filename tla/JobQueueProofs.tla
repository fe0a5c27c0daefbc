--------------------------- MODULE JobQueueProofs ---------------------------
(***************************************************************************)
(* Theorems about JobQueue for every set of processes and folders, every   *)
(* bound and every configuration: what holds however many processes of the *)
(* service share the database, and whatever faults and crashes they meet.  *)
(* The last part has what only holds of a service of one process.          *)
(***************************************************************************)
EXTENDS JobQueue, TLAPS

-----------------------------------------------------------------------------
(* Statements on the rows, as facts about sequences *)

\* A function from 1..n to rows is a sequence of n rows.
LEMMA RowsAreSequence ==
    ASSUME NEW n \in Nat, NEW rows \in [1..n -> Job]
    PROVE  rows \in Seq(Job) /\ Len(rows) = n /\ DOMAIN rows = 1..n
OBVIOUS

LEMMA RowType ==
    ASSUME TypeOK, NEW j \in DOMAIN jobs
    PROVE  jobs[j] \in Job /\ jobs[j].folder \in Folder /\ jobs[j].status \in Status
<1>1. jobs[j] \in Job
  BY DEF TypeOK
<1> QED
  BY <1>1 DEF Job

\* What InsertPending does: one more row, last and pending, the others as they
\* were, and no other active row of its folder.
LEMMA InsertPendingRows ==
    ASSUME TypeOK, NEW f \in Folder, InsertPending(f)
    PROVE  /\ jobs' \in Seq(Job)
           /\ Len(jobs') = Len(jobs) + 1
           /\ DOMAIN jobs' = DOMAIN jobs \cup {Len(jobs) + 1}
           /\ Len(jobs) + 1 \notin DOMAIN jobs
           /\ \A j \in DOMAIN jobs : jobs'[j] = jobs[j]
           /\ jobs'[Len(jobs) + 1] = NewJob(f)
           /\ \A j \in WithStatus(jobs, ActiveStatus) : jobs[j].folder # f
<1>1. jobs \in Seq(Job) /\ NewJob(f) \in Job /\ jobs' = Append(jobs, NewJob(f))
  BY DEF TypeOK, InsertPending, NewJob, Job, Status, Stage
<1>2. Len(jobs) \in Nat /\ DOMAIN jobs = 1..Len(jobs)
  BY <1>1
<1>3. jobs' \in Seq(Job) /\ Len(jobs') = Len(jobs) + 1
  BY <1>1
<1>4. DOMAIN jobs' = 1..(Len(jobs) + 1)
  BY <1>3, <1>2
<1>5. \A j \in DOMAIN jobs : jobs'[j] = jobs[j]
  BY <1>1, <1>2
<1>6. jobs'[Len(jobs) + 1] = NewJob(f)
  BY <1>1, <1>2
<1>7. \A j \in WithStatus(jobs, ActiveStatus) : jobs[j].folder # f
  BY DEF InsertPending, ActiveJobs
<1> QED
  BY <1>2, <1>3, <1>4, <1>5, <1>6, <1>7

\* What an update of one row does: its status and stage change, nothing else.
LEMMA UpdateRowRows ==
    ASSUME TypeOK, NEW j \in DOMAIN jobs, NEW s \in Status, NEW e \in Stage,
           jobs' = UpdateRow(j, s, e)
    PROVE  /\ jobs' \in Seq(Job)
           /\ Len(jobs') = Len(jobs)
           /\ DOMAIN jobs' = DOMAIN jobs
           /\ \A k \in DOMAIN jobs : k # j => jobs'[k] = jobs[k]
           /\ jobs'[j] = Marked(jobs[j], s, e)
           /\ jobs'[j].folder = jobs[j].folder
           /\ jobs'[j].status = s
<1>1. Len(jobs) \in Nat /\ DOMAIN jobs = 1..Len(jobs) /\ jobs \in [1..Len(jobs) -> Job]
  BY DEF TypeOK
<1>2. Marked(jobs[j], s, e) \in Job
  BY <1>1 DEF Marked, Job
<1>3. jobs' \in [1..Len(jobs) -> Job]
  BY <1>1, <1>2 DEF UpdateRow
<1>4. jobs'[j] = Marked(jobs[j], s, e) /\ \A k \in DOMAIN jobs : k # j => jobs'[k] = jobs[k]
  BY <1>1 DEF UpdateRow
<1>5. jobs'[j].folder = jobs[j].folder /\ jobs'[j].status = s
  BY <1>4 DEF Marked
<1>6. jobs' \in Seq(Job) /\ Len(jobs') = Len(jobs) /\ DOMAIN jobs' = DOMAIN jobs
  BY <1>1, <1>3, RowsAreSequence
<1> QED
  BY <1>4, <1>5, <1>6

\* The rows after the recovery of the rows in S.
RecoveredIn(S) == [j \in DOMAIN jobs |-> IF j \in S THEN Recovered(jobs[j]) ELSE jobs[j]]

\* What recovery does: the selected rows become failed, the others stay.
LEMMA RecoverRows ==
    ASSUME TypeOK, NEW S, jobs' = RecoveredIn(S)
    PROVE  /\ jobs' \in Seq(Job)
           /\ Len(jobs') = Len(jobs)
           /\ DOMAIN jobs' = DOMAIN jobs
           /\ \A j \in DOMAIN jobs :
                 /\ jobs'[j].folder = jobs[j].folder
                 /\ j \in S => jobs'[j].status = "failed"
                 /\ j \notin S => jobs'[j] = jobs[j]
<1>1. Len(jobs) \in Nat /\ DOMAIN jobs = 1..Len(jobs) /\ jobs \in [1..Len(jobs) -> Job]
  BY DEF TypeOK
<1>2. \A j \in DOMAIN jobs : Recovered(jobs[j]) \in Job
  BY <1>1 DEF Recovered, Marked, Job, Status, Stage
<1>3. jobs' \in [1..Len(jobs) -> Job]
  BY <1>1, <1>2 DEF RecoveredIn
<1>4. \A j \in DOMAIN jobs : jobs'[j] = IF j \in S THEN Recovered(jobs[j]) ELSE jobs[j]
  BY <1>1 DEF RecoveredIn
<1>5. ASSUME NEW j \in DOMAIN jobs
      PROVE  /\ jobs'[j].folder = jobs[j].folder
             /\ j \in S => jobs'[j].status = "failed"
             /\ j \notin S => jobs'[j] = jobs[j]
  <2>1. Recovered(jobs[j]).folder = jobs[j].folder /\ Recovered(jobs[j]).status = "failed"
    BY DEF Recovered, Marked
  <2> QED
    BY <1>4, <2>1
<1>6. jobs' \in Seq(Job) /\ Len(jobs') = Len(jobs) /\ DOMAIN jobs' = DOMAIN jobs
  BY <1>1, <1>3, RowsAreSequence
<1> QED
  BY <1>5, <1>6
-----------------------------------------------------------------------------
(* The inductive invariant of any number of processes *)

\* The control state of a runner: it has a row exactly while it ingests, and
\* it does not exist before the process serves.
RunnerShape ==
    \A i \in Instance :
        /\ runner[i] = "ingesting" <=> cur[i] # NoJob
        /\ app[i] \in {"down", "recovering", "recovered", "startup_scan"} => runner[i] = "none"

QueueInv == TypeOK /\ RunnerShape /\ RowIngestedOnce /\ OneActivePerFolder

\* The row a runner ingests exists.
LEMMA IngestedRowExists ==
    ASSUME RunnerShape, RowIngestedOnce, NEW i \in Instance, Ingesting(i)
    PROVE  cur[i] \in DOMAIN jobs /\ jobs[cur[i]].status # "pending"
BY DEF RunnerShape, RowIngestedOnce, Ingesting, Pending, WithStatus

LEMMA EnsureRunnerStartedType ==
    ASSUME TypeOK, NEW i \in Instance, NEW rows
    PROVE  /\ EnsureRunnerStarted(i, rows) \in RunnerState
           /\ EnsureRunnerStarted(i, rows) = "ingesting" <=> runner[i] = "ingesting"
BY DEF EnsureRunnerStarted, TypeOK, RunnerState, NotRunning

\* Every step keeps the types.
LEMMA TypeNext ==
    ASSUME TypeOK, RunnerShape, RowIngestedOnce, [Next]_vars
    PROVE  TypeOK'
<1> USE DEF AppState, RunnerState
<1>1. CASE UNCHANGED vars
  BY <1>1 DEF vars, TypeOK
<1>2. ASSUME NEW i \in Instance, Start(i) PROVE TypeOK'
  <2>1. CASE SelectStaleRunningJobs(i)
    <3>1. Running \in SUBSET Nat
      BY DEF Running, WithStatus, TypeOK
    <3> QED
      BY <2>1, <3>1 DEF SelectStaleRunningJobs, TypeOK
  <2>2. CASE FailStaleRunningJobs(i)
    <3>1. jobs' \in Seq(Job)
      BY <2>2, RecoverRows DEF FailStaleRunningJobs, RecoveredIn
    <3> QED
      BY <2>2, <3>1 DEF FailStaleRunningJobs, TypeOK
  <2>3. CASE StartWithoutScan(i)
    BY <2>3 DEF StartWithoutScan, TypeOK
  <2> QED
    BY <1>2, <2>1, <2>2, <2>3 DEF Start
<1>3. ASSUME NEW i \in Instance, Scan(i) PROVE TypeOK'
  <2>1. ASSUME NEW C \in SUBSET Folder, ScanBegin(i, C) PROVE TypeOK'
    BY <2>1 DEF ScanBegin, TypeOK
  <2>2. ASSUME NEW f \in Folder, ScanCreate(i, f) PROVE TypeOK'
    <3>1. jobs' \in Seq(Job)
      BY <2>2, InsertPendingRows DEF ScanCreate, TypeOK
    <3> QED
      BY <2>2, <3>1 DEF ScanCreate, TypeOK
  <2>3. CASE ScanEnd(i)
    BY <2>3, EnsureRunnerStartedType DEF ScanEnd, TypeOK
  <2>4. CASE ScanRaises(i)
    BY <2>4 DEF ScanRaises, TypeOK
  <2> QED
    BY <1>3, <2>1, <2>2, <2>3, <2>4 DEF Scan
<1>4. ASSUME NEW i \in Instance, Request(i) PROVE TypeOK'
  <2>1. ASSUME NEW f \in Folder, EnqueuePathJob(i, f) PROVE TypeOK'
    <3>1. jobs' \in Seq(Job)
      BY <2>1, InsertPendingRows DEF EnqueuePathJob
    <3> QED
      BY <2>1, <3>1, EnsureRunnerStartedType DEF EnqueuePathJob, TypeOK
  <2>2. ASSUME NEW f \in Folder, RequestRaises(i, f) PROVE TypeOK'
    <3>1. jobs' \in Seq(Job)
      BY <2>2, InsertPendingRows DEF RequestRaises
    <3> QED
      BY <2>2, <3>1 DEF RequestRaises, TypeOK
  <2>3. ASSUME NEW j \in DOMAIN jobs, RetryJob(i, j) PROVE TypeOK'
    <3>1. jobs[j].folder \in Folder
      BY RowType
    <3>2. jobs' \in Seq(Job)
      BY <2>3, <3>1, InsertPendingRows DEF RetryJob
    <3> QED
      BY <2>3, <3>2, EnsureRunnerStartedType DEF RetryJob, TypeOK
  <2> QED
    BY <1>4, <2>1, <2>2, <2>3 DEF Request
<1>5. ASSUME NEW i \in Instance, RunQueue(i) PROVE TypeOK'
  <2>1. ASSUME NEW j \in DOMAIN jobs, ClaimNextPendingJob(i, j) PROVE TypeOK'
    <3>1. jobs' \in Seq(Job) /\ j \in Nat
      BY <2>1, UpdateRowRows DEF ClaimNextPendingJob, MarkRunning, Status, Stage, TypeOK
    <3> QED
      BY <2>1, <3>1 DEF ClaimNextPendingJob, TypeOK
  <2>2. CASE RunnerReturns(i)
    BY <2>2 DEF RunnerReturns, TypeOK
  <2>3. CASE ClaimRaises(i)
    <3>1. ASSUME NEW j \in Pending, jobs' = MarkRunning(j) PROVE jobs' \in Seq(Job)
      BY <3>1, UpdateRowRows DEF Pending, WithStatus, MarkRunning, Status, Stage
    <3>2. jobs' \in Seq(Job)
      BY <2>3, <3>1 DEF ClaimRaises, TypeOK
    <3> QED
      BY <2>3, <3>2 DEF ClaimRaises, TypeOK
  <2> QED
    BY <1>5, <2>1, <2>2, <2>3 DEF RunQueue
<1>6. ASSUME NEW i \in Instance, Ingest(i) PROVE TypeOK'
  <2>1. ASSUME NEW s \in Status, NEW stage, FinishIngest(i, s, stage) PROVE TypeOK'
    <3>1. jobs' \in Seq(Job)
      BY <2>1, IngestedRowExists, UpdateRowRows DEF FinishIngest
    <3> QED
      BY <2>1, <3>1 DEF FinishIngest, TypeOK, NoJob
  <2>2. CASE IngestRaises(i)
    BY <2>2 DEF IngestRaises, TypeOK, NoJob
  <2> QED
    BY <1>6, <2>1, <2>2 DEF Ingest, IngestSucceeds, IngestFails, Status
<1>7. ASSUME NEW i \in Instance, Crash(i) PROVE TypeOK'
  BY <1>7 DEF Crash, TypeOK, NoJob
<1> QED
  BY <1>1, <1>2, <1>3, <1>4, <1>5, <1>6, <1>7 DEF Next

\* The ways a step changes the rows.  Only the last two involve a runner,
\* and the last one touches only the row that runner ingests.
Inserts == \E f \in Folder : InsertPending(f)
Recovers == \E i \in Instance : app[i] = "recovering" /\ jobs' = RecoveredIn(stale[i])
Claims ==
    \E i \in Instance, j \in DOMAIN jobs :
        BetweenJobs(i) /\ Claimable(i, j) /\ jobs' = MarkRunning(j)
Settles ==
    \E i \in Instance, s \in {"succeeded", "failed"}, e \in Stage :
        Ingesting(i) /\ jobs' = UpdateRow(cur[i], s, e)

LEMMA RowsNext ==
    ASSUME TypeOK, [Next]_vars
    PROVE  UNCHANGED jobs \/ Inserts \/ Recovers \/ Claims \/ Settles
<1>1. CASE UNCHANGED vars
  BY <1>1 DEF vars
<1>2. ASSUME NEW i \in Instance, Start(i) PROVE UNCHANGED jobs \/ Recovers
  BY <1>2 DEF Start, SelectStaleRunningJobs, FailStaleRunningJobs, StartWithoutScan, Recovers, RecoveredIn
<1>3. ASSUME NEW i \in Instance, Scan(i) PROVE UNCHANGED jobs \/ Inserts
  BY <1>3 DEF Scan, ScanBegin, ScanCreate, ScanEnd, ScanRaises, Inserts
<1>4. ASSUME NEW i \in Instance, Request(i) PROVE Inserts
  BY <1>4, RowType DEF Request, EnqueuePathJob, RequestRaises, RetryJob, Inserts
<1>5. ASSUME NEW i \in Instance, RunQueue(i) PROVE UNCHANGED jobs \/ Claims
  BY <1>5 DEF RunQueue, ClaimNextPendingJob, RunnerReturns, ClaimRaises, Claims, Pending, WithStatus
<1>6. ASSUME NEW i \in Instance, Ingest(i) PROVE UNCHANGED jobs \/ Settles
  BY <1>6 DEF Ingest, IngestSucceeds, IngestFails, FinishIngest, IngestRaises, Settles
<1>7. ASSUME NEW i \in Instance, Crash(i) PROVE UNCHANGED jobs
  BY <1>7 DEF Crash
<1> QED
  BY <1>1, <1>2, <1>3, <1>4, <1>5, <1>6, <1>7 DEF Next

\* Rows are never lost or moved to another folder, a row that has left the
\* queue does not come back, and a finished row is not active again.
LedgerKept ==
    \A j \in DOMAIN jobs :
        /\ j \in DOMAIN jobs'
        /\ jobs'[j].folder = jobs[j].folder
        /\ jobs[j].status # "pending" => jobs'[j].status # "pending"
        /\ jobs[j].status \notin ActiveStatus => jobs'[j].status \notin ActiveStatus

LEMMA LedgerKeptNext ==
    ASSUME TypeOK, RunnerShape, RowIngestedOnce, [Next]_vars
    PROVE  LedgerKept
<1> USE DEF LedgerKept, ActiveStatus
<1>1. CASE UNCHANGED jobs
  BY <1>1
<1>2. CASE Inserts
  BY <1>2, InsertPendingRows DEF Inserts
<1>3. CASE Recovers
  BY <1>3, RecoverRows DEF Recovers
<1>4. ASSUME NEW i \in Instance, NEW j \in DOMAIN jobs, Claimable(i, j), jobs' = MarkRunning(j)
      PROVE  LedgerKept
  <2>1. jobs[j].status = "pending"
    BY <1>4 DEF Claimable, Pending, WithStatus
  <2> QED
    BY <1>4, <2>1, UpdateRowRows DEF MarkRunning, Status, Stage
<1>5. ASSUME NEW i \in Instance, NEW s \in {"succeeded", "failed"}, NEW e \in Stage,
             Ingesting(i), jobs' = UpdateRow(cur[i], s, e)
      PROVE  LedgerKept
  BY <1>5, IngestedRowExists, UpdateRowRows DEF Status
<1> QED
  BY <1>1, <1>2, <1>3, <1>4, <1>5, RowsNext DEF Claims, Settles

LEMMA OneActiveNext ==
    ASSUME TypeOK, RunnerShape, RowIngestedOnce, OneActivePerFolder, [Next]_vars
    PROVE  OneActivePerFolder'
<1> USE DEF OneActivePerFolder, WithStatus
<1>1. CASE Inserts
  <2>1. PICK f \in Folder : InsertPending(f)
    BY <1>1 DEF Inserts
  <2>2. jobs'[Len(jobs) + 1].folder = f
    <3>1. jobs'[Len(jobs) + 1] = NewJob(f)
      BY <2>1, InsertPendingRows
    <3> QED
      BY <3>1 DEF NewJob
  <2>3. ASSUME NEW j \in DOMAIN jobs', NEW k \in DOMAIN jobs',
               jobs'[j].status \in ActiveStatus, jobs'[k].status \in ActiveStatus,
               jobs'[j].folder = jobs'[k].folder
        PROVE  j = k
    <3>1. \A n \in DOMAIN jobs' : n \in DOMAIN jobs \/ n = Len(jobs) + 1
      BY <2>1, InsertPendingRows
    <3>2. \A n \in DOMAIN jobs : jobs'[n] = jobs[n]
      BY <2>1, InsertPendingRows
    <3>3. \A n \in DOMAIN jobs : jobs[n].status \in ActiveStatus => jobs[n].folder # f
      BY <2>1, InsertPendingRows
    <3>4. CASE j \in DOMAIN jobs /\ k \in DOMAIN jobs
      BY <2>3, <3>2, <3>4
    <3>5. CASE j = Len(jobs) + 1 \/ k = Len(jobs) + 1
      BY <2>2, <2>3, <3>1, <3>2, <3>3, <3>5
    <3> QED
      BY <3>1, <3>4, <3>5
  <2> QED
    BY <2>3
<1>2. CASE DOMAIN jobs' = DOMAIN jobs
           /\ \A j \in DOMAIN jobs : jobs'[j].status \in ActiveStatus => jobs[j].status \in ActiveStatus
  BY <1>2, LedgerKeptNext DEF LedgerKept
<1>3. UNCHANGED jobs \/ Recovers \/ Claims \/ Settles => DOMAIN jobs' = DOMAIN jobs
  BY RecoverRows, UpdateRowRows, IngestedRowExists
     DEF Recovers, Claims, Settles, MarkRunning, Status, Stage
<1>4. UNCHANGED jobs \/ Recovers \/ Claims \/ Settles =>
        \A j \in DOMAIN jobs : jobs'[j].status \in ActiveStatus => jobs[j].status \in ActiveStatus
  BY LedgerKeptNext DEF LedgerKept
<1> QED
  BY <1>1, <1>2, <1>3, <1>4, RowsNext

LEMMA RunnerShapeNext ==
    ASSUME TypeOK, RunnerShape, RowIngestedOnce, [Next]_vars
    PROVE  RunnerShape'
<1> USE DEF RunnerShape, NoJob
<1>1. CASE UNCHANGED vars
  BY <1>1 DEF vars
<1>2. ASSUME NEW i \in Instance, Start(i) PROVE RunnerShape'
  BY <1>2 DEF Start, SelectStaleRunningJobs, FailStaleRunningJobs, StartWithoutScan, TypeOK
<1>3. ASSUME NEW i \in Instance, Scan(i) PROVE RunnerShape'
  BY <1>3, EnsureRunnerStartedType DEF Scan, ScanBegin, ScanCreate, ScanEnd, ScanRaises, LoopFree, TypeOK
<1>4. ASSUME NEW i \in Instance, Request(i) PROVE RunnerShape'
  BY <1>4, EnsureRunnerStartedType DEF Request, EnqueuePathJob, RequestRaises, RetryJob, LoopFree, TypeOK
<1>5. ASSUME NEW i \in Instance, RunQueue(i) PROVE RunnerShape'
  <2>1. ASSUME NEW j \in DOMAIN jobs, ClaimNextPendingJob(i, j) PROVE RunnerShape'
    <3>1. j # 0
      BY DEF TypeOK
    <3> QED
      BY <2>1, <3>1 DEF ClaimNextPendingJob, BetweenJobs, TypeOK
  <2> QED
    BY <1>5, <2>1 DEF RunQueue, RunnerReturns, ClaimRaises, BetweenJobs, TypeOK
<1>6. ASSUME NEW i \in Instance, Ingest(i) PROVE RunnerShape'
  BY <1>6 DEF Ingest, IngestSucceeds, IngestFails, FinishIngest, IngestRaises, Ingesting, TypeOK
<1>7. ASSUME NEW i \in Instance, Crash(i) PROVE RunnerShape'
  BY <1>7 DEF Crash, TypeOK
<1> QED
  BY <1>1, <1>2, <1>3, <1>4, <1>5, <1>6, <1>7 DEF Next

\* Only a claim gives a runner a row: every other step keeps cur or clears it.
LEMMA CurNext ==
    ASSUME TypeOK, RunnerShape, [Next]_vars
    PROVE  \/ \A i \in Instance : cur'[i] = cur[i] \/ cur'[i] = NoJob
           \/ \E i \in Instance, j \in DOMAIN jobs : ClaimNextPendingJob(i, j)
<1> USE DEF TypeOK
<1>1. CASE UNCHANGED vars
  BY <1>1 DEF vars
<1>2. ASSUME NEW i \in Instance, Start(i) \/ Scan(i) \/ Request(i) PROVE UNCHANGED cur
  BY <1>2 DEF Start, SelectStaleRunningJobs, FailStaleRunningJobs, StartWithoutScan, Scan, ScanBegin, ScanCreate,
              ScanEnd, ScanRaises, Request, EnqueuePathJob, RequestRaises, RetryJob
<1>3. ASSUME NEW i \in Instance, RunnerReturns(i) \/ ClaimRaises(i) PROVE UNCHANGED cur
  BY <1>3 DEF RunnerReturns, ClaimRaises
<1>4. ASSUME NEW i \in Instance, Ingest(i) \/ Crash(i) PROVE cur' = [cur EXCEPT ![i] = NoJob]
  BY <1>4 DEF Ingest, IngestSucceeds, IngestFails, FinishIngest, IngestRaises, Crash
<1> QED
  BY <1>1, <1>2, <1>3, <1>4 DEF Next, RunQueue

LEMMA RowIngestedOnceNext ==
    ASSUME TypeOK, RunnerShape, RowIngestedOnce, [Next]_vars
    PROVE  RowIngestedOnce'
<1>1. \A j \in DOMAIN jobs \ Pending : j \in DOMAIN jobs' \ Pending'
  BY LedgerKeptNext DEF LedgerKept, Pending, WithStatus
<1>2. CASE \A i \in Instance : cur'[i] = cur[i] \/ cur'[i] = NoJob
  BY <1>1, <1>2 DEF RowIngestedOnce
<1>3. ASSUME NEW i \in Instance, NEW j \in DOMAIN jobs, ClaimNextPendingJob(i, j)
      PROVE  RowIngestedOnce'
  <2>1. j \in Pending /\ \A k \in Instance : cur[k] # j \/ cur[k] = NoJob
    BY <1>3 DEF ClaimNextPendingJob, Claimable, RowIngestedOnce
  <2>2. cur' = [cur EXCEPT ![i] = j]
    BY <1>3 DEF ClaimNextPendingJob
  <2>3. j \in DOMAIN jobs' \ Pending'
    BY <1>3, UpdateRowRows DEF ClaimNextPendingJob, MarkRunning, Status, Stage, Pending, WithStatus
  <2> QED
    BY <1>1, <2>1, <2>2, <2>3 DEF RowIngestedOnce, TypeOK
<1> QED
  BY <1>2, <1>3, CurNext

-----------------------------------------------------------------------------
(* The theorems *)

LEMMA QueueInvInit == Init => QueueInv
<1> SUFFICES ASSUME Init PROVE QueueInv
  OBVIOUS
<1>1. jobs \in Seq(Job) /\ DOMAIN jobs = {}
  BY DEF Init
<1> QED
  BY <1>1 DEF Init, QueueInv, TypeOK, AppState, RunnerState, RunnerShape, RowIngestedOnce,
              OneActivePerFolder, WithStatus, NoJob

LEMMA QueueInvNext == QueueInv /\ [Next]_vars => QueueInv'
BY TypeNext, RunnerShapeNext, RowIngestedOnceNext, OneActiveNext DEF QueueInv

\* The inductive invariant holds of every behaviour.
THEOREM QueueInvariant == Spec => []QueueInv
<1> QED
  BY QueueInvInit, QueueInvNext, PTL DEF Spec

\* Type correctness, for every set of processes and folders and every bound.
THEOREM TypeCorrect == Spec => []TypeOK
<1>1. QueueInv => TypeOK
  BY DEF QueueInv
<1> QED
  BY <1>1, QueueInvariant, PTL

\* The folder lock: at most one pending or running row per folder, whatever
\* the processes do concurrently, with every fault and crash.
THEOREM OneActiveJob == Spec => []OneActivePerFolder
<1>1. QueueInv => OneActivePerFolder
  BY DEF QueueInv
<1> QED
  BY <1>1, QueueInvariant, PTL

\* The claim hands every row to one runner only.
THEOREM ClaimIsExclusive == Spec => []RowIngestedOnce
<1>1. QueueInv => RowIngestedOnce
  BY DEF QueueInv
<1> QED
  BY <1>1, QueueInvariant, PTL

\* Finished rows stay finished and claimed rows stay out of the queue.
THEOREM FinishedStaysFinished == Spec => NoResurrection
<1>1. QueueInv /\ [Next]_vars =>
        [\A j \in DOMAIN jobs :
            /\ j \in DOMAIN jobs'
            /\ jobs[j].status \notin ActiveStatus => jobs'[j].status \notin ActiveStatus
            /\ jobs[j].status = "running" => jobs'[j].status # "pending"]_vars
  BY LedgerKeptNext DEF LedgerKept, QueueInv
<1> QED
  BY <1>1, QueueInvariant, PTL DEF Spec, NoResurrection

-----------------------------------------------------------------------------
(* A service of one process, p, whose database calls and ingests do not raise *)
(* past the code that handles them: the deployment the repository describes,  *)
(* crashes and restarts included.                                             *)

\* What the theorems of this part assume of the constants.
OneProcess(p) == Instance = {p} /\ ~DatabaseFaults /\ ~EscapingIngest

\* RunningIsOwned and NoLostWakeup in the form that is inductive.  What recovery
\* has selected is still what is running when it writes.  Between the
\* insert of a scan and its end a drained queue may have pending rows, which is
\* why the second part speaks of a serving process only.
OneInv(p) ==
    /\ QueueInv
    /\ app[p] = "recovering" => stale[p] = Running
    /\ app[p] \notin {"down", "recovering"} => \A j \in DOMAIN jobs :
          jobs[j].status = "running" <=> (runner[p] = "ingesting" /\ j = cur[p])
    /\ app[p] = "serving" /\ runner[p] = "returned" => Pending = {}

LEMMA OneInvIsPromised ==
    ASSUME NEW p, Instance = {p}, OneInv(p)
    PROVE  RunningIsOwned /\ NoLostWakeup
<1>1. ASSUME app[p] \notin {"down", "recovering"}
      PROVE  Running = IF runner[p] = "ingesting" THEN {cur[p]} ELSE {}
  <2>1. runner[p] = "ingesting" => cur[p] \in DOMAIN jobs
    BY DEF OneInv, QueueInv, RunnerShape, RowIngestedOnce
  <2> QED
    BY <1>1, <2>1 DEF OneInv, Running, WithStatus
<1> QED
  BY <1>1 DEF OneInv, RunningIsOwned, NoLostWakeup

-----------------------------------------------------------------------------
(* One lemma per group of actions *)

LEMMA OneStart ==
    ASSUME NEW p, OneProcess(p), OneInv(p), QueueInv', Start(p)
    PROVE  OneInv(p)'
<1>1. CASE SelectStaleRunningJobs(p)
  BY <1>1 DEF SelectStaleRunningJobs, OneInv, QueueInv, TypeOK, OneProcess, Running
<1>2. CASE FailStaleRunningJobs(p)
  <2>1. \A j \in DOMAIN jobs' : jobs'[j].status # "running"
    <3>1. stale[p] = Running
      BY <1>2 DEF FailStaleRunningJobs, OneInv
    <3> QED
      BY <1>2, <3>1, RecoverRows
         DEF FailStaleRunningJobs, RecoveredIn, OneInv, QueueInv, Running, WithStatus
  <2>2. runner'[p] = "none" /\ app'[p] = "recovered"
    BY <1>2 DEF FailStaleRunningJobs, OneInv, QueueInv, RunnerShape, OneProcess, TypeOK
  <2> QED
    BY <2>1, <2>2 DEF OneInv
<1>3. CASE StartWithoutScan(p)
  BY <1>3 DEF StartWithoutScan, OneInv, QueueInv, RunnerShape, TypeOK, OneProcess
<1> QED
  BY <1>1, <1>2, <1>3 DEF Start

\* An inserted row is pending, so it is nobody's running row.
LEMMA InsertKeepsRunning ==
    ASSUME TypeOK, NEW f \in Folder, InsertPending(f), NEW p,
           \A j \in DOMAIN jobs : jobs[j].status = "running" <=> (runner[p] = "ingesting" /\ j = cur[p]),
           runner[p] = "ingesting" => cur[p] \in DOMAIN jobs
    PROVE  \A j \in DOMAIN jobs' : jobs'[j].status = "running" <=> (runner[p] = "ingesting" /\ j = cur[p])
<1>1. jobs'[Len(jobs) + 1].status = "pending"
  <2>1. jobs'[Len(jobs) + 1] = NewJob(f)
    BY InsertPendingRows
  <2> QED
    BY <2>1 DEF NewJob
<1>2. DOMAIN jobs' = DOMAIN jobs \cup {Len(jobs) + 1} /\ Len(jobs) + 1 \notin DOMAIN jobs
  BY InsertPendingRows
<1>3. \A j \in DOMAIN jobs : jobs'[j] = jobs[j]
  BY InsertPendingRows
<1> QED
  BY <1>1, <1>2, <1>3

LEMMA OneScan ==
    ASSUME NEW p, OneProcess(p), OneInv(p), QueueInv', Scan(p)
    PROVE  OneInv(p)'
<1>1. ASSUME NEW C \in SUBSET Folder, ScanBegin(p, C) PROVE OneInv(p)'
  BY <1>1 DEF ScanBegin, LoopFree, OneInv, QueueInv, RunnerShape, TypeOK, OneProcess, Pending
<1>2. ASSUME NEW f \in Folder, ScanCreate(p, f) PROVE OneInv(p)'
  <2>1. runner[p] = "ingesting" => cur[p] \in DOMAIN jobs
    BY DEF OneInv, QueueInv, RunnerShape, RowIngestedOnce, OneProcess
  <2>2. app[p] \notin {"down", "recovering"} /\ app'[p] \in {"startup_scan", "scanning"} /\ UNCHANGED <<runner, cur>>
    BY <1>2 DEF ScanCreate, OneProcess, TypeOK
  <2>3. CASE UNCHANGED jobs
    BY <2>2, <2>3 DEF OneInv
  <2>4. CASE InsertPending(f)
    BY <2>1, <2>2, <2>4, InsertKeepsRunning DEF OneInv, QueueInv
  <2> QED
    BY <1>2, <2>3, <2>4 DEF ScanCreate
<1>3. CASE ScanEnd(p)
  BY <1>3 DEF ScanEnd, EnsureRunnerStarted, NotRunning, OneInv, QueueInv, RunnerShape, TypeOK,
              OneProcess, Pending
<1> QED
  BY <1>1, <1>2, <1>3 DEF Scan, ScanRaises, OneProcess

LEMMA OneRequest ==
    ASSUME NEW p, OneProcess(p), OneInv(p), QueueInv', Request(p)
    PROVE  OneInv(p)'
<1>1. ASSUME NEW f \in Folder, InsertPending(f), LoopFree(p), UNCHANGED <<app, stale, todo, cur>>,
             runner' = [runner EXCEPT ![p] = EnsureRunnerStarted(p, jobs')]
      PROVE  OneInv(p)'
  <2>1. runner[p] = "ingesting" => cur[p] \in DOMAIN jobs
    BY DEF OneInv, QueueInv, RunnerShape, RowIngestedOnce, OneProcess
  <2>2. \A j \in DOMAIN jobs' : jobs'[j].status = "running" <=> (runner[p] = "ingesting" /\ j = cur[p])
    BY <1>1, <2>1, InsertKeepsRunning DEF OneInv, QueueInv, LoopFree
  <2>3. runner'[p] = EnsureRunnerStarted(p, jobs')
    BY <1>1 DEF OneInv, QueueInv, TypeOK, OneProcess
  <2>4. runner'[p] = "ingesting" <=> runner[p] = "ingesting"
    BY <2>3 DEF EnsureRunnerStarted, NotRunning
  <2>5. runner'[p] = "returned" => Pending' = {}
    BY <2>3 DEF EnsureRunnerStarted, NotRunning, Pending
  <2>6. app'[p] = "serving"
    BY <1>1 DEF LoopFree
  <2> QED
    BY <1>1, <2>2, <2>4, <2>5, <2>6 DEF OneInv
<1>2. ASSUME NEW j \in DOMAIN jobs PROVE jobs[j].folder \in Folder
  BY <1>2, RowType DEF OneInv, QueueInv
<1> QED
  BY <1>1, <1>2 DEF Request, EnqueuePathJob, RetryJob, RequestRaises, OneProcess

LEMMA OneRunQueue ==
    ASSUME NEW p, OneProcess(p), OneInv(p), QueueInv', RunQueue(p)
    PROVE  OneInv(p)'
<1>1. ASSUME NEW j \in DOMAIN jobs, ClaimNextPendingJob(p, j) PROVE OneInv(p)'
  <2>1. \A k \in DOMAIN jobs : jobs[k].status # "running"
    BY <1>1 DEF OneInv, ClaimNextPendingJob, BetweenJobs
  <2>2. runner'[p] = "ingesting" /\ cur'[p] = j
    BY <1>1 DEF ClaimNextPendingJob, OneInv, QueueInv, TypeOK, OneProcess
  <2>3. /\ DOMAIN jobs' = DOMAIN jobs
        /\ \A k \in DOMAIN jobs : k # j => jobs'[k] = jobs[k]
        /\ jobs'[j].status = "running"
    BY <1>1, UpdateRowRows DEF ClaimNextPendingJob, MarkRunning, Status, Stage, OneInv, QueueInv
  <2>4. app'[p] = "serving"
    BY <1>1 DEF ClaimNextPendingJob, BetweenJobs
  <2> QED
    BY <2>1, <2>2, <2>3, <2>4 DEF OneInv
<1>2. CASE RunnerReturns(p)
  BY <1>2 DEF RunnerReturns, BetweenJobs, OneInv, QueueInv, TypeOK, OneProcess, Pending
<1> QED
  BY <1>1, <1>2 DEF RunQueue, ClaimRaises, OneProcess

LEMMA OneIngest ==
    ASSUME NEW p, OneProcess(p), OneInv(p), QueueInv', Ingest(p)
    PROVE  OneInv(p)'
<1>1. ASSUME NEW s \in {"succeeded", "failed"}, NEW stage, FinishIngest(p, s, stage)
      PROVE  OneInv(p)'
  <2>1. cur[p] \in DOMAIN jobs
    BY <1>1, IngestedRowExists DEF FinishIngest, OneInv, QueueInv, OneProcess
  <2>2. /\ DOMAIN jobs' = DOMAIN jobs
        /\ \A k \in DOMAIN jobs : k # cur[p] => jobs'[k] = jobs[k]
        /\ jobs'[cur[p]].status # "running"
    BY <1>1, <2>1, UpdateRowRows DEF FinishIngest, Status, OneInv, QueueInv
  <2>3. \A k \in DOMAIN jobs' : jobs'[k].status # "running"
    BY <1>1, <2>2 DEF OneInv, FinishIngest, Ingesting
  <2>4. runner'[p] = "claiming" /\ app'[p] = "serving"
    BY <1>1 DEF FinishIngest, Ingesting, OneInv, QueueInv, TypeOK, OneProcess
  <2> QED
    BY <2>3, <2>4 DEF OneInv
<1> QED
  BY <1>1 DEF Ingest, IngestSucceeds, IngestFails, IngestRaises, OneProcess

LEMMA OneCrash ==
    ASSUME NEW p, OneProcess(p), OneInv(p), QueueInv', Crash(p)
    PROVE  OneInv(p)'
BY DEF Crash, OneInv, QueueInv, TypeOK, OneProcess

LEMMA OneInvNext ==
    ASSUME NEW p, OneProcess(p), OneInv(p), [Next]_vars
    PROVE  OneInv(p)'
<1>1. QueueInv'
  BY QueueInvNext DEF OneInv
<1>2. CASE UNCHANGED vars
  BY <1>1, <1>2 DEF vars, OneInv, Pending, Running
<1>3. CASE Next
  <2>1. Start(p) \/ Scan(p) \/ Request(p) \/ RunQueue(p) \/ Ingest(p) \/ Crash(p)
    BY <1>3 DEF Next, OneProcess
  <2> QED
    BY <1>1, <2>1, OneStart, OneScan, OneRequest, OneRunQueue, OneIngest, OneCrash
<1> QED
  BY <1>2, <1>3

LEMMA OneInvInit ==
    ASSUME NEW p, OneProcess(p), Init
    PROVE  OneInv(p)
<1>1. QueueInv
  BY QueueInvInit
<1> QED
  BY <1>1 DEF Init, OneInv, OneProcess

-----------------------------------------------------------------------------
(* What recovery and a claim write when there is no other process *)

LEMMA RecoversRunning ==
    ASSUME NEW p, OneProcess(p), OneInv(p), Recovers
    PROVE  jobs' = RecoveredIn(Running)
BY DEF Recovers, OneInv, OneProcess

LEMMA RecoversLeavesRest ==
    ASSUME NEW p, OneProcess(p), OneInv(p), Recovers
    PROVE  \A j \in DOMAIN jobs : jobs[j].status # "running" => jobs'[j] = jobs[j]
<1>1. jobs' = RecoveredIn(Running)
  BY RecoversRunning
<1> QED
  BY <1>1, RecoverRows DEF OneInv, QueueInv, Running, WithStatus

LEMMA ClaimsOldest ==
    ASSUME NEW p, OneProcess(p), Claims
    PROVE  /\ BetweenJobs(p)
           /\ \E j \in Pending : (\A k \in Pending : j <= k) /\ jobs' = MarkRunning(j)
BY DEF Claims, Claimable, OneProcess

-----------------------------------------------------------------------------
(* The theorems *)

\* The inductive invariant of a service of one process.
THEOREM OneInvariant ==
    ASSUME NEW p, OneProcess(p)
    PROVE  Spec => []OneInv(p)
<1>1. Init => OneInv(p)
  BY OneInvInit
<1>2. OneInv(p) /\ [Next]_vars => OneInv(p)'
  BY OneInvNext
<1> QED
  BY <1>1, <1>2, PTL DEF Spec

\* With one process a row is running exactly while it is being ingested.
THEOREM RunningRowIsOwned ==
    ASSUME NEW p, OneProcess(p)
    PROVE  Spec => []RunningIsOwned
<1>1. OneInv(p) => RunningIsOwned
  BY OneInvIsPromised DEF OneProcess
<1> QED
  BY <1>1, OneInvariant, PTL

\* With one process no pending row is left with a runner that has returned.
THEOREM WakeupIsNotLost ==
    ASSUME NEW p, OneProcess(p)
    PROVE  Spec => []NoLostWakeup
<1>1. OneInv(p) => NoLostWakeup
  BY OneInvIsPromised DEF OneProcess
<1> QED
  BY <1>1, OneInvariant, PTL

\* With one process the outcome of a job is written once.
THEOREM OutcomeIsFinal ==
    ASSUME NEW p, OneProcess(p)
    PROVE  Spec => TerminalIsFinal
<1>1. ASSUME OneInv(p), [Next]_vars, NEW j \in DOMAIN jobs, jobs[j].status \notin ActiveStatus
      PROVE  jobs'[j] = jobs[j]
  <2>1. jobs[j].status # "running" /\ jobs[j].status # "pending"
    BY <1>1 DEF ActiveStatus
  <2>2. CASE Inserts
    BY <2>2, <1>1, InsertPendingRows DEF Inserts, OneInv, QueueInv
  <2>3. CASE Recovers
    BY <2>1, <2>3, <1>1, RecoversLeavesRest
  <2>4. CASE Claims
    <3>1. PICK c \in Pending : jobs' = MarkRunning(c)
      BY <2>4, ClaimsOldest
    <3> QED
      BY <1>1, <2>1, <3>1, UpdateRowRows
         DEF OneInv, QueueInv, Pending, WithStatus, MarkRunning, Status, Stage
  <2>5. ASSUME NEW i \in Instance, NEW s \in {"succeeded", "failed"}, NEW e \in Stage,
               Ingesting(i), jobs' = UpdateRow(cur[i], s, e)
        PROVE  jobs'[j] = jobs[j]
    <3>1. cur[i] \in DOMAIN jobs
      BY <1>1, <2>5, IngestedRowExists DEF OneInv, QueueInv
    <3>2. jobs[cur[i]].status = "running"
      BY <1>1, <2>5, <3>1 DEF OneInv, OneProcess, Ingesting
    <3> QED
      BY <1>1, <2>1, <2>5, <3>1, <3>2, UpdateRowRows DEF OneInv, QueueInv, Status
  <2> QED
    BY <1>1, <2>2, <2>3, <2>4, <2>5, RowsNext DEF OneInv, QueueInv, Settles
<1>2. OneInv(p) /\ [Next]_vars =>
        [\A j \in DOMAIN jobs : jobs[j].status \notin ActiveStatus => jobs'[j] = jobs[j]]_vars
  BY <1>1
<1> QED
  BY <1>2, OneInvariant, PTL DEF Spec, TerminalIsFinal

\* With one process the queue is first-in first-out: the only rows that leave
\* it are claimed, and a claim takes the oldest.
THEOREM FirstInFirstOut ==
    ASSUME NEW p, OneProcess(p)
    PROVE  Spec => ServedInOrder
<1>1. ASSUME OneInv(p), [Next]_vars, NEW j \in DOMAIN jobs, NEW k \in DOMAIN jobs,
             jobs[j].status = "pending", jobs'[j].status # "pending", k < j
      PROVE  jobs'[k].status # "pending"
  <2>1. UNCHANGED jobs \/ Inserts \/ Recovers \/ Settles => jobs'[j] = jobs[j]
    BY <1>1, InsertPendingRows, RecoversLeavesRest, IngestedRowExists, UpdateRowRows
       DEF OneInv, QueueInv, Inserts, Settles, Status
  <2>2. Claims
    BY <1>1, <2>1, RowsNext DEF OneInv, QueueInv
  <2>3. PICK c \in Pending : (\A n \in Pending : c <= n) /\ jobs' = MarkRunning(c)
    BY <2>2, ClaimsOldest
  <2>4. \A n \in DOMAIN jobs : n # c => jobs'[n] = jobs[n]
    BY <1>1, <2>3, UpdateRowRows DEF MarkRunning, OneInv, QueueInv, Pending, WithStatus, Status, Stage
  <2>5. c = j
    BY <1>1, <2>4
  <2>6. k \notin Pending
    <3>1. \A n \in Pending : j <= n
      BY <2>3, <2>5
    <3>2. j \in Nat /\ k \in Nat
      BY <1>1 DEF OneInv, QueueInv, TypeOK
    <3> QED
      BY <1>1, <3>1, <3>2
  <2>7. jobs'[k] = jobs[k]
    <3>1. j \in Nat /\ k \in Nat
      BY <1>1 DEF OneInv, QueueInv, TypeOK
    <3>2. k # c
      BY <1>1, <2>5, <3>1
    <3> QED
      BY <2>4, <3>2
  <2> QED
    BY <2>6, <2>7 DEF Pending, WithStatus
<1>2. OneInv(p) /\ [Next]_vars =>
        [\A j, k \in DOMAIN jobs :
            (jobs[j].status = "pending" /\ jobs'[j].status # "pending" /\ k < j)
                => jobs'[k].status # "pending"]_vars
  BY <1>1
<1> QED
  BY <1>2, OneInvariant, PTL DEF Spec, ServedInOrder

-----------------------------------------------------------------------------
(* A service of one process implements WorkQueue *)

Tickets == {<<j, jobs[j].folder>> : j \in Pending}
Busy == {jobs[j].folder : j \in Running}

\* A rewrite of the rows that keeps their folders and the pending rows.
LEMMA TicketsKept ==
    ASSUME DOMAIN jobs' = DOMAIN jobs,
           \A j \in DOMAIN jobs : jobs'[j].folder = jobs[j].folder,
           \A j \in DOMAIN jobs : jobs[j].status = "pending" <=> jobs'[j].status = "pending"
    PROVE  Tickets' = Tickets
<1>1. Pending' = Pending
  BY DEF Pending, WithStatus
<1> QED
  BY <1>1 DEF Tickets, Pending, WithStatus

LEMMA InsertSubmits ==
    ASSUME TypeOK, NEW f \in Folder, InsertPending(f)
    PROVE  Queue!Submit(f)
<1>1. /\ Len(jobs') = Len(jobs) + 1
      /\ DOMAIN jobs' = DOMAIN jobs \cup {Len(jobs) + 1}
      /\ Len(jobs) + 1 \notin DOMAIN jobs
      /\ \A j \in DOMAIN jobs : jobs'[j] = jobs[j]
      /\ \A j \in WithStatus(jobs, ActiveStatus) : jobs[j].folder # f
  BY InsertPendingRows
<1>2. jobs'[Len(jobs) + 1].folder = f /\ jobs'[Len(jobs) + 1].status = "pending"
  <2>1. jobs'[Len(jobs) + 1] = NewJob(f)
    BY InsertPendingRows
  <2> QED
    BY <2>1 DEF NewJob
<1>3. Pending' = Pending \cup {Len(jobs) + 1} /\ Running' = Running
  BY <1>1, <1>2 DEF Pending, Running, WithStatus
<1>4. Pending \subseteq DOMAIN jobs /\ Running \subseteq DOMAIN jobs
  BY DEF Pending, Running, WithStatus
<1>5. Tickets' = Tickets \cup {<<Len(jobs) + 1, f>>}
  BY <1>1, <1>2, <1>3, <1>4 DEF Tickets
<1>6. Busy' = Busy
  BY <1>1, <1>3, <1>4 DEF Busy
<1>7. f \notin Busy /\ \A w \in Tickets : w[2] # f
  BY <1>1 DEF Busy, Tickets, Pending, Running, WithStatus, ActiveStatus
<1> QED
  BY <1>1, <1>5, <1>6, <1>7 DEF Queue!Submit, Tickets, Busy

LEMMA ClaimTakes ==
    ASSUME NEW p, OneProcess(p), OneInv(p), Claims
    PROVE  Queue!Take
<1>1. PICK j \in DOMAIN jobs :
        BetweenJobs(p) /\ j \in Pending /\ (\A k \in Pending : j <= k) /\ jobs' = MarkRunning(j)
  BY ClaimsOldest DEF Pending, WithStatus
<1>2. /\ Len(jobs') = Len(jobs)
      /\ DOMAIN jobs' = DOMAIN jobs
      /\ \A k \in DOMAIN jobs : k # j => jobs'[k] = jobs[k]
      /\ jobs'[j].folder = jobs[j].folder
      /\ jobs'[j].status = "running"
  BY <1>1, UpdateRowRows DEF MarkRunning, Status, Stage, OneInv, QueueInv
<1>3. Running = {}
  BY <1>1 DEF OneInv, BetweenJobs, Running, WithStatus
<1>4. j \in Pending /\ \A k \in Pending : j <= k
  BY <1>1
<1>5. Pending' = Pending \ {j} /\ Running' = {j}
  BY <1>2, <1>3, <1>4 DEF Pending, Running, WithStatus
<1>6. Pending \subseteq DOMAIN jobs
  BY DEF Pending, WithStatus
<1> DEFINE w == <<j, jobs[j].folder>>
<1>7. w \in Tickets /\ \A v \in Tickets : w[1] <= v[1]
  BY <1>4 DEF Tickets
<1>8. Tickets' = Tickets \ {w}
  BY <1>2, <1>5, <1>6 DEF Tickets
<1>9. Busy = {} /\ Busy' = {w[2]}
  BY <1>2, <1>3, <1>5 DEF Busy
<1>10. \E t \in Tickets : Busy = {} /\ (\A v \in Tickets : t[1] <= v[1])
                          /\ Tickets' = Tickets \ {t} /\ Busy' = {t[2]}
  BY <1>7, <1>8, <1>9
<1> QED
  BY <1>2, <1>10 DEF Queue!Take, Tickets, Busy

\* Recovery and the end of an ingest leave nothing running: each releases the
\* folder that was busy, if there was one.
LEMMA NothingRunningReleases ==
    ASSUME Len(jobs') = Len(jobs), DOMAIN jobs' = DOMAIN jobs,
           \A j \in DOMAIN jobs : jobs'[j].folder = jobs[j].folder,
           \A j \in DOMAIN jobs : jobs[j].status = "pending" <=> jobs'[j].status = "pending",
           \A j \in DOMAIN jobs : jobs'[j].status # "running"
    PROVE  Queue!Release \/ UNCHANGED Queue!wqVars
<1>1. Tickets' = Tickets
  BY TicketsKept
<1>2. Busy' = {}
  BY DEF Busy, Running, WithStatus
<1>3. CASE Busy = {}
  BY <1>1, <1>2, <1>3 DEF Queue!wqVars, Tickets, Busy
<1>4. CASE Busy # {}
  BY <1>1, <1>2, <1>4 DEF Queue!Release, Tickets, Busy
<1> QED
  BY <1>3, <1>4

LEMMA StepRefines ==
    ASSUME NEW p, OneProcess(p), OneInv(p), [Next]_vars
    PROVE  [Queue!WQNext]_(Queue!wqVars)
<1>1. CASE UNCHANGED jobs
  BY <1>1 DEF Queue!wqVars, Pending, Running
<1>2. CASE Inserts
  BY <1>2, InsertSubmits DEF Inserts, Queue!WQNext, OneInv, QueueInv
<1>3. CASE Recovers
  <2>1. jobs' = RecoveredIn(Running)
    BY <1>3, RecoversRunning
  <2> QED
    BY <2>1, RecoverRows, NothingRunningReleases
       DEF Queue!WQNext, OneInv, QueueInv, Running, WithStatus
<1>4. CASE Claims
  BY <1>4, ClaimTakes DEF Queue!WQNext
<1>5. CASE Settles
  <2>1. PICK s \in {"succeeded", "failed"}, e \in Stage : Ingesting(p) /\ jobs' = UpdateRow(cur[p], s, e)
    BY <1>5 DEF Settles, OneProcess
  <2>2. cur[p] \in DOMAIN jobs /\ jobs[cur[p]].status # "pending"
    BY <2>1, IngestedRowExists DEF OneInv, QueueInv, OneProcess
  <2>3. /\ Len(jobs') = Len(jobs)
        /\ DOMAIN jobs' = DOMAIN jobs
        /\ \A k \in DOMAIN jobs : k # cur[p] => jobs'[k] = jobs[k]
        /\ jobs'[cur[p]].folder = jobs[cur[p]].folder
        /\ jobs'[cur[p]].status = s
    BY <2>1, <2>2, UpdateRowRows DEF OneInv, QueueInv, Status
  <2>4. \A j \in DOMAIN jobs : jobs'[j].status # "running"
    BY <2>1, <2>3 DEF OneInv, Ingesting
  <2> QED
    BY <2>2, <2>3, <2>4, NothingRunningReleases DEF Queue!WQNext
<1> QED
  BY <1>1, <1>2, <1>3, <1>4, <1>5, RowsNext DEF OneInv, QueueInv

LEMMA InitRefines == Init => Queue!WQInit
<1> SUFFICES ASSUME Init PROVE Queue!WQInit
  OBVIOUS
<1>1. jobs = <<>> /\ DOMAIN jobs = {} /\ Len(jobs) = 0
  BY DEF Init
<1> QED
  BY <1>1 DEF Queue!WQInit, Pending, Running, WithStatus

\* A service of one process is a durable first-in first-out work queue: folders
\* are queued once, served in order, one at a time, and given up after a crash.
THEOREM ServiceIsWorkQueue ==
    ASSUME NEW p, OneProcess(p)
    PROVE  Spec => ImplementsWorkQueue
<1>1. Init => Queue!WQInit
  BY InitRefines
<1>2. OneInv(p) /\ [Next]_vars => [Queue!WQNext]_(Queue!wqVars)
  BY StepRefines
<1> QED
  BY <1>1, <1>2, OneInvariant, PTL DEF Spec, ImplementsWorkQueue, Queue!WQSpec

=============================================================================
