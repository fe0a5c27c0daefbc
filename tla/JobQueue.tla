------------------------------ MODULE JobQueue ------------------------------
(***************************************************************************)
(* The durable job queue of the metadata service: the rows of              *)
(* metadata.metadata_jobs (Postgres), and the ScanCoordinator of           *)
(* app/jobs/runner.py in each process of the service, which inserts        *)
(* pending rows on behalf of scans and requests and runs them with one     *)
(* background task.                                                        *)
(*                                                                         *)
(* Each process is one asyncio event loop, and the coordinator only calls  *)
(* the database synchronously: a handler runs from its first line to its   *)
(* last without another handler or the runner in between.  What does       *)
(* interleave is (1) any step of one process with any step of another,     *)
(* (2) handlers with the runner while its ingest awaits the provider, and  *)
(* (3) a crash, between any two commits.  An action below is one transaction *)
(* with the in-memory assignments that follow it; where what a transaction *)
(* has read can be out of date when it writes, the action allows for it.   *)
(*                                                                         *)
(* The identifier of a row is its position in "jobs", which is its place   *)
(* in the order (created_at, id) the queue is served in.                   *)
(***************************************************************************)
EXTENDS Naturals, Sequences, FiniteSets

CONSTANTS
    Instance,        \* the processes of the service that share the database
    Folder,          \* the lock keys: resolved top-level media folders
    MaxJobs,         \* bound: rows ever inserted in metadata_jobs
    ScanOnStartup,   \* config.startup.scan_on_startup
    DatabaseFaults,  \* whether a database call of the coordinator may raise
    EscapingIngest   \* whether an exception may escape MetadataIngester.ingest

ASSUME MaxJobsAssumption == MaxJobs \in Nat
ASSUME ConfigAssumption ==
    /\ ScanOnStartup \in BOOLEAN
    /\ DatabaseFaults \in BOOLEAN
    /\ EscapingIngest \in BOOLEAN

VARIABLES
    jobs,    \* the rows of metadata_jobs, oldest first
    app,     \* app[i]: how far process i is in its life
    stale,   \* stale[i]: rows the recovery of process i has read as running
    todo,    \* todo[i]: candidates the scan of process i has still to insert
    runner,  \* runner[i]: state of ScanCoordinator._runner_task of process i
    cur      \* cur[i]: row the runner of process i is ingesting, or NoJob

vars == <<jobs, app, stale, todo, runner, cur>>

NoJob == 0

Status == {"pending", "running", "succeeded", "failed"}
ActiveStatus == {"pending", "running"}
Stage == {"none", "ingest", "startup_recovery"}
Job == [folder : Folder, status : Status, error_stage : Stage]

AppState == {"down", "recovering", "recovered", "startup_scan", "serving", "scanning"}

\* "none": no task was created; "scheduled": create_task was called and the
\* task has not run yet; "claiming": between two jobs, holding the event loop;
\* "ingesting": suspended in the ingest of cur; the rest: the task is done().
RunnerState == {"none", "scheduled", "claiming", "ingesting", "returned", "raised"}
NotRunning == {"none", "returned", "raised"}

TypeOK ==
    /\ jobs \in Seq(Job)
    /\ app \in [Instance -> AppState]
    /\ stale \in [Instance -> SUBSET Nat]
    /\ todo \in [Instance -> SUBSET Folder]
    /\ runner \in [Instance -> RunnerState]
    /\ cur \in [Instance -> Nat]

-----------------------------------------------------------------------------
(* Queries and statements on metadata_jobs *)

WithStatus(rows, S) == {j \in DOMAIN rows : rows[j].status \in S}

Pending == WithStatus(jobs, {"pending"})
Running == WithStatus(jobs, {"running"})

\* The rows the partial unique index on lock_key covers, for folder f.
ActiveJobs(f) == {j \in WithStatus(jobs, ActiveStatus) : jobs[j].folder = f}

NewJob(f) == [folder |-> f, status |-> "pending", error_stage |-> "none"]

\* Mutant of InsertPending: the select of the active row leaves out running ones.
InsertUnlessPending(f) ==
    /\ Len(jobs) < MaxJobs
    /\ \A j \in Pending : jobs[j].folder # f
    /\ jobs' = Append(jobs, NewJob(f))

\* Insert a pending row, unless the select finds an active row of the folder
\* or the unique index rejects the insert: both ways nothing is inserted.
InsertPending(f) ==
    /\ Len(jobs) < MaxJobs
    /\ ActiveJobs(f) = {}
    /\ jobs' = Append(jobs, NewJob(f))

\* The rows after an update of the status and the stage of row j.
Marked(job, s, e) == [folder |-> job.folder, status |-> s, error_stage |-> e]
UpdateRow(j, s, e) == [jobs EXCEPT ![j] = Marked(jobs[j], s, e)]
MarkRunning(j) == UpdateRow(j, "running", "none")

-----------------------------------------------------------------------------
(* The runner task and the event loop *)

\* Mutant of EnsureRunnerStarted: a task that is done counts as a runner.
EnsureRunnerOnce(i, rows) ==
    IF runner[i] = "none" /\ WithStatus(rows, {"pending"}) # {}
    THEN "scheduled"
    ELSE runner[i]

\* The value of _runner_task after ensure_runner_started saw the given rows.
EnsureRunnerStarted(i, rows) ==
    IF runner[i] \in NotRunning /\ WithStatus(rows, {"pending"}) # {}
    THEN "scheduled"
    ELSE runner[i]

\* A request handler of process i can run: start-up is over, no scan holds
\* the event loop, and the runner is not between two jobs.
LoopFree(i) == app[i] = "serving" /\ runner[i] # "claiming"

-----------------------------------------------------------------------------
Init ==
    /\ jobs = <<>>
    /\ app = [i \in Instance |-> "down"]
    /\ stale = [i \in Instance |-> {}]
    /\ todo = [i \in Instance |-> {}]
    /\ runner = [i \in Instance |-> "none"]
    /\ cur = [i \in Instance |-> NoJob]

(* Process start: the lifespan handler *)

\* Mutants of Recovered: a status no other code knows, and a row that is put
\* back in the queue.
RecoveredAsStale(job) == Marked(job, "stale", "startup_recovery")
RecoveredToPending(job) == Marked(job, "pending", "none")

Recovered(job) == Marked(job, "failed", "startup_recovery")

\* Mutant of SelectStaleRunningJobs: failed rows are selected as well.
SelectUnsuccessfulJobs(i) ==
    /\ app[i] = "down"
    /\ app' = [app EXCEPT ![i] = "recovering"]
    /\ stale' = [stale EXCEPT ![i] = WithStatus(jobs, {"running", "failed"})]
    /\ UNCHANGED <<jobs, todo, runner, cur>>

\* Every running row is selected, whoever is running it.
SelectStaleRunningJobs(i) ==
    /\ app[i] = "down"
    /\ app' = [app EXCEPT ![i] = "recovering"]
    /\ stale' = [stale EXCEPT ![i] = Running]
    /\ UNCHANGED <<jobs, todo, runner, cur>>

\* Mutant of FailStaleRunningJobs: the update is not committed.
ForgetStaleRunningJobs(i) ==
    /\ app[i] = "recovering"
    /\ app' = [app EXCEPT ![i] = "recovered"]
    /\ stale' = [stale EXCEPT ![i] = {}]
    /\ UNCHANGED <<jobs, todo, runner, cur>>

\* The selected rows are written as failed, whatever they have become since.
FailStaleRunningJobs(i) ==
    /\ app[i] = "recovering"
    /\ app' = [app EXCEPT ![i] = "recovered"]
    /\ jobs' = [j \in DOMAIN jobs |-> IF j \in stale[i] THEN Recovered(jobs[j]) ELSE jobs[j]]
    /\ stale' = [stale EXCEPT ![i] = {}]
    /\ UNCHANGED <<todo, runner, cur>>

StartWithoutScan(i) ==
    /\ ~ScanOnStartup
    /\ app[i] = "recovered"
    /\ app' = [app EXCEPT ![i] = "serving"]
    /\ UNCHANGED <<jobs, stale, todo, runner, cur>>

(* trigger_scan: POST /scans, or the start-up scan *)

\* scan_all returned the candidates C.
ScanBegin(i, C) ==
    /\ Len(jobs) + Cardinality(C) <= MaxJobs
    /\ \/ /\ ScanOnStartup
          /\ app[i] = "recovered"
          /\ app' = [app EXCEPT ![i] = "startup_scan"]
       \/ /\ LoopFree(i)
          /\ app' = [app EXCEPT ![i] = "scanning"]
    /\ todo' = [todo EXCEPT ![i] = C]
    /\ UNCHANGED <<jobs, stale, runner, cur>>

ScanCreate(i, f) ==
    /\ app[i] \in {"startup_scan", "scanning"}
    /\ f \in todo[i]
    /\ todo' = [todo EXCEPT ![i] = @ \ {f}]
    /\ InsertPending(f) \/ (ActiveJobs(f) # {} /\ UNCHANGED jobs)
    /\ UNCHANGED <<app, stale, runner, cur>>

\* Mutant of ScanEnd: the scan does not start the runner.
ScanEndSilently(i) ==
    /\ app[i] \in {"startup_scan", "scanning"}
    /\ todo[i] = {}
    /\ app' = [app EXCEPT ![i] = "serving"]
    /\ UNCHANGED <<jobs, stale, todo, runner, cur>>

ScanEnd(i) ==
    /\ app[i] \in {"startup_scan", "scanning"}
    /\ todo[i] = {}
    /\ app' = [app EXCEPT ![i] = "serving"]
    /\ runner' = [runner EXCEPT ![i] = EnsureRunnerStarted(i, jobs)]
    /\ UNCHANGED <<jobs, stale, todo, cur>>

\* A database error leaves trigger_scan with some rows inserted and the runner
\* not started; during start-up it also ends the process.
ScanRaises(i) ==
    /\ DatabaseFaults
    /\ \/ app[i] = "startup_scan" /\ app' = [app EXCEPT ![i] = "down"]
       \/ app[i] = "scanning" /\ app' = [app EXCEPT ![i] = "serving"]
    /\ todo' = [todo EXCEPT ![i] = {}]
    /\ UNCHANGED <<jobs, stale, runner, cur>>

(* Requests for one folder or one job.  A request that finds an active row *)
(* of the folder returns that row and changes nothing, the runner included. *)

EnqueuePathJob(i, f) ==
    /\ LoopFree(i)
    /\ InsertPending(f)
    /\ runner' = [runner EXCEPT ![i] = EnsureRunnerStarted(i, jobs')]
    /\ UNCHANGED <<app, stale, todo, cur>>

RetryJob(i, j) ==
    /\ LoopFree(i)
    /\ jobs[j].status = "failed"
    /\ InsertPending(jobs[j].folder)
    /\ runner' = [runner EXCEPT ![i] = EnsureRunnerStarted(i, jobs')]
    /\ UNCHANGED <<app, stale, todo, cur>>

\* The row is committed and the count that ensure_runner_started asks for raises.
\* (A count that finds the row claimed by another process has the same effect.)
RequestRaises(i, f) ==
    /\ DatabaseFaults
    /\ LoopFree(i)
    /\ InsertPending(f)
    /\ UNCHANGED <<app, stale, todo, runner, cur>>

(* _run_queue *)

BetweenJobs(i) == app[i] = "serving" /\ runner[i] \in {"scheduled", "claiming"}

\* Mutant of Claimable: the order of the select is descending.
ClaimableNewest(i, j) == j \in Pending /\ \A k \in Pending : k <= j

\* FOR UPDATE SKIP LOCKED: the oldest pending row, passing over the rows that
\* the claims of other processes hold locked at that moment, one each.
Claimable(i, j) ==
    /\ j \in Pending
    /\ \E held \in [Instance \ {i} -> DOMAIN jobs] :
          \A k \in Pending : j <= k \/ \E o \in Instance \ {i} : BetweenJobs(o) /\ held[o] = k

ClaimNextPendingJob(i, j) ==
    /\ BetweenJobs(i)
    /\ Claimable(i, j)
    /\ jobs' = MarkRunning(j)
    /\ cur' = [cur EXCEPT ![i] = j]
    /\ runner' = [runner EXCEPT ![i] = "ingesting"]
    /\ UNCHANGED <<app, stale, todo>>

\* Mutant of RunnerReturns: the loop may end after any job.
RunnerReturnsEarly(i) ==
    /\ BetweenJobs(i)
    /\ runner' = [runner EXCEPT ![i] = "returned"]
    /\ UNCHANGED <<jobs, app, stale, todo, cur>>

RunnerReturns(i) ==
    /\ BetweenJobs(i)
    /\ Pending = {}
    /\ runner' = [runner EXCEPT ![i] = "returned"]
    /\ UNCHANGED <<jobs, app, stale, todo, cur>>

\* The select or the commit raises, or the refresh after the commit does: the
\* task ends, and in the second case its row stays running with no runner.
ClaimRaises(i) ==
    /\ DatabaseFaults
    /\ BetweenJobs(i)
    /\ UNCHANGED jobs \/ \E j \in Pending : Claimable(i, j) /\ jobs' = MarkRunning(j)
    /\ runner' = [runner EXCEPT ![i] = "raised"]
    /\ UNCHANGED <<app, stale, todo, cur>>

Ingesting(i) == app[i] = "serving" /\ runner[i] = "ingesting"

\* The last statement of ingest, _update_job_status: it overwrites whatever
\* status the row has by then, and leaves the stage alone when it is to be none
\* and was none when the row was read.  The loop goes on to the next claim.
FinishIngest(i, status, stage) ==
    /\ Ingesting(i)
    /\ \E e \in Stage :
          /\ e = stage \/ (stage = "none" /\ e = jobs[cur[i]].error_stage)
          /\ jobs' = UpdateRow(cur[i], status, e)
    /\ cur' = [cur EXCEPT ![i] = NoJob]
    /\ runner' = [runner EXCEPT ![i] = "claiming"]
    /\ UNCHANGED <<app, stale, todo>>

IngestSucceeds(i) == FinishIngest(i, "succeeded", "none")

\* Mutant of IngestFails: a failed job goes back to the queue.
IngestRequeues(i) == \E stage \in {"ingest", "none"} : FinishIngest(i, "pending", stage)

\* error_stage is written only when the exception has a message.
IngestFails(i) == \E stage \in {"ingest", "none"} : FinishIngest(i, "failed", stage)

\* The except block of ingest raises itself (the folder is gone, the media
\* share is read-only, the database is down): nobody awaits the task.
IngestRaises(i) ==
    /\ EscapingIngest
    /\ Ingesting(i)
    /\ runner' = [runner EXCEPT ![i] = "raised"]
    /\ cur' = [cur EXCEPT ![i] = NoJob]
    /\ UNCHANGED <<jobs, app, stale, todo>>

(* A crash, a kill, or a shutdown that cancels the runner inside ingest *)
Crash(i) ==
    /\ app[i] # "down"
    /\ app' = [app EXCEPT ![i] = "down"]
    /\ stale' = [stale EXCEPT ![i] = {}]
    /\ todo' = [todo EXCEPT ![i] = {}]
    /\ runner' = [runner EXCEPT ![i] = "none"]
    /\ cur' = [cur EXCEPT ![i] = NoJob]
    /\ UNCHANGED jobs

-----------------------------------------------------------------------------
Start(i) == SelectStaleRunningJobs(i) \/ FailStaleRunningJobs(i) \/ StartWithoutScan(i)

Scan(i) ==
    \/ \E C \in SUBSET Folder : ScanBegin(i, C)
    \/ \E f \in Folder : ScanCreate(i, f)
    \/ ScanEnd(i)
    \/ ScanRaises(i)

Request(i) ==
    \/ \E f \in Folder : EnqueuePathJob(i, f) \/ RequestRaises(i, f)
    \/ \E j \in DOMAIN jobs : RetryJob(i, j)

RunQueue(i) ==
    \/ \E j \in DOMAIN jobs : ClaimNextPendingJob(i, j)
    \/ RunnerReturns(i)
    \/ ClaimRaises(i)

Ingest(i) == IngestSucceeds(i) \/ IngestFails(i) \/ IngestRaises(i)

Next == \E i \in Instance : Start(i) \/ Scan(i) \/ Request(i) \/ RunQueue(i) \/ Ingest(i) \/ Crash(i)

Spec == Init /\ [][Next]_vars

(***************************************************************************)
(* Fairness.  The handler that has begun runs to its end; the ready queue  *)
(* of the event loop is first-in first-out, so a runner that is ready, or  *)
(* whose await has completed, runs between two handlers however many       *)
(* handlers arrive (strong fairness: each handler disables the runner for  *)
(* a while); every await of an ingest is an httpx call with a timeout, so  *)
(* an ingest ends one way or another; the orchestrator restarts a process  *)
(* that is down, and start-up runs to its end.  No request is assumed to   *)
(* arrive and no scan to be asked for.                                     *)
(***************************************************************************)
Fairness ==
    \A i \in Instance :
        /\ WF_vars(Start(i))
        /\ WF_vars(app[i] = "recovered" /\ Scan(i))
        /\ WF_vars(\E f \in Folder : ScanCreate(i, f))
        /\ WF_vars(ScanEnd(i))
        /\ SF_vars(RunQueue(i))
        /\ SF_vars(Ingest(i))

FairSpec == Spec /\ Fairness

-----------------------------------------------------------------------------
(* Properties of any number of processes *)

\* At most one pending or running row per folder, at all times.  The insert of
\* one process races the inserts, recoveries and late status writes of others.
OneActivePerFolder ==
    \A j, k \in WithStatus(jobs, ActiveStatus) : jobs[j].folder = jobs[k].folder => j = k

\* No row is ingested by two runners, and none that a runner ingests is (back)
\* in the queue for another to claim, whatever the recoveries and restarts of
\* the other processes do to its status meanwhile.
RowIngestedOnce ==
    /\ \A i, k \in Instance : cur[i] = cur[k] /\ cur[i] # NoJob => i = k
    /\ \A i \in Instance : cur[i] # NoJob => cur[i] \in DOMAIN jobs \ Pending

\* A row that is finished is never put back in the queue: neither recovery nor
\* a late status write makes it pending or running again, and no row is lost.
NoResurrection ==
    [][\A j \in DOMAIN jobs :
          /\ j \in DOMAIN jobs'
          /\ jobs[j].status \notin ActiveStatus => jobs'[j].status \notin ActiveStatus
          /\ jobs[j].status = "running" => jobs'[j].status # "pending"]_vars

-----------------------------------------------------------------------------
(* Properties of a service with one process *)

\* Once recovery is over, a row is running exactly while the runner ingests it,
\* so the running count of /scans/status is never more than one and no row is
\* left behind running.
RunningIsOwned ==
    \A i \in Instance : app[i] \notin {"down", "recovering"} =>
        Running = IF runner[i] = "ingesting" THEN {cur[i]} ELSE {}

\* A pending row is never left with a runner that drained the queue and
\* returned: whoever inserts while the runner is on its way out starts it anew.
NoLostWakeup ==
    \A i \in Instance : app[i] = "serving" /\ runner[i] = "returned" => Pending = {}

\* The outcome of a job is written once: what recovery or an ingest recorded
\* is not overwritten by a later write.
TerminalIsFinal ==
    [][\A j \in DOMAIN jobs : jobs[j].status \notin ActiveStatus => jobs'[j] = jobs[j]]_vars

\* Jobs start in the order of their insertion: when a row leaves the queue no
\* older row is waiting.  A retried folder goes to the back.
ServedInOrder ==
    [][\A j, k \in DOMAIN jobs :
          (jobs[j].status = "pending" /\ jobs'[j].status # "pending" /\ k < j)
              => jobs'[k].status # "pending"]_vars

\* Every row that is inserted is eventually finished, if the process stops
\* crashing.
EveryJobFinishes ==
    (\A i \in Instance : <>[](app[i] # "down")) =>
        \A j \in 1..MaxJobs :
            (j \in Pending) ~> (j \in DOMAIN jobs /\ jobs[j].status \notin ActiveStatus)

\* Once a runner is alive, every pending row leaves the queue unless the
\* process crashes or the task dies, even if no request ever comes again.
RunnerDrainsQueue ==
    \A i \in Instance, j \in 1..MaxJobs :
        (runner[i] \notin NotRunning /\ j \in Pending)
            ~> (j \notin Pending \/ runner[i] \in {"none", "raised"})

\* "Runs exactly one metadata job at a time": no two ingests overlap.
OneIngestAtATime ==
    \A i, k \in Instance : Ingesting(i) /\ Ingesting(k) => i = k

-----------------------------------------------------------------------------
(* What a service of one process implements *)

Queue == INSTANCE WorkQueue WITH
    issued <- Len(jobs),
    waiting <- {<<j, jobs[j].folder>> : j \in Pending},
    busy <- {jobs[j].folder : j \in Running}

\* A service of one process whose ingests never raise is a WorkQueue: requests
\* and scans submit, a claim takes, the end of an ingest and the recovery after a
\* crash release, and nothing else is visible of them.
ImplementsWorkQueue == Queue!WQSpec
=============================================================================
