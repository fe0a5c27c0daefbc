-------------------------- MODULE MetadataService --------------------------
(***************************************************************************)
(* The service as a whole: the job queue of JobQueue composed with the     *)
(* media folders, the markers in them, the catalog and the metadata        *)
(* issues.  LibraryScanner decides which folders a scan queues from what   *)
(* it finds in the folder and in Postgres; MetadataIngester.ingest changes *)
(* both, one commit or file operation at a time; the request handlers of   *)
(* app/api check the folder before they touch the queue.                   *)
(*                                                                         *)
(* ingest only gives up the event loop while it awaits the provider: from  *)
(* its last await to the next claim no handler of its process runs, but    *)
(* the process may crash between any two of its steps, and people move     *)
(* folders and close issues at any time.                                   *)
(***************************************************************************)
EXTENDS JobQueue

CONSTANTS
    TornWrites, \* whether the write of a marker may stop halfway
    Edits,      \* which of "folders", "issues", "catalog" change from outside
    LikeMatch   \* LikeMatch[f]: the folders whose paths match f's LIKE prefix

ASSUME TornWritesAssumption == TornWrites \in BOOLEAN

ASSUME EditsAssumption ==
    /\ Edits \subseteq {"folders", "issues", "catalog"}
    /\ "folders" \in Edits => EscapingIngest

ASSUME LikeMatchAssumption ==
    LikeMatch \in [Folder -> SUBSET Folder] /\ \A f \in Folder : f \in LikeMatch[f]

VARIABLES
    present,  \* present[f]: the media folder exists on disk
    success,  \* success[f]: the success marker (gf-meta-tag) of the folder
    failure,  \* failure[f]: the failure marker (gf-meta-failed) of the folder
    catalog,  \* catalog[f]: Postgres has the folder's media files and root entity
    open,     \* the open metadata issues: pairs <<folder, issue type>>
    phase,    \* phase[i]: how far the ingest of process i is
    cause     \* cause[i]: type of the issue its failure was recorded as

folderVars == <<present, success, failure, catalog, open>>
serviceVars == <<jobs, app, stale, todo, runner, cur, present, success, failure, catalog, open, phase, cause>>

\* "empty": created or truncated and not yet written, which read_marker_file
\* reads as {}; "torn": written in part, up to somewhere inside an entry, which
\* the YAML reader rejects; "full": with its job and entity identifiers.
SuccessMarker == {"absent", "empty", "torn", "full"}
Unwritten == {"empty", "torn"}

FailureIssue == {"ingestion_failed", "provider_match"}
IssueType == FailureIssue \cup {"success_marker_db_mismatch", "invalid_marker_state"}

\* A written failure marker refers to an issue: by its type while that issue is
\* open, "closed" once it is not.
FailureMarker == {"absent", "empty", "torn", "closed"} \cup FailureIssue

\* The statements of ingest, named by what comes next.
Phase == {"idle", "awaiting", "clear_failure", "open_success", "write_success", "succeed",
          "record_failure", "clear_success", "open_failure", "write_failure", "fail"}

ServiceTypeOK ==
    /\ present \in [Folder -> BOOLEAN]
    /\ success \in [Folder -> SuccessMarker]
    /\ failure \in [Folder -> FailureMarker]
    /\ catalog \in [Folder -> BOOLEAN]
    /\ open \subseteq Folder \X IssueType
    /\ phase \in [Instance -> Phase]
    /\ cause \in [Instance -> FailureIssue]

ServiceInit ==
    /\ Init
    /\ present \in [Folder -> BOOLEAN]
    /\ success = [f \in Folder |-> "absent"]
    /\ failure = [f \in Folder |-> "absent"]
    /\ catalog = [f \in Folder |-> FALSE]
    /\ open = {}
    /\ phase = [i \in Instance |-> "idle"]
    /\ cause = [i \in Instance |-> "ingestion_failed"]

\* No statement of an ingest holds the event loop of process i.
Suspended(i) == phase[i] \in {"idle", "awaiting"}

\* The locals of an ingest that ends, however it ends.
EndIngest(i) ==
    /\ phase' = [phase EXCEPT ![i] = "idle"]
    /\ cause' = [cause EXCEPT ![i] = "ingestion_failed"]

-----------------------------------------------------------------------------
(* LibraryScanner: which folders a scan queues *)

BothMarkers(f) == success[f] # "absent" /\ failure[f] # "absent"

\* The job row a full marker names is never deleted, the root entity may be.
SuccessMarkerIsCurrent(f) == success[f] = "full" /\ catalog[f]

\* A marker without an issue id falls back on any open issue of the folder.
HasOpenFailureIssue(f) ==
    \/ failure[f] \in FailureIssue
    \/ failure[f] = "empty" /\ \E t \in IssueType : <<f, t>> \in open

\* Mutant of PostgresKnowsFolder: the lookup of jobs loses its filter.
PostgresKnowsAnyFolder(f) ==
    \/ \E g \in LikeMatch[f] : catalog[g]
    \/ \E j \in DOMAIN jobs : TRUE

\* Media files are looked up with LIKE, in which _ and % of a folder name are
\* wildcards; jobs by equality, in any status.
PostgresKnowsFolder(f) ==
    \/ \E g \in LikeMatch[f] : catalog[g]
    \/ \E j \in DOMAIN jobs : jobs[j].folder = f

\* _scan_child with the flags retry_failed and reprocess: the folder is queued.
Queued(f, retry, reprocess) ==
    \/ BothMarkers(f) /\ (retry \/ reprocess)
    \/ /\ success[f] # "absent" /\ failure[f] = "absent"
       /\ reprocess \/ ~SuccessMarkerIsCurrent(f)
    \/ /\ success[f] = "absent" /\ failure[f] # "absent"
       /\ retry \/ ~HasOpenFailureIssue(f)
    \/ /\ success[f] = "absent" /\ failure[f] = "absent"
       /\ reprocess \/ ~PostgresKnowsFolder(f)

\* The issues _scan_child opens, or finds open, on the way.
ScanIssues(S, retry, reprocess) ==
    {<<f, "invalid_marker_state">> : f \in {g \in S : BothMarkers(g)}}
    \cup {<<f, "success_marker_db_mismatch">> :
            f \in {g \in S : /\ success[g] # "absent" /\ failure[g] = "absent"
                             /\ Queued(g, retry, reprocess)}}

\* The scan opens a torn marker of f: the success marker to check it or, in any
\* mode, for the issue it reports; the failure marker unless it retries failures.
ReadRaises(f, retry) ==
    \/ success[f] = "torn" /\ failure[f] = "absent"
    \/ failure[f] = "torn" /\ success[f] = "absent" /\ ~retry

\* scan_all over S: every folder of the libraries, or the one of the path given.
ScanAll(i, S, retry, reprocess) ==
    LET seen == {f \in S : present[f]}
    IN  /\ Suspended(i)
        /\ \A f \in seen : ~ReadRaises(f, retry)
        /\ ScanBegin(i, {f \in seen : Queued(f, retry, reprocess)})
        /\ open' = open \cup ScanIssues(seen, retry, reprocess)
        /\ UNCHANGED <<present, success, failure, catalog, phase, cause>>

\* One torn marker ends the scan of all libraries: the folders before it have
\* their issues and none is queued.  During start-up it also ends the process.
ScanAborts(i, S, retry, reprocess) ==
    LET seen == {f \in S : present[f]}
    IN  /\ Suspended(i)
        /\ \E f \in seen : ReadRaises(f, retry)
        /\ \/ app[i] = "recovered" /\ ScanOnStartup /\ Crash(i)
           \/ LoopFree(i) /\ UNCHANGED vars
        /\ \E before \in SUBSET {f \in seen : ~ReadRaises(f, retry)} :
              open' = open \cup ScanIssues(before, retry, reprocess)
        /\ UNCHANGED <<present, success, failure, catalog, phase, cause>>

ScanFolders(i, S, retry, reprocess) ==
    ScanAll(i, S, retry, reprocess) \/ ScanAborts(i, S, retry, reprocess)

StartupScan(i) == app[i] = "recovered" /\ ScanFolders(i, Folder, FALSE, FALSE)

RequestedScan(i) ==
    \E S \in {Folder} \cup {{f} : f \in Folder}, retry, reprocess \in BOOLEAN :
        app[i] = "serving" /\ ScanFolders(i, S, retry, reprocess)

\* The rest of trigger_scan touches the queue only.
ScanRest(i) ==
    /\ (\E f \in Folder : ScanCreate(i, f)) \/ ScanEnd(i) \/ ScanRaises(i)
    /\ UNCHANGED <<folderVars, phase, cause>>

-----------------------------------------------------------------------------
(* Request handlers *)

\* POST /metadata/index-path and retry-path; the refresh handlers do the same
\* for the folder of an entity, which the catalog then knows.
TriggerPath(i, f) ==
    /\ Suspended(i)
    /\ present[f]
    /\ EnqueuePathJob(i, f) \/ RequestRaises(i, f)
    /\ UNCHANGED <<folderVars, phase, cause>>

\* Mutant of RetryFailedJob: the row is inserted without the select for an
\* active one, and without the unique index.
RetryUnchecked(i, j) ==
    LET f == jobs[j].folder
    IN  /\ LoopFree(i) /\ Suspended(i)
        /\ jobs[j].status = "failed"
        /\ present[f] /\ ~BothMarkers(f)
        /\ failure' = [failure EXCEPT ![f] = "absent"]
        /\ Len(jobs) < MaxJobs
        /\ jobs' = Append(jobs, NewJob(f))
        /\ runner' = [runner EXCEPT ![i] = EnsureRunnerStarted(i, jobs')]
        /\ UNCHANGED <<app, stale, todo, cur, present, success, catalog, open, phase, cause>>

\* POST /jobs/{id}/retry removes the failure marker, then asks the coordinator,
\* which inserts a row or returns the active one of the folder.  A database error
\* leaves the marker removed, with a row (RequestRaises) or without one.
RetryFailedJob(i, j) ==
    LET f == jobs[j].folder
    IN  /\ LoopFree(i) /\ Suspended(i)
        /\ jobs[j].status = "failed"
        /\ present[f] /\ ~BothMarkers(f)
        /\ failure' = [failure EXCEPT ![f] = "absent"]
        /\ \/ RetryJob(i, j)
           \/ RequestRaises(i, f)
           \/ (ActiveJobs(f) # {} \/ DatabaseFaults) /\ UNCHANGED vars
        /\ UNCHANGED <<present, success, catalog, open, phase, cause>>

\* The same, with a crash after the marker is removed.
RetryInterrupted(i, j) ==
    LET f == jobs[j].folder
    IN  /\ LoopFree(i) /\ Suspended(i)
        /\ jobs[j].status = "failed"
        /\ present[f] /\ ~BothMarkers(f)
        /\ failure' = [failure EXCEPT ![f] = "absent"]
        /\ Crash(i)
        /\ EndIngest(i)
        /\ UNCHANGED <<present, success, catalog, open>>

-----------------------------------------------------------------------------
(* MetadataIngester.ingest *)

FolderOf(i) == jobs[cur[i]].folder

\* Step from phase "from" to phase "to" that leaves the queue alone.
Advance(i, from, to) ==
    /\ Ingesting(i)
    /\ phase[i] = from
    /\ phase' = [phase EXCEPT ![i] = to]
    /\ UNCHANGED vars

\* The same for a step that does not record why the ingest failed.
Proceed(i, from, to) == Advance(i, from, to) /\ UNCHANGED cause

\* ingest begins within the claim's step: no file in the folder ends it before
\* its first await.
ClaimAndBegin(i) ==
    /\ \E j \in DOMAIN jobs :
          /\ ClaimNextPendingJob(i, j)
          /\ \E p \in {"awaiting", "record_failure"} :
                /\ ~present[jobs[j].folder] => p = "record_failure"
                /\ phase' = [phase EXCEPT ![i] = p]
    /\ UNCHANGED <<folderVars, cause>>

\* Mutant of UpsertDatabase: the session is closed without its commit.
UpsertRolledBack(i) ==
    /\ Proceed(i, "awaiting", "clear_failure")
    /\ UNCHANGED folderVars

\* The provider answered, a candidate was selected and details and images have
\* arrived: _upsert_database commits.
UpsertDatabase(i) ==
    /\ Proceed(i, "awaiting", "clear_failure")
    /\ catalog' = [catalog EXCEPT ![FolderOf(i)] = TRUE]
    /\ UNCHANGED <<present, success, failure, open>>

\* Mutant of ClearFailureMarker: the old failure marker is left in place.
SkipClearFailure(i) ==
    /\ Proceed(i, "clear_failure", "open_success")
    /\ UNCHANGED folderVars

ClearFailureMarker(i) ==
    /\ Proceed(i, "clear_failure", "open_success")
    /\ failure' = [failure EXCEPT ![FolderOf(i)] = "absent"]
    /\ UNCHANGED <<present, success, catalog, open>>

\* write_text creates or truncates the file, then writes what it opened: a
\* folder that is moved away in between takes the file with it.
OpenSuccessMarker(i) ==
    /\ Proceed(i, "open_success", "write_success")
    /\ present[FolderOf(i)]
    /\ success' = [success EXCEPT ![FolderOf(i)] = "empty"]
    /\ UNCHANGED <<present, failure, catalog, open>>

\* A longer marker takes several writes; the crash, or the full disk, that keeps
\* the rest from being written comes as a step of its own.
TearSuccessMarker(i) ==
    /\ TornWrites
    /\ Proceed(i, "write_success", "write_success")
    /\ success[FolderOf(i)] = "empty"
    /\ success' = [success EXCEPT ![FolderOf(i)] = "torn"]
    /\ UNCHANGED <<present, failure, catalog, open>>

WriteSuccessMarker(i) ==
    /\ Proceed(i, "write_success", "succeed")
    /\ success' = [success EXCEPT ![FolderOf(i)] = IF @ \in Unwritten THEN "full" ELSE @]
    /\ UNCHANGED <<present, failure, catalog, open>>

Succeed(i) ==
    /\ phase[i] = "succeed"
    /\ IngestSucceeds(i)
    /\ EndIngest(i)
    /\ UNCHANGED folderVars

\* No candidate was selected: the issue is recorded where the match failed.
RecordMatchIssue(i) ==
    /\ Advance(i, "awaiting", "clear_success")
    /\ cause' = [cause EXCEPT ![i] = "provider_match"]
    /\ open' = open \cup {<<FolderOf(i), "provider_match">>}
    /\ UNCHANGED <<present, success, failure, catalog>>

\* Any other statement of the try block raises.
IngestError(i) ==
    /\ \E from \in {"awaiting", "clear_failure", "open_success", "write_success", "succeed"} :
          Proceed(i, from, "record_failure")
    /\ UNCHANGED folderVars

\* Mutant of RecordFailureIssue: the issue is given the stage of the job as type.
RecordStageAsIssue(i) ==
    /\ Advance(i, "record_failure", "clear_success")
    /\ cause' = [cause EXCEPT ![i] = "ingestion_failed"]
    /\ open' = open \cup {<<FolderOf(i), "ingest">>}
    /\ UNCHANGED <<present, success, failure, catalog>>

RecordFailureIssue(i) ==
    /\ Advance(i, "record_failure", "clear_success")
    /\ cause' = [cause EXCEPT ![i] = "ingestion_failed"]
    /\ open' = open \cup {<<FolderOf(i), "ingestion_failed">>}
    /\ UNCHANGED <<present, success, failure, catalog>>

\* Mutant of ClearSuccessMarker: a failed ingest keeps the success marker.
KeepSuccessMarker(i) ==
    /\ Proceed(i, "clear_success", "open_failure")
    /\ UNCHANGED folderVars

ClearSuccessMarker(i) ==
    /\ Proceed(i, "clear_success", "open_failure")
    /\ success' = [success EXCEPT ![FolderOf(i)] = "absent"]
    /\ UNCHANGED <<present, failure, catalog, open>>

OpenFailureMarker(i) ==
    /\ Proceed(i, "open_failure", "write_failure")
    /\ present[FolderOf(i)]
    /\ failure' = [failure EXCEPT ![FolderOf(i)] = "empty"]
    /\ UNCHANGED <<present, success, catalog, open>>

TearFailureMarker(i) ==
    /\ TornWrites
    /\ Proceed(i, "write_failure", "write_failure")
    /\ failure[FolderOf(i)] = "empty"
    /\ failure' = [failure EXCEPT ![FolderOf(i)] = "torn"]
    /\ UNCHANGED <<present, success, catalog, open>>

WriteFailureMarker(i) ==
    /\ Proceed(i, "write_failure", "fail")
    /\ LET mark == IF <<FolderOf(i), cause[i]>> \in open THEN cause[i] ELSE "closed"
       IN  failure' = [failure EXCEPT ![FolderOf(i)] = IF @ \in Unwritten THEN mark ELSE @]
    /\ UNCHANGED <<present, success, catalog, open>>

Fail(i) ==
    /\ phase[i] = "fail"
    /\ IngestFails(i)
    /\ EndIngest(i)
    /\ UNCHANGED folderVars

\* A statement of the except block raises: always when the folder is gone, for
\* the failure marker cannot be written then.
IngestEscapes(i) ==
    /\ phase[i] \in {"record_failure", "clear_success", "open_failure", "write_failure", "fail"}
    /\ IngestRaises(i)
    /\ EndIngest(i)
    /\ UNCHANGED folderVars

IngestStep(i) ==
    \/ UpsertDatabase(i) \/ ClearFailureMarker(i)
    \/ OpenSuccessMarker(i) \/ TearSuccessMarker(i) \/ WriteSuccessMarker(i) \/ Succeed(i)
    \/ RecordMatchIssue(i) \/ IngestError(i) \/ RecordFailureIssue(i)
    \/ ClearSuccessMarker(i)
    \/ OpenFailureMarker(i) \/ TearFailureMarker(i) \/ WriteFailureMarker(i) \/ Fail(i)
    \/ IngestEscapes(i)

RunnerStep(i) ==
    \/ ClaimAndBegin(i)
    \/ (RunnerReturns(i) \/ ClaimRaises(i)) /\ UNCHANGED <<folderVars, phase, cause>>

-----------------------------------------------------------------------------
(* Start, crash, and what people do to the folders and the database *)

ServiceStart(i) == Start(i) /\ UNCHANGED <<folderVars, phase, cause>>

ServiceCrash(i) ==
    /\ Crash(i)
    /\ EndIngest(i)
    /\ UNCHANGED folderVars

\* The folder is deleted or moved away with the markers in it, or is added.
MoveFolder(f) ==
    /\ "folders" \in Edits
    /\ present' = [present EXCEPT ![f] = ~@]
    /\ success' = [success EXCEPT ![f] = "absent"]
    /\ failure' = [failure EXCEPT ![f] = "absent"]
    /\ UNCHANGED <<vars, catalog, open, phase, cause>>

CloseIssue(f, t) ==
    /\ "issues" \in Edits
    /\ <<f, t>> \in open
    /\ open' = open \ {<<f, t>>}
    /\ failure' = [failure EXCEPT ![f] = IF @ = t THEN "closed" ELSE @]
    /\ UNCHANGED <<vars, present, success, catalog, phase, cause>>

\* The media records of a folder are lost while the service is down.
LoseCatalog(f) ==
    /\ "catalog" \in Edits
    /\ \A i \in Instance : app[i] = "down"
    /\ catalog[f]
    /\ catalog' = [catalog EXCEPT ![f] = FALSE]
    /\ UNCHANGED <<vars, present, success, failure, open, phase, cause>>

-----------------------------------------------------------------------------
ProcessStep(i) ==
    \/ ServiceStart(i) \/ ServiceCrash(i)
    \/ StartupScan(i) \/ RequestedScan(i) \/ ScanRest(i)
    \/ \E f \in Folder : TriggerPath(i, f)
    \/ \E j \in DOMAIN jobs : RetryFailedJob(i, j) \/ RetryInterrupted(i, j)
    \/ RunnerStep(i) \/ IngestStep(i)

Edit == \E f \in Folder :
    MoveFolder(f) \/ (\E t \in IssueType : CloseIssue(f, t)) \/ LoseCatalog(f)

ServiceNext == (\E i \in Instance : ProcessStep(i)) \/ Edit

ServiceSpec == ServiceInit /\ [][ServiceNext]_serviceVars

\* Fairness as in JobQueue: start-up, a scan that has begun and the runner go
\* on, and an ingest ends, for each of its awaits has a timeout.
ServiceFairness ==
    \A i \in Instance :
        /\ WF_serviceVars(ServiceStart(i))
        /\ WF_serviceVars(StartupScan(i))
        /\ WF_serviceVars(ScanRest(i))
        /\ SF_serviceVars(RunnerStep(i))
        /\ SF_serviceVars(IngestStep(i))

FairServiceSpec == ServiceSpec /\ ServiceFairness

-----------------------------------------------------------------------------
(* Properties *)

JobsOf(f) == {j \in DOMAIN jobs : jobs[j].folder = f}
LatestJob(f, j) == j \in JobsOf(f) /\ \A k \in JobsOf(f) : k <= j

\* A folder never has both markers, at any instant: each outcome removes the
\* other marker before it writes its own.
MarkersExclusive == \A f \in Folder : ~BothMarkers(f)

\* The markers of a folder no job is working on tell how its last job ended.  A
\* success marker may also stand beside a last job that a crash interrupted
\* after the marker was written; then the job was failed by recovery.
MarkersTellOutcome ==
    \A f \in Folder, j \in DOMAIN jobs :
        LatestJob(f, j) /\ ActiveJobs(f) = {} =>
            /\ failure[f] # "absent" => jobs[j].status = "failed"
            /\ success[f] # "absent" =>
                  jobs[j].status = "succeeded" \/ jobs[j].error_stage = "startup_recovery"

\* A marker that was begun and not completed, which no scan can rely on and the
\* YAML reader may reject, is one whose job was interrupted: once no job works on
\* the folder its last job was failed by recovery.  An outcome the service
\* recorded itself never comes with a half-written marker.
IncompleteMarkerIsInterrupted ==
    \A f \in Folder, j \in DOMAIN jobs :
        LatestJob(f, j) /\ ActiveJobs(f) = {} /\ (success[f] \in Unwritten \/ failure[f] \in Unwritten)
            => jobs[j].status = "failed" /\ jobs[j].error_stage = "startup_recovery"

\* A success marker is completed only once the catalog has the folder.
SuccessAfterCatalog ==
    [][\A f \in Folder :
          success[f] # "full" /\ success'[f] = "full" => catalog[f]]_serviceVars

\* The service runs its jobs as JobQueue says, whatever the folders do.
ImplementsJobQueue == Spec

\* Every folder that is there and that Postgres does not know is eventually
\* scanned and ingested, one way or the other: it gets a marker, or its job was
\* interrupted by a crash and says so, or its name, read as a LIKE pattern, takes
\* the files of another folder for its own.  (Of behaviours that stay below the bound
\* on rows, which may otherwise keep a start-up scan from queueing.)
EveryFolderIsSettled ==
    (\A i \in Instance : <>[](app[i] # "down")) /\ [](Len(jobs) < MaxJobs) =>
        \A f \in Folder :
            (present[f] /\ JobsOf(f) = {}) ~>
                \/ success[f] = "full" \/ failure[f] \in FailureIssue
                \/ \E j \in DOMAIN jobs : LatestJob(f, j) /\ jobs[j].error_stage = "startup_recovery"
                \/ \E g \in LikeMatch[f] \ {f} : catalog[g]

\* A scan with retry_failed queues every folder whose last job failed.
FailedFolderIsRetried ==
    \A f \in Folder, j \in DOMAIN jobs :
        present[f] /\ LatestJob(f, j) /\ jobs[j].status = "failed" => Queued(f, TRUE, FALSE)
=============================================================================
