------------------------ MODULE MetadataServiceProofs ------------------------
(***************************************************************************)
(* Theorems about MetadataService.  For every set of processes and folders *)
(* the service runs its jobs as JobQueue says, so every theorem about the  *)
(* queue holds of the service, and whatever faults, crashes and edits from *)
(* outside it meets, a success marker is only completed for a folder whose *)
(* catalog is committed.  The last part has what only holds of a service   *)
(* of one process.                                                         *)
(***************************************************************************)
EXTENDS MetadataService, JobQueueProofs

-----------------------------------------------------------------------------
(* The service implements the queue *)

\* Each step of ingest but the last leaves the queue alone.
LEMMA IngestStepCases ==
    ASSUME NEW i \in Instance, IngestStep(i)
    PROVE  UNCHANGED vars \/ IngestSucceeds(i) \/ IngestFails(i) \/ IngestRaises(i)
<1>1. ASSUME NEW from, NEW to, Advance(i, from, to) PROVE UNCHANGED vars
  BY <1>1 DEF Advance
<1> QED
  BY <1>1 DEF IngestStep, UpsertDatabase, ClearFailureMarker, OpenSuccessMarker, TearSuccessMarker,
      WriteSuccessMarker, Succeed, RecordMatchIssue, IngestError, RecordFailureIssue,
      ClearSuccessMarker, OpenFailureMarker, TearFailureMarker, WriteFailureMarker, Fail,
      IngestEscapes, Proceed

LEMMA ScanFoldersCases ==
    ASSUME NEW i \in Instance, NEW S \in SUBSET Folder, NEW retry, NEW reprocess,
           ScanFolders(i, S, retry, reprocess)
    PROVE  (\E C \in SUBSET Folder : ScanBegin(i, C)) \/ Crash(i) \/ UNCHANGED vars
<1>1. {f \in {g \in S : present[g]} : Queued(f, retry, reprocess)} \in SUBSET Folder
  OBVIOUS
<1> QED
  BY <1>1 DEF ScanFolders, ScanAll, ScanAborts

\* Every step of a process is a step of its queue or leaves the queue alone.
LEMMA ProcessStepRefines ==
    ASSUME TypeOK, NEW i \in Instance, ProcessStep(i)
    PROVE  [Next]_vars
<1> SUFFICES \/ UNCHANGED vars
             \/ Start(i) \/ Scan(i) \/ Request(i) \/ RunQueue(i) \/ Ingest(i) \/ Crash(i)
  BY DEF Next
<1>1. CASE ServiceStart(i)
  BY <1>1 DEF ServiceStart
<1>2. CASE ServiceCrash(i)
  BY <1>2 DEF ServiceCrash
<1>3. CASE StartupScan(i) \/ RequestedScan(i)
  BY <1>3, ScanFoldersCases DEF StartupScan, RequestedScan, Scan
<1>4. CASE ScanRest(i)
  BY <1>4 DEF ScanRest, Scan
<1>5. ASSUME NEW f \in Folder, TriggerPath(i, f) PROVE Request(i)
  BY <1>5 DEF TriggerPath, Request
<1>6. ASSUME NEW j \in DOMAIN jobs, RetryFailedJob(i, j)
      PROVE  UNCHANGED vars \/ Request(i)
  BY <1>6, RowType DEF RetryFailedJob, Request
<1>7. ASSUME NEW j \in DOMAIN jobs, RetryInterrupted(i, j) PROVE Crash(i)
  BY <1>7 DEF RetryInterrupted
<1>8. CASE RunnerStep(i)
  BY <1>8 DEF RunnerStep, ClaimAndBegin, RunQueue
<1>9. CASE IngestStep(i)
  BY <1>9, IngestStepCases DEF Ingest
<1> QED
  BY <1>1, <1>2, <1>3, <1>4, <1>5, <1>6, <1>7, <1>8, <1>9 DEF ProcessStep

LEMMA ServiceNextRefines ==
    ASSUME TypeOK, [ServiceNext]_serviceVars
    PROVE  [Next]_vars
<1>1. CASE UNCHANGED serviceVars
  BY <1>1 DEF serviceVars, vars
<1>2. ASSUME NEW i \in Instance, ProcessStep(i) PROVE [Next]_vars
  BY <1>2, ProcessStepRefines
<1>3. CASE Edit
  BY <1>3 DEF Edit, MoveFolder, CloseIssue, LoseCatalog
<1> QED
  BY <1>1, <1>2, <1>3 DEF ServiceNext

LEMMA ServiceQueueInvNext == QueueInv /\ [ServiceNext]_serviceVars => QueueInv'
<1>1. QueueInv /\ [ServiceNext]_serviceVars => [Next]_vars
  BY ServiceNextRefines DEF QueueInv
<1> QED
  BY <1>1, QueueInvNext

\* The service runs its jobs as JobQueue says, for every set of processes and
\* folders: scans that are decided by markers, ingests of many statements and
\* whatever people do to the folders amount to steps of the queue.
THEOREM ServiceIsJobQueue == ServiceSpec => ImplementsJobQueue
<1>1. ServiceInit => Init /\ QueueInv
  BY QueueInvInit DEF ServiceInit
<1>2. QueueInv /\ [ServiceNext]_serviceVars => [Next]_vars
  BY ServiceNextRefines DEF QueueInv
<1> QED
  BY <1>1, <1>2, ServiceQueueInvNext, PTL DEF ServiceSpec, ImplementsJobQueue, Spec

-----------------------------------------------------------------------------
(* Types *)

\* An ingest has a phase exactly while the runner ingests.
PhaseShape == \A i \in Instance : phase[i] # "idle" <=> runner[i] = "ingesting"

ServiceInv == QueueInv /\ ServiceTypeOK /\ PhaseShape

LEMMA FolderOfType ==
    ASSUME QueueInv, NEW i \in Instance, Ingesting(i)
    PROVE  cur[i] \in DOMAIN jobs /\ FolderOf(i) \in Folder
<1>1. cur[i] \in DOMAIN jobs
  BY IngestedRowExists DEF QueueInv
<1> QED
  BY <1>1, RowType DEF FolderOf, QueueInv

LEMMA ScanIssuesType ==
    ASSUME NEW S \in SUBSET Folder, NEW retry, NEW reprocess
    PROVE  ScanIssues(S, retry, reprocess) \subseteq Folder \X IssueType
BY DEF ScanIssues, IssueType

LEMMA EndIngestType ==
    ASSUME ServiceTypeOK, NEW i \in Instance, EndIngest(i)
    PROVE  phase' \in [Instance -> Phase] /\ cause' \in [Instance -> FailureIssue]
BY DEF EndIngest, ServiceTypeOK, Phase, FailureIssue

LEMMA ScanFoldersType ==
    ASSUME ServiceTypeOK, NEW i \in Instance, NEW S \in SUBSET Folder, NEW retry, NEW reprocess,
           ScanFolders(i, S, retry, reprocess)
    PROVE  ServiceTypeOK'
<1>1. \E T \in SUBSET Folder : open' = open \cup ScanIssues(T, retry, reprocess)
  <2>1. CASE ScanAll(i, S, retry, reprocess)
    BY <2>1 DEF ScanAll
  <2>2. CASE ScanAborts(i, S, retry, reprocess)
    <3> DEFINE seen == {f \in S : present[f]}
    <3>1. PICK before \in SUBSET {f \in seen : ~ReadRaises(f, retry)} :
            open' = open \cup ScanIssues(before, retry, reprocess)
      BY <2>2 DEF ScanAborts
    <3> QED
      BY <3>1
  <2> QED
    BY <2>1, <2>2 DEF ScanFolders
<1>2. open' \subseteq Folder \X IssueType
  BY <1>1, ScanIssuesType DEF ServiceTypeOK
<1> QED
  BY <1>2 DEF ScanFolders, ScanAll, ScanAborts, ServiceTypeOK

LEMMA RequestType ==
    ASSUME ServiceTypeOK, QueueInv, NEW i \in Instance,
           \/ \E f \in Folder : TriggerPath(i, f)
           \/ \E j \in DOMAIN jobs : RetryFailedJob(i, j) \/ RetryInterrupted(i, j)
    PROVE  ServiceTypeOK'
<1>1. ASSUME NEW j \in DOMAIN jobs, RetryFailedJob(i, j) \/ RetryInterrupted(i, j)
      PROVE  ServiceTypeOK'
  <2>1. jobs[j].folder \in Folder
    BY RowType DEF QueueInv
  <2>2. failure' = [failure EXCEPT ![jobs[j].folder] = "absent"]
    BY <1>1 DEF RetryFailedJob, RetryInterrupted
  <2>3. failure' \in [Folder -> FailureMarker]
    BY <2>1, <2>2 DEF ServiceTypeOK, FailureMarker
  <2>4. phase' \in [Instance -> Phase] /\ cause' \in [Instance -> FailureIssue]
    BY <1>1, EndIngestType DEF RetryFailedJob, RetryInterrupted, ServiceTypeOK
  <2> QED
    BY <1>1, <2>3, <2>4 DEF RetryFailedJob, RetryInterrupted, ServiceTypeOK
<1> QED
  BY <1>1 DEF TriggerPath, ServiceTypeOK, folderVars

LEMMA IngestStepType ==
    ASSUME ServiceTypeOK, QueueInv, NEW i \in Instance, IngestStep(i)
    PROVE  ServiceTypeOK'
<1>1. Ingesting(i)
  BY DEF IngestStep, UpsertDatabase, ClearFailureMarker, OpenSuccessMarker, TearSuccessMarker,
      WriteSuccessMarker, Succeed, RecordMatchIssue, IngestError, RecordFailureIssue,
      ClearSuccessMarker, OpenFailureMarker, TearFailureMarker, WriteFailureMarker, Fail,
      IngestEscapes, Proceed, Advance, IngestSucceeds, IngestFails, IngestRaises, FinishIngest
<1>2. FolderOf(i) \in Folder
  BY <1>1, FolderOfType
<1>3. ASSUME NEW to \in Phase, NEW from, Advance(i, from, to) PROVE phase' \in [Instance -> Phase]
  BY <1>3 DEF Advance, ServiceTypeOK
<1>4. CASE Succeed(i) \/ Fail(i) \/ IngestEscapes(i)
  BY <1>4, EndIngestType DEF Succeed, Fail, IngestEscapes, ServiceTypeOK, folderVars
<1>5. CASE UpsertDatabase(i)
  BY <1>2, <1>3, <1>5 DEF UpsertDatabase, Proceed, ServiceTypeOK, Phase
<1>6. CASE ClearFailureMarker(i)
  BY <1>2, <1>3, <1>6 DEF ClearFailureMarker, Proceed, ServiceTypeOK, Phase, FailureMarker
<1>7. CASE OpenSuccessMarker(i) \/ TearSuccessMarker(i) \/ WriteSuccessMarker(i) \/ ClearSuccessMarker(i)
  BY <1>2, <1>3, <1>7 DEF OpenSuccessMarker, TearSuccessMarker, WriteSuccessMarker,
      ClearSuccessMarker, Proceed, ServiceTypeOK, Phase, SuccessMarker
<1>8. CASE RecordMatchIssue(i)
  BY <1>2, <1>3, <1>8 DEF RecordMatchIssue, ServiceTypeOK, Phase, FailureIssue, IssueType
<1>9. CASE IngestError(i)
  BY <1>3, <1>9 DEF IngestError, Proceed, ServiceTypeOK, Phase, folderVars
<1>10. CASE RecordFailureIssue(i)
  BY <1>2, <1>3, <1>10 DEF RecordFailureIssue, ServiceTypeOK, Phase, FailureIssue, IssueType
<1>11. CASE OpenFailureMarker(i) \/ TearFailureMarker(i)
  BY <1>2, <1>3, <1>11 DEF OpenFailureMarker, TearFailureMarker, Proceed, ServiceTypeOK, Phase,
      FailureMarker
<1>12. CASE WriteFailureMarker(i)
  BY <1>2, <1>3, <1>12 DEF WriteFailureMarker, Proceed, ServiceTypeOK, Phase, FailureMarker
<1> QED
  BY <1>4, <1>5, <1>6, <1>7, <1>8, <1>9, <1>10, <1>11, <1>12 DEF IngestStep

LEMMA ServiceTypeNext ==
    ASSUME ServiceTypeOK, QueueInv, [ServiceNext]_serviceVars
    PROVE  ServiceTypeOK'
<1>1. CASE UNCHANGED serviceVars
  BY <1>1 DEF serviceVars, ServiceTypeOK
<1>2. ASSUME NEW i \in Instance, ProcessStep(i) PROVE ServiceTypeOK'
  <2>1. CASE ServiceStart(i) \/ ScanRest(i)
    BY <2>1 DEF ServiceStart, ScanRest, ServiceTypeOK, folderVars
  <2>2. CASE ServiceCrash(i)
    BY <2>2, EndIngestType DEF ServiceCrash, ServiceTypeOK, folderVars
  <2>3. CASE StartupScan(i) \/ RequestedScan(i)
    BY <2>3, ScanFoldersType DEF StartupScan, RequestedScan
  <2>4. CASE RunnerStep(i)
    BY <2>4 DEF RunnerStep, ClaimAndBegin, ServiceTypeOK, folderVars, Phase
  <2> QED
    BY <1>2, <2>1, <2>2, <2>3, <2>4, RequestType, IngestStepType DEF ProcessStep
<1>3. CASE Edit
  BY <1>3 DEF Edit, MoveFolder, CloseIssue, LoseCatalog, ServiceTypeOK, SuccessMarker, FailureMarker
<1> QED
  BY <1>1, <1>2, <1>3 DEF ServiceNext

\* A step that only moves the runner of process i, and not in or out of an ingest.
LEMMA PhaseKept ==
    ASSUME TypeOK, PhaseShape, NEW i \in Instance, UNCHANGED phase,
           runner' = [runner EXCEPT ![i] = runner'[i]],
           runner'[i] = "ingesting" <=> runner[i] = "ingesting"
    PROVE  PhaseShape'
BY DEF PhaseShape, TypeOK

LEMMA PhaseEnsured ==
    ASSUME TypeOK, PhaseShape, NEW i \in Instance, NEW rows, UNCHANGED phase,
           runner' = [runner EXCEPT ![i] = EnsureRunnerStarted(i, rows)]
    PROVE  PhaseShape'
<1>1. runner'[i] = EnsureRunnerStarted(i, rows)
  BY DEF TypeOK
<1> QED
  BY <1>1, PhaseKept, EnsureRunnerStartedType

\* The process or its ingest ends.
LEMMA PhaseEnds ==
    ASSUME TypeOK, ServiceTypeOK, PhaseShape, NEW i \in Instance, EndIngest(i),
           NEW s \in RunnerState, s # "ingesting", runner' = [runner EXCEPT ![i] = s]
    PROVE  PhaseShape'
BY DEF PhaseShape, TypeOK, ServiceTypeOK, EndIngest

LEMMA ScanFoldersKeep ==
    ASSUME NEW i, NEW S, NEW retry, NEW reprocess, ScanFolders(i, S, retry, reprocess)
    PROVE  UNCHANGED phase /\ (UNCHANGED runner \/ (app[i] = "recovered" /\ Crash(i)))
<1>1. CASE ScanAll(i, S, retry, reprocess)
  <2>1. \E C : ScanBegin(i, C)
    BY <1>1, Zenon DEF ScanAll
  <2>2. UNCHANGED runner
    BY <2>1, Zenon DEF ScanBegin
  <2>3. UNCHANGED phase
    BY <1>1, Zenon DEF ScanAll
  <2> QED
    BY <2>2, <2>3
<1>2. CASE ScanAborts(i, S, retry, reprocess)
  <2>1. UNCHANGED vars \/ (app[i] = "recovered" /\ Crash(i))
    BY <1>2, Zenon DEF ScanAborts
  <2>2. UNCHANGED phase
    BY <1>2, Zenon DEF ScanAborts
  <2> QED
    BY <2>1, <2>2, Zenon DEF vars
<1> QED
  BY <1>1, <1>2 DEF ScanFolders

LEMMA PhaseShapeNext ==
    ASSUME ServiceInv, [ServiceNext]_serviceVars
    PROVE  PhaseShape'
<1> USE DEF ServiceInv, QueueInv
<1>1. CASE UNCHANGED <<runner, phase>>
  BY <1>1 DEF PhaseShape
<1>2. ASSUME NEW i \in Instance, ProcessStep(i) PROVE PhaseShape'
  <2>1. CASE ServiceStart(i)
    BY <1>1, <2>1 DEF ServiceStart, Start, SelectStaleRunningJobs, FailStaleRunningJobs, StartWithoutScan
  <2>2. CASE ServiceCrash(i)
    BY <2>2, PhaseEnds DEF ServiceCrash, Crash, RunnerState
  <2>3. CASE StartupScan(i) \/ RequestedScan(i)
    <3>1. PICK S \in SUBSET Folder, retry \in BOOLEAN, reprocess \in BOOLEAN :
            ScanFolders(i, S, retry, reprocess)
      BY <2>3 DEF StartupScan, RequestedScan
    <3>2. CASE app[i] = "recovered" /\ Crash(i) /\ UNCHANGED phase
      <4>1. runner[i] = "none" /\ runner \in [Instance -> RunnerState]
        BY <3>2 DEF RunnerShape, TypeOK
      <4>2. runner' = runner
        BY <3>2, <4>1 DEF Crash
      <4> QED
        BY <1>1, <3>2, <4>2
    <3>3. UNCHANGED phase /\ (UNCHANGED runner \/ (app[i] = "recovered" /\ Crash(i)))
      BY <3>1, ScanFoldersKeep
    <3> QED
      BY <1>1, <3>2, <3>3
  <2>4. CASE ScanRest(i)
    BY <1>1, <2>4, PhaseEnsured DEF ScanRest, ScanCreate, ScanEnd, ScanRaises
  <2>5. ASSUME NEW f \in Folder, TriggerPath(i, f) PROVE PhaseShape'
    BY <1>1, <2>5, PhaseEnsured DEF TriggerPath, EnqueuePathJob, RequestRaises
  <2>6. ASSUME NEW j \in DOMAIN jobs, RetryFailedJob(i, j) PROVE PhaseShape'
    BY <1>1, <2>6, PhaseEnsured DEF RetryFailedJob, RetryJob, RequestRaises, vars
  <2>7. ASSUME NEW j \in DOMAIN jobs, RetryInterrupted(i, j) PROVE PhaseShape'
    BY <2>7, PhaseEnds DEF RetryInterrupted, Crash, RunnerState
  <2>8. CASE RunnerStep(i)
    <3>1. CASE ClaimAndBegin(i)
      BY <3>1 DEF ClaimAndBegin, ClaimNextPendingJob, PhaseShape, TypeOK, ServiceTypeOK
    <3>2. CASE (RunnerReturns(i) \/ ClaimRaises(i)) /\ UNCHANGED phase
      BY <3>2 DEF RunnerReturns, ClaimRaises, BetweenJobs, PhaseShape, TypeOK
    <3> QED
      BY <2>8, <3>1, <3>2 DEF RunnerStep
  <2>9. CASE IngestStep(i)
    <3>1. ASSUME NEW from, NEW to \in Phase \ {"idle"}, Advance(i, from, to) PROVE PhaseShape'
      BY <3>1 DEF Advance, Ingesting, PhaseShape, ServiceTypeOK, vars
    <3>2. CASE Succeed(i) \/ Fail(i) \/ IngestEscapes(i)
      BY <3>2, PhaseEnds DEF Succeed, Fail, IngestEscapes, IngestSucceeds, IngestFails, FinishIngest,
          IngestRaises, RunnerState
    <3> QED
      BY <2>9, <3>1, <3>2 DEF IngestStep, UpsertDatabase, ClearFailureMarker, OpenSuccessMarker,
          TearSuccessMarker, WriteSuccessMarker, RecordMatchIssue, IngestError, RecordFailureIssue,
          ClearSuccessMarker, OpenFailureMarker, TearFailureMarker, WriteFailureMarker, Proceed, Phase
  <2> QED
    BY <1>2, <2>1, <2>2, <2>3, <2>4, <2>5, <2>6, <2>7, <2>8, <2>9 DEF ProcessStep
<1>3. Edit \/ UNCHANGED serviceVars => UNCHANGED <<runner, phase>>
  BY DEF Edit, MoveFolder, CloseIssue, LoseCatalog, vars, serviceVars
<1> QED
  BY <1>1, <1>2, <1>3 DEF ServiceNext

LEMMA ServiceInvInit == ServiceInit => ServiceInv
<1> SUFFICES ASSUME ServiceInit PROVE ServiceInv
  OBVIOUS
<1>1. QueueInv
  BY QueueInvInit DEF ServiceInit
<1>2. ServiceTypeOK
  BY DEF ServiceInit, ServiceTypeOK, SuccessMarker, FailureMarker, Phase, FailureIssue
<1>3. PhaseShape
  BY DEF ServiceInit, Init, PhaseShape
<1> QED
  BY <1>1, <1>2, <1>3 DEF ServiceInv

LEMMA ServiceInvNext == ServiceInv /\ [ServiceNext]_serviceVars => ServiceInv'
BY ServiceQueueInvNext, ServiceTypeNext, PhaseShapeNext DEF ServiceInv

\* The inductive invariant of the service, for any number of processes.
THEOREM ServiceInvariant == ServiceSpec => []ServiceInv
<1> QED
  BY ServiceInvInit, ServiceInvNext, PTL DEF ServiceSpec

\* Type correctness of the markers, the catalog, the issues and the ingests, for
\* every set of processes and folders.
THEOREM ServiceTypeCorrect == ServiceSpec => []ServiceTypeOK
<1>1. ServiceInv => ServiceTypeOK
  BY DEF ServiceInv
<1> QED
  BY <1>1, ServiceInvariant, PTL
-----------------------------------------------------------------------------
(* A success marker comes after the catalog *)

\* The row a runner ingests stays the same row while it ingests, and its folder
\* does too.
LEMMA CurKept ==
    ASSUME NEW i \in Instance, QueueInv, [Next]_vars,
           runner[i] = "ingesting", runner'[i] = "ingesting"
    PROVE  cur'[i] = cur[i] /\ FolderOf(i)' = FolderOf(i)
<1> USE DEF QueueInv
<1>1. cur[i] \in DOMAIN jobs
  BY DEF RunnerShape, RowIngestedOnce
<1>2. cur'[i] = cur[i]
  <2>1. CASE cur'[i] = NoJob
    BY <2>1, RunnerShapeNext DEF RunnerShape
  <2>2. ASSUME NEW k \in Instance, NEW j \in DOMAIN jobs, ClaimNextPendingJob(k, j)
        PROVE  cur'[i] = cur[i]
    BY <2>2 DEF ClaimNextPendingJob, BetweenJobs, TypeOK
  <2> QED
    BY <2>1, <2>2, CurNext
<1>3. jobs'[cur[i]].folder = jobs[cur[i]].folder
  BY <1>1, LedgerKeptNext DEF LedgerKept
<1> QED
  BY <1>2, <1>3 DEF FolderOf

\* The phases after the commit of the catalog, on the way to success.
Late == {"clear_failure", "open_success", "write_success", "succeed"}

Cataloged == \A i \in Instance : phase[i] \in Late => catalog[FolderOf(i)]

\* An ingest gets into these phases by the commit only.
LEMMA LateIsEntered ==
    ASSUME ServiceInv, [ServiceNext]_serviceVars, NEW i \in Instance, phase'[i] \in Late
    PROVE  phase[i] \in Late \/ UpsertDatabase(i)
<1> USE DEF ServiceInv, ServiceTypeOK, Late
<1>1. CASE UNCHANGED phase
  BY <1>1
<1>2. ASSUME NEW k \in Instance, ProcessStep(k) PROVE phase[i] \in Late \/ UpsertDatabase(i)
  <2>1. CASE ServiceStart(k) \/ ScanRest(k) \/ \E f \in Folder : TriggerPath(k, f)
    BY <1>1, <2>1 DEF ServiceStart, ScanRest, TriggerPath
  <2>2. CASE StartupScan(k) \/ RequestedScan(k)
    BY <1>1, <2>2, ScanFoldersKeep DEF StartupScan, RequestedScan
  <2>3. CASE ServiceCrash(k)
    BY <2>3 DEF ServiceCrash, EndIngest
  <2>4. ASSUME NEW j \in DOMAIN jobs, RetryFailedJob(k, j) \/ RetryInterrupted(k, j)
        PROVE  phase[i] \in Late \/ UpsertDatabase(i)
    BY <2>4 DEF RetryFailedJob, RetryInterrupted, EndIngest
  <2>5. CASE RunnerStep(k)
    BY <2>5 DEF RunnerStep, ClaimAndBegin
  <2>6. CASE IngestStep(k)
    BY <2>6 DEF IngestStep, UpsertDatabase, ClearFailureMarker, OpenSuccessMarker,
        TearSuccessMarker, WriteSuccessMarker, Succeed, RecordMatchIssue, IngestError,
        RecordFailureIssue, ClearSuccessMarker, OpenFailureMarker, TearFailureMarker,
        WriteFailureMarker, Fail, IngestEscapes, Proceed, Advance, EndIngest
  <2> QED
    BY <1>2, <2>1, <2>2, <2>3, <2>4, <2>5, <2>6 DEF ProcessStep
<1>3. Edit \/ UNCHANGED serviceVars => UNCHANGED phase
  BY DEF Edit, MoveFolder, CloseIssue, LoseCatalog, serviceVars
<1> QED
  BY <1>1, <1>2, <1>3 DEF ServiceNext

\* The catalog forgets a folder only while every process is down.
LEMMA CatalogIsKept ==
    ASSUME ServiceInv, [ServiceNext]_serviceVars, NEW f \in Folder, catalog[f], ~catalog'[f]
    PROVE  \A i \in Instance : app[i] = "down"
<1>1. ASSUME NEW k \in Instance, ProcessStep(k) PROVE catalog'[f]
  <2>1. CASE IngestStep(k)
    BY <2>1 DEF ServiceInv, ServiceTypeOK, IngestStep, UpsertDatabase, ClearFailureMarker,
        OpenSuccessMarker, TearSuccessMarker, WriteSuccessMarker, Succeed, RecordMatchIssue,
        IngestError, RecordFailureIssue, ClearSuccessMarker, OpenFailureMarker, TearFailureMarker,
        WriteFailureMarker, Fail, IngestEscapes, folderVars
  <2>2. CASE StartupScan(k) \/ RequestedScan(k)
    BY <2>2 DEF StartupScan, RequestedScan, ScanFolders, ScanAll, ScanAborts
  <2> QED
    BY <1>1, <2>1, <2>2 DEF ProcessStep, ServiceStart, ServiceCrash, ScanRest, TriggerPath,
        RetryFailedJob, RetryInterrupted, RunnerStep, ClaimAndBegin, folderVars
<1> QED
  BY <1>1 DEF ServiceNext, Edit, MoveFolder, CloseIssue, LoseCatalog, serviceVars

LEMMA CatalogedNext ==
    ASSUME ServiceInv, Cataloged, [ServiceNext]_serviceVars
    PROVE  Cataloged'
<1>1. ServiceInv' /\ [Next]_vars
  BY ServiceInvNext, ServiceNextRefines DEF ServiceInv, QueueInv
<1>2. ASSUME NEW i \in Instance, phase'[i] \in Late PROVE catalog'[FolderOf(i)']
  <2>1. runner[i] = "ingesting" /\ runner'[i] = "ingesting"
    <3>1. phase[i] # "idle"
      BY <1>2, LateIsEntered DEF Late, UpsertDatabase, Proceed, Advance
    <3> QED
      BY <1>1, <1>2, <3>1 DEF ServiceInv, PhaseShape, Late
  <2>2. FolderOf(i)' = FolderOf(i) /\ FolderOf(i) \in Folder
    BY <1>1, <2>1, CurKept, RowType DEF ServiceInv, QueueInv, RunnerShape, RowIngestedOnce, FolderOf
  <2>3. CASE UpsertDatabase(i)
    BY <2>2, <2>3 DEF UpsertDatabase, ServiceInv, ServiceTypeOK
  <2>4. CASE phase[i] \in Late
    <3>1. catalog[FolderOf(i)]
      BY <2>4 DEF Cataloged
    <3>2. app[i] # "down"
      BY <2>1 DEF ServiceInv, QueueInv, RunnerShape
    <3> QED
      BY <2>2, <3>1, <3>2, CatalogIsKept
  <2> QED
    BY <1>2, <2>3, <2>4, LateIsEntered
<1> QED
  BY <1>2 DEF Cataloged

\* A success marker is completed by the ingest of its folder only.
LEMMA SuccessIsWritten ==
    ASSUME ServiceInv, [ServiceNext]_serviceVars, NEW f \in Folder,
           success[f] # "full", success'[f] = "full"
    PROVE  \E i \in Instance : phase[i] = "write_success" /\ FolderOf(i) = f
<1> USE DEF ServiceInv, ServiceTypeOK
<1>1. ASSUME NEW k \in Instance, IngestStep(k)
      PROVE  phase[k] = "write_success" /\ FolderOf(k) = f
  BY <1>1 DEF IngestStep, UpsertDatabase, ClearFailureMarker, OpenSuccessMarker,
      TearSuccessMarker, WriteSuccessMarker, Succeed, RecordMatchIssue, IngestError,
      RecordFailureIssue, ClearSuccessMarker, OpenFailureMarker, TearFailureMarker,
      WriteFailureMarker, Fail, IngestEscapes, Proceed, Advance, folderVars
<1>2. ASSUME NEW k \in Instance, ProcessStep(k), ~IngestStep(k) PROVE UNCHANGED success
  <2>1. CASE StartupScan(k) \/ RequestedScan(k)
    BY <2>1 DEF StartupScan, RequestedScan, ScanFolders, ScanAll, ScanAborts
  <2> QED
    BY <1>2, <2>1 DEF ProcessStep, ServiceStart, ServiceCrash, ScanRest, TriggerPath,
        RetryFailedJob, RetryInterrupted, RunnerStep, ClaimAndBegin, folderVars
<1>3. Edit \/ UNCHANGED serviceVars => success'[f] # "full"
  BY DEF Edit, MoveFolder, CloseIssue, LoseCatalog, serviceVars
<1> QED
  BY <1>1, <1>2, <1>3 DEF ServiceNext

\* A success marker is completed only once the catalog has the folder, however
\* many processes ingest, and whatever earlier ingests left behind.
THEOREM SuccessFollowsCatalog == ServiceSpec => SuccessAfterCatalog
<1>1. ServiceInit => ServiceInv /\ Cataloged
  BY ServiceInvInit DEF ServiceInit, Cataloged, Late
<1>2. ServiceInv /\ Cataloged /\ [ServiceNext]_serviceVars => ServiceInv' /\ Cataloged'
  BY ServiceInvNext, CatalogedNext
<1>3. ServiceInv /\ Cataloged /\ [ServiceNext]_serviceVars =>
        [\A f \in Folder :
            success[f] # "full" /\ success'[f] = "full" => catalog[f]]_serviceVars
  BY SuccessIsWritten DEF Cataloged, Late
<1> QED
  BY <1>1, <1>2, <1>3, PTL DEF ServiceSpec, SuccessAfterCatalog

-----------------------------------------------------------------------------
(* The markers of a service of one process, p: what they promise at any       *)
(* instant, for every set of folders, with every fault of the database and    *)
(* the share, crashes anywhere, torn writes, and people who move folders and  *)
(* close issues.                                                              *)

-----------------------------------------------------------------------------
(* The inductive invariant *)

\* No row of the folder of row j was inserted after it.
Last(j) == \A k \in DOMAIN jobs : jobs[k].folder = jobs[j].folder => k <= j

\* A folder gets a new row only when no row of it is active.
ActiveIsLast == \A j \in DOMAIN jobs : jobs[j].status \in ActiveStatus => Last(j)

Interrupted(job) == job.status = "failed" /\ job.error_stage = "startup_recovery"

\* A success marker ok and a failure marker bad are those of the outcome of job.
Told(ok, bad, job) ==
    /\ bad # "absent" => job.status = "failed"
    /\ ok # "absent" => job.status = "succeeded" \/ job.error_stage = "startup_recovery"
    /\ ok \in Unwritten \/ bad \in Unwritten => Interrupted(job)

ToldNow(j) == Told(success[jobs[j].folder], failure[jobs[j].folder], jobs[j])

Settled ==
    \A j \in DOMAIN jobs : Last(j) /\ jobs[j].status \notin ActiveStatus => ToldNow(j)

\* What an ingest in its last statements knows of the markers of its folder,
\* which nobody else writes meanwhile.
MarkerShape(p) ==
    /\ phase[p] \in {"open_success", "write_success", "succeed"} => failure[FolderOf(p)] = "absent"
    /\ phase[p] = "succeed" => success[FolderOf(p)] \notin Unwritten
    /\ phase[p] \in {"open_failure", "write_failure", "fail"} => success[FolderOf(p)] = "absent"
    /\ phase[p] = "fail" => failure[FolderOf(p)] \notin Unwritten

\* Recovery is about to fail rows that are still running, and the row an ingest
\* will write its outcome to is running, so both are the last of their folders.
RunningShape(p) ==
    /\ app[p] = "recovering" => stale[p] \subseteq Running
    /\ runner[p] = "ingesting" => jobs[cur[p]].status = "running"

OutcomeInv(p) ==
    /\ ServiceInv
    /\ MarkersExclusive
    /\ ActiveIsLast
    /\ Settled
    /\ MarkerShape(p)
    /\ RunningShape(p)

-----------------------------------------------------------------------------
(* The rows *)

LEMMA ActiveIsLastNext ==
    ASSUME QueueInv, ActiveIsLast, [Next]_vars
    PROVE  ActiveIsLast'
<1> USE DEF QueueInv
<1>1. LedgerKept
  BY LedgerKeptNext
<1>2. CASE Inserts
  <2>1. PICK f \in Folder : InsertPending(f)
    BY <1>2 DEF Inserts
  <2> DEFINE new == Len(jobs) + 1
  <2>2. /\ DOMAIN jobs' = DOMAIN jobs \cup {new}
        /\ \A j \in DOMAIN jobs : jobs'[j] = jobs[j]
        /\ jobs'[new] = NewJob(f)
        /\ \A j \in WithStatus(jobs, ActiveStatus) : jobs[j].folder # f
    BY <2>1, InsertPendingRows
  <2>3. jobs'[new].folder = f
    BY <2>2 DEF NewJob
  <2>4. \A j \in DOMAIN jobs : j \in Nat /\ j <= new
    BY DEF TypeOK
  <2>5. ASSUME NEW j \in DOMAIN jobs', jobs'[j].status \in ActiveStatus PROVE Last(j)'
    <3>1. CASE j = new
      <4>1. new <= new
        BY DEF TypeOK
      <4> QED
        BY <2>2, <2>4, <3>1, <4>1 DEF Last
    <3>2. CASE j \in DOMAIN jobs
      <4>1. jobs[j].status \in ActiveStatus /\ jobs[j].folder # f
        BY <2>2, <2>5, <3>2 DEF WithStatus
      <4> QED
        BY <2>2, <2>3, <3>2, <4>1 DEF Last, ActiveIsLast
    <3> QED
      BY <2>2, <3>1, <3>2
  <2> QED
    BY <2>5 DEF ActiveIsLast
<1>3. CASE UNCHANGED jobs \/ Recovers \/ Claims \/ Settles
  <2>1. DOMAIN jobs' = DOMAIN jobs
    BY <1>3, RecoverRows, UpdateRowRows, IngestedRowExists
       DEF Recovers, Claims, Settles, MarkRunning, Status, Stage
  <2>2. ASSUME NEW j \in DOMAIN jobs', jobs'[j].status \in ActiveStatus PROVE Last(j)'
    <3>1. j \in DOMAIN jobs /\ jobs[j].status \in ActiveStatus
      BY <1>1, <2>1, <2>2 DEF LedgerKept
    <3> QED
      BY <1>1, <2>1, <3>1 DEF LedgerKept, Last, ActiveIsLast
  <2> QED
    BY <2>2 DEF ActiveIsLast
<1> QED
  BY <1>2, <1>3, RowsNext

LEMMA RunningShapeNext ==
    ASSUME NEW p, Instance = {p}, QueueInv, RunningShape(p), [Next]_vars
    PROVE  RunningShape(p)'
<1> USE DEF QueueInv
<1>1. CASE UNCHANGED vars
  BY <1>1 DEF vars, RunningShape, Running
<1>2. CASE Start(p)
  BY <1>2 DEF Start, SelectStaleRunningJobs, FailStaleRunningJobs, StartWithoutScan, RunningShape,
      RunnerShape, Running, TypeOK
<1>3. CASE Scan(p) \/ Request(p)
  <2>1. app'[p] # "recovering" /\ UNCHANGED cur
    BY <1>3 DEF Scan, ScanBegin, ScanCreate, ScanEnd, ScanRaises, Request, EnqueuePathJob,
        RequestRaises, RetryJob, LoopFree, TypeOK
  <2>2. runner'[p] = "ingesting" => runner[p] = "ingesting"
    BY <1>3, EnsureRunnerStartedType DEF Scan, ScanBegin, ScanCreate, ScanEnd, ScanRaises, Request,
        EnqueuePathJob, RequestRaises, RetryJob, TypeOK
  <2>3. \A j \in DOMAIN jobs : jobs'[j] = jobs[j]
    <3>1. UNCHANGED jobs \/ Inserts
      BY <1>3, RowType DEF Scan, ScanBegin, ScanCreate, ScanEnd, ScanRaises, Request,
          EnqueuePathJob, RequestRaises, RetryJob, Inserts
    <3> QED
      BY <3>1, InsertPendingRows DEF Inserts
  <2>4. runner[p] = "ingesting" => cur[p] \in DOMAIN jobs
    BY DEF RunnerShape, RowIngestedOnce
  <2> QED
    BY <2>1, <2>2, <2>3, <2>4 DEF RunningShape
<1>4. CASE RunQueue(p)
  <2>1. ASSUME NEW j \in DOMAIN jobs, ClaimNextPendingJob(p, j) PROVE RunningShape(p)'
    <3>1. jobs'[j].status = "running"
      BY <2>1, UpdateRowRows DEF ClaimNextPendingJob, MarkRunning, Status, Stage
    <3> QED
      BY <2>1, <3>1 DEF ClaimNextPendingJob, BetweenJobs, RunningShape, TypeOK
  <2>2. CASE RunnerReturns(p) \/ ClaimRaises(p)
    BY <2>2 DEF RunnerReturns, ClaimRaises, BetweenJobs, RunningShape, TypeOK
  <2> QED
    BY <1>4, <2>1, <2>2 DEF RunQueue
<1>5. CASE Ingest(p)
  BY <1>5 DEF Ingest, IngestSucceeds, IngestFails, FinishIngest, IngestRaises, Ingesting,
      RunningShape, TypeOK
<1>6. CASE Crash(p)
  BY <1>6 DEF Crash, RunningShape, TypeOK
<1> QED
  BY <1>1, <1>2, <1>3, <1>4, <1>5, <1>6 DEF Next

-----------------------------------------------------------------------------
(* The kinds of steps *)

\* Markers are removed, or lose the issue they refer to, and none is written.
Fade ==
    /\ \A f \in Folder : success'[f] = success[f] \/ success'[f] = "absent"
    /\ \A f \in Folder :
          \/ failure'[f] = failure[f]
          \/ failure'[f] = "absent"
          \/ failure[f] \notin Unwritten \cup {"absent"} /\ failure'[f] = "closed"

\* The phases of an ingest that has not written a marker yet.
Early == {"idle", "awaiting", "clear_failure", "record_failure", "clear_success"}

Quiet(p) == Fade /\ (phase'[p] = phase[p] \/ phase'[p] \in Early)

MarkerStep(p) ==
    \/ ClearFailureMarker(p) \/ OpenSuccessMarker(p) \/ TearSuccessMarker(p) \/ WriteSuccessMarker(p)
    \/ ClearSuccessMarker(p) \/ OpenFailureMarker(p) \/ TearFailureMarker(p) \/ WriteFailureMarker(p)

\* Every step but the outcome of a job and the writing of its marker is quiet.
StepKind(p) ==
    \/ Quiet(p) /\ (UNCHANGED jobs \/ Inserts \/ Recovers \/ Claims)
    \/ Succeed(p) \/ Fail(p) \/ MarkerStep(p)

LEMMA ClearedFades ==
    ASSUME ServiceTypeOK, NEW f \in Folder, failure' = [failure EXCEPT ![f] = "absent"],
           UNCHANGED success
    PROVE  Fade
BY DEF Fade, ServiceTypeOK

LEMMA EndIngestIsEarly ==
    ASSUME ServiceTypeOK, NEW p \in Instance, EndIngest(p)
    PROVE  phase'[p] \in Early
BY DEF EndIngest, ServiceTypeOK, Early

LEMMA EditKind ==
    ASSUME ServiceTypeOK, Edit, NEW p
    PROVE  Quiet(p) /\ UNCHANGED jobs
<1>1. ASSUME NEW f \in Folder, MoveFolder(f) \/ LoseCatalog(f) PROVE Fade
  BY <1>1 DEF MoveFolder, LoseCatalog, Fade, ServiceTypeOK
<1>2. ASSUME NEW f \in Folder, NEW t \in IssueType, CloseIssue(f, t) PROVE Fade
  BY <1>2 DEF CloseIssue, Fade, ServiceTypeOK, IssueType, FailureIssue, Unwritten
<1>3. UNCHANGED <<phase, jobs>>
  BY DEF Edit, MoveFolder, CloseIssue, LoseCatalog, vars
<1> QED
  BY <1>1, <1>2, <1>3 DEF Edit, Quiet

LEMMA RetryKind ==
    ASSUME ServiceInv, NEW p \in Instance, NEW j \in DOMAIN jobs,
           RetryFailedJob(p, j) \/ RetryInterrupted(p, j)
    PROVE  Quiet(p) /\ (UNCHANGED jobs \/ Inserts)
<1>1. jobs[j].folder \in Folder
  BY RowType DEF ServiceInv, QueueInv
<1>2. Fade
  BY <1>1, ClearedFades DEF RetryFailedJob, RetryInterrupted, ServiceInv
<1>3. phase'[p] = phase[p] \/ phase'[p] \in Early
  BY EndIngestIsEarly DEF RetryFailedJob, RetryInterrupted, ServiceInv
<1>4. UNCHANGED jobs \/ Inserts
  BY <1>1 DEF RetryFailedJob, RetryInterrupted, RetryJob, RequestRaises, Crash, Inserts, vars
<1> QED
  BY <1>2, <1>3, <1>4 DEF Quiet

LEMMA IngestKind ==
    ASSUME ServiceInv, NEW p \in Instance, IngestStep(p)
    PROVE  StepKind(p)
<1>1. ASSUME NEW from, NEW to \in Early, Advance(p, from, to), UNCHANGED <<success, failure>>
      PROVE  StepKind(p)
  BY <1>1 DEF Advance, StepKind, Quiet, Fade, ServiceInv, ServiceTypeOK, vars
<1>2. CASE UpsertDatabase(p) \/ RecordMatchIssue(p) \/ IngestError(p) \/ RecordFailureIssue(p)
  BY <1>1, <1>2 DEF UpsertDatabase, RecordMatchIssue, IngestError, RecordFailureIssue, Proceed,
      folderVars, Early
<1>3. CASE IngestEscapes(p)
  BY <1>3, EndIngestIsEarly DEF IngestEscapes, IngestRaises, StepKind, Quiet, Fade, folderVars, ServiceInv
<1>4. CASE Succeed(p) \/ Fail(p) \/ MarkerStep(p)
  BY <1>4 DEF StepKind
<1> QED
  BY <1>2, <1>3, <1>4 DEF IngestStep, MarkerStep

LEMMA StepKinds ==
    ASSUME NEW p, Instance = {p}, ServiceInv, [ServiceNext]_serviceVars
    PROVE  StepKind(p)
<1> USE DEF StepKind
<1>1. CASE UNCHANGED serviceVars
  BY <1>1 DEF serviceVars, Quiet, Fade
<1>2. CASE Edit
  BY <1>2, EditKind DEF ServiceInv
<1>3. CASE ServiceStart(p)
  BY <1>3 DEF ServiceStart, Start, SelectStaleRunningJobs, FailStaleRunningJobs, StartWithoutScan,
      Quiet, Fade, folderVars, Recovers, RecoveredIn
<1>4. CASE ServiceCrash(p)
  BY <1>4, EndIngestIsEarly DEF ServiceCrash, Crash, Quiet, Fade, folderVars, ServiceInv
<1>5. CASE StartupScan(p) \/ RequestedScan(p)
  <2>1. PICK S \in SUBSET Folder, retry \in BOOLEAN, reprocess \in BOOLEAN :
          ScanFolders(p, S, retry, reprocess)
    BY <1>5 DEF StartupScan, RequestedScan
  <2>2. UNCHANGED <<success, failure, phase, jobs>>
    BY <2>1 DEF ScanFolders, ScanAll, ScanAborts, ScanBegin, Crash, vars
  <2> QED
    BY <2>2 DEF Quiet, Fade
<1>6. CASE ScanRest(p)
  BY <1>6 DEF ScanRest, ScanCreate, ScanEnd, ScanRaises, Quiet, Fade, folderVars, Inserts
<1>7. ASSUME NEW f \in Folder, TriggerPath(p, f) PROVE StepKind(p)
  BY <1>7 DEF TriggerPath, EnqueuePathJob, RequestRaises, Quiet, Fade, folderVars, Inserts
<1>8. ASSUME NEW j \in DOMAIN jobs, RetryFailedJob(p, j) \/ RetryInterrupted(p, j) PROVE StepKind(p)
  BY <1>8, RetryKind
<1>9. CASE RunnerStep(p)
  <2>1. phase'[p] = phase[p] \/ phase'[p] \in Early
    BY <1>9 DEF RunnerStep, ClaimAndBegin, ServiceInv, ServiceTypeOK, Early
  <2>2. UNCHANGED <<success, failure>>
    BY <1>9 DEF RunnerStep, ClaimAndBegin, folderVars
  <2>3. UNCHANGED jobs \/ Claims
    BY <1>9 DEF RunnerStep, ClaimAndBegin, ClaimNextPendingJob, RunnerReturns, ClaimRaises, Claims,
        Pending, WithStatus
  <2> QED
    BY <2>1, <2>2, <2>3 DEF Quiet, Fade
<1>10. CASE IngestStep(p)
  BY <1>10, IngestKind
<1> QED
  BY <1>1, <1>2, <1>3, <1>4, <1>5, <1>6, <1>7, <1>8, <1>9, <1>10 DEF ServiceNext, ProcessStep
-----------------------------------------------------------------------------
(* The invariant is preserved *)

\* A marker step is one of an ingest whose row is running, and leaves the queue alone.
LEMMA MarkerStepShape ==
    ASSUME NEW p, Instance = {p}, ServiceInv, MarkerStep(p)
    PROVE  /\ Ingesting(p) /\ UNCHANGED <<jobs, cur>>
           /\ cur[p] \in DOMAIN jobs /\ FolderOf(p) \in Folder /\ FolderOf(p)' = FolderOf(p)
<1>1. Ingesting(p) /\ UNCHANGED vars
  BY DEF MarkerStep, ClearFailureMarker, OpenSuccessMarker, TearSuccessMarker, WriteSuccessMarker,
      ClearSuccessMarker, OpenFailureMarker, TearFailureMarker, WriteFailureMarker, Proceed, Advance
<1>2. UNCHANGED <<jobs, cur>>
  BY <1>1 DEF vars
<1> QED
  BY <1>1, <1>2, FolderOfType DEF ServiceInv, FolderOf

LEMMA MarkersExclusiveNext ==
    ASSUME NEW p, Instance = {p}, OutcomeInv(p), StepKind(p)
    PROVE  MarkersExclusive'
<1> USE DEF OutcomeInv, ServiceInv, ServiceTypeOK
<1>1. CASE Quiet(p)
  BY <1>1 DEF Quiet, Fade, MarkersExclusive, BothMarkers
<1>2. CASE Succeed(p) \/ Fail(p)
  BY <1>2 DEF Succeed, Fail, folderVars, MarkersExclusive, BothMarkers
<1>3. CASE MarkerStep(p)
  <2>1. FolderOf(p) \in Folder
    BY <1>3, MarkerStepShape
  <2>2. CASE ClearFailureMarker(p) \/ ClearSuccessMarker(p)
    BY <2>1, <2>2 DEF ClearFailureMarker, ClearSuccessMarker, MarkersExclusive, BothMarkers
  <2>3. CASE OpenSuccessMarker(p) \/ TearSuccessMarker(p) \/ WriteSuccessMarker(p)
    <3>1. failure[FolderOf(p)] = "absent" /\ UNCHANGED failure
      BY <2>3 DEF OpenSuccessMarker, TearSuccessMarker, WriteSuccessMarker, Proceed, Advance, MarkerShape
    <3>2. \A f \in Folder : f # FolderOf(p) => success'[f] = success[f]
      BY <2>3 DEF OpenSuccessMarker, TearSuccessMarker, WriteSuccessMarker
    <3> QED
      BY <3>1, <3>2 DEF MarkersExclusive, BothMarkers
  <2>4. CASE OpenFailureMarker(p) \/ TearFailureMarker(p) \/ WriteFailureMarker(p)
    <3>1. success[FolderOf(p)] = "absent" /\ UNCHANGED success
      BY <2>4 DEF OpenFailureMarker, TearFailureMarker, WriteFailureMarker, Proceed, Advance, MarkerShape
    <3>2. \A f \in Folder : f # FolderOf(p) => failure'[f] = failure[f]
      BY <2>4 DEF OpenFailureMarker, TearFailureMarker, WriteFailureMarker
    <3> QED
      BY <3>1, <3>2 DEF MarkersExclusive, BothMarkers
  <2> QED
    BY <1>3, <2>2, <2>3, <2>4 DEF MarkerStep
<1> QED
  BY <1>1, <1>2, <1>3 DEF StepKind

LEMMA MarkerShapeNext ==
    ASSUME NEW p, Instance = {p}, OutcomeInv(p), ServiceInv', [Next]_vars, StepKind(p)
    PROVE  MarkerShape(p)'
<1>1. CASE phase'[p] \in Early
  BY <1>1 DEF MarkerShape, Early
<1>2. CASE Quiet(p) /\ phase'[p] = phase[p] /\ phase[p] \notin Early
  <2>1. runner[p] = "ingesting" /\ runner'[p] = "ingesting"
    BY <1>2 DEF OutcomeInv, ServiceInv, PhaseShape, Early
  <2>2. FolderOf(p)' = FolderOf(p)
    BY <2>1, CurKept DEF OutcomeInv, ServiceInv
  <2>3. FolderOf(p) \in Folder
    BY <2>1, RowType DEF OutcomeInv, ServiceInv, QueueInv, RunnerShape, RowIngestedOnce, FolderOf
  <2> QED
    BY <1>2, <2>2, <2>3 DEF OutcomeInv, MarkerShape, Quiet, Fade, Unwritten
<1>3. CASE Succeed(p) \/ Fail(p)
  BY <1>1, <1>3, EndIngestIsEarly DEF Succeed, Fail, OutcomeInv, ServiceInv
<1>4. CASE MarkerStep(p)
  <2>1. FolderOf(p) \in Folder /\ FolderOf(p)' = FolderOf(p)
    BY <1>4, MarkerStepShape DEF OutcomeInv
  <2> USE DEF OutcomeInv, ServiceInv, ServiceTypeOK, MarkerShape, Proceed, Advance
  <2>2. CASE ClearFailureMarker(p)
    BY <2>1, <2>2 DEF ClearFailureMarker
  <2>3. CASE OpenSuccessMarker(p) \/ TearSuccessMarker(p)
    BY <2>1, <2>3 DEF OpenSuccessMarker, TearSuccessMarker
  <2>4. CASE WriteSuccessMarker(p)
    BY <2>1, <2>4 DEF WriteSuccessMarker, Unwritten
  <2>5. CASE ClearSuccessMarker(p)
    BY <2>1, <2>5 DEF ClearSuccessMarker
  <2>6. CASE OpenFailureMarker(p) \/ TearFailureMarker(p)
    BY <2>1, <2>6 DEF OpenFailureMarker, TearFailureMarker
  <2>7. CASE WriteFailureMarker(p)
    BY <2>1, <2>7 DEF WriteFailureMarker, Unwritten, FailureIssue
  <2> QED
    BY <1>4, <2>2, <2>3, <2>4, <2>5, <2>6, <2>7 DEF MarkerStep
<1> QED
  BY <1>1, <1>2, <1>3, <1>4 DEF StepKind, Quiet

\* A quiet step leaves the outcome of a row as it was told.
LEMMA ToldFades ==
    ASSUME ServiceTypeOK, Fade, NEW f \in Folder, NEW job, Told(success[f], failure[f], job)
    PROVE  Told(success'[f], failure'[f], job)
BY DEF Told, Fade, Unwritten

LEMMA SettledNext ==
    ASSUME NEW p, Instance = {p}, OutcomeInv(p), [Next]_vars, StepKind(p)
    PROVE  Settled'
<1> USE DEF OutcomeInv, ServiceInv, QueueInv
<1>1. LedgerKept
  BY LedgerKeptNext
<1>2. \A j \in DOMAIN jobs : jobs[j].folder \in Folder
  BY RowType
<1>3. ASSUME NEW j \in DOMAIN jobs, Last(j)' PROVE Last(j)
  BY <1>1, <1>3 DEF Last, LedgerKept
\* A finished row that the step leaves alone, of a folder whose markers fade.
<1>4. ASSUME Fade, NEW j \in DOMAIN jobs, Last(j)', jobs[j].status \notin ActiveStatus, jobs'[j] = jobs[j]
      PROVE  ToldNow(j)'
  <2>1. ToldNow(j)
    BY <1>3, <1>4 DEF Settled
  <2> QED
    BY <1>2, <1>4, <2>1, ToldFades DEF ToldNow
<1>5. CASE Quiet(p) /\ UNCHANGED jobs
  BY <1>4, <1>5 DEF Quiet, Settled
<1>6. CASE Quiet(p) /\ Inserts
  <2>1. PICK f \in Folder : InsertPending(f)
    BY <1>6 DEF Inserts
  <2>2. /\ DOMAIN jobs' = DOMAIN jobs \cup {Len(jobs) + 1}
        /\ \A j \in DOMAIN jobs : jobs'[j] = jobs[j]
        /\ jobs'[Len(jobs) + 1] = NewJob(f)
    BY <2>1, InsertPendingRows
  <2>3. NewJob(f).status \in ActiveStatus
    BY DEF NewJob, ActiveStatus
  <2> QED
    BY <1>4, <1>6, <2>2, <2>3 DEF Quiet, Settled
<1>7. CASE Quiet(p) /\ Claims
  <2>1. PICK j \in DOMAIN jobs : jobs' = MarkRunning(j)
    BY <1>7 DEF Claims
  <2>2. /\ DOMAIN jobs' = DOMAIN jobs
        /\ \A k \in DOMAIN jobs : k # j => jobs'[k] = jobs[k]
        /\ jobs'[j].status = "running"
    BY <2>1, UpdateRowRows DEF MarkRunning, Status, Stage
  <2> QED
    BY <1>4, <1>7, <2>2 DEF Quiet, Settled, ActiveStatus
<1>8. CASE Quiet(p) /\ Recovers
  <2>1. jobs' = RecoveredIn(stale[p])
    BY <1>8 DEF Recovers
  <2>2. /\ DOMAIN jobs' = DOMAIN jobs
        /\ \A j \in DOMAIN jobs : j \notin stale[p] => jobs'[j] = jobs[j]
    BY <2>1, RecoverRows
  <2>3. \A j \in DOMAIN jobs : j \in stale[p] => Interrupted(jobs'[j])
    BY <2>1 DEF RecoveredIn, Recovered, Marked, Interrupted
  <2>4. \A j \in DOMAIN jobs : j \in stale[p] => ToldNow(j)'
    BY <2>3 DEF ToldNow, Told, Interrupted
  <2> QED
    BY <1>4, <1>8, <2>2, <2>4 DEF Quiet, Settled
<1>9. ASSUME NEW s \in {"succeeded", "failed"}, NEW stage, FinishIngest(p, s, stage),
             UNCHANGED <<success, failure>>,
             failure[FolderOf(p)] # "absent" => s = "failed",
             success[FolderOf(p)] # "absent" => s = "succeeded",
             success[FolderOf(p)] \notin Unwritten, failure[FolderOf(p)] \notin Unwritten
      PROVE  Settled'
  <2>1. cur[p] \in DOMAIN jobs
    BY <1>9, IngestedRowExists DEF FinishIngest
  <2>2. /\ DOMAIN jobs' = DOMAIN jobs
        /\ \A k \in DOMAIN jobs : k # cur[p] => jobs'[k] = jobs[k]
        /\ jobs'[cur[p]].status = s
        /\ jobs'[cur[p]].folder = FolderOf(p)
    BY <1>9, <2>1, UpdateRowRows DEF FinishIngest, Status, FolderOf
  <2>3. ASSUME NEW j \in DOMAIN jobs, j = cur[p] PROVE ToldNow(j)'
    BY <1>9, <2>2, <2>3 DEF ToldNow, Told
  <2>4. Fade
    BY <1>9 DEF Fade
  <2> QED
    BY <1>4, <2>2, <2>3, <2>4 DEF Settled
<1>10. CASE Succeed(p)
  BY <1>9, <1>10 DEF Succeed, IngestSucceeds, MarkerShape, folderVars, Unwritten
<1>11. CASE Fail(p)
  BY <1>9, <1>11 DEF Fail, IngestFails, MarkerShape, folderVars, Unwritten
\* The row an ingest writes a marker for is not finished.
<1>12. CASE MarkerStep(p)
  <2>1. Ingesting(p) /\ UNCHANGED jobs /\ cur[p] \in DOMAIN jobs
    BY <1>12, MarkerStepShape
  <2>2. \A f \in Folder : f # FolderOf(p) => success'[f] = success[f] /\ failure'[f] = failure[f]
    BY <1>12 DEF MarkerStep, ClearFailureMarker, OpenSuccessMarker, TearSuccessMarker,
        WriteSuccessMarker, ClearSuccessMarker, OpenFailureMarker, TearFailureMarker,
        WriteFailureMarker, ServiceTypeOK
  <2>3. ASSUME NEW j \in DOMAIN jobs, Last(j), jobs[j].status \notin ActiveStatus
        PROVE  jobs[j].folder # FolderOf(p)
    <3>1. jobs[cur[p]].status \in ActiveStatus /\ Last(cur[p])
      BY <2>1 DEF RunningShape, Ingesting, ActiveStatus, ActiveIsLast
    <3>2. jobs[j].folder = FolderOf(p) => j <= cur[p] /\ cur[p] <= j
      BY <2>1, <2>3, <3>1 DEF Last, FolderOf
    <3> QED
      BY <2>1, <2>3, <3>1, <3>2 DEF TypeOK
  <2> QED
    BY <1>2, <1>3, <2>1, <2>2, <2>3 DEF Settled, ToldNow
<1> QED
  BY <1>5, <1>6, <1>7, <1>8, <1>10, <1>11, <1>12 DEF StepKind
LEMMA OutcomeInvInit ==
    ASSUME NEW p, Instance = {p}, ServiceInit
    PROVE  OutcomeInv(p)
<1>1. ServiceInv
  BY ServiceInvInit
<1>2. DOMAIN jobs = {}
  BY DEF ServiceInit, Init
<1>3. MarkersExclusive
  BY DEF ServiceInit, MarkersExclusive, BothMarkers
<1>4. MarkerShape(p) /\ RunningShape(p)
  BY DEF ServiceInit, Init, MarkerShape, RunningShape
<1> QED
  BY <1>1, <1>2, <1>3, <1>4 DEF OutcomeInv, ActiveIsLast, Settled

LEMMA OutcomeInvNext ==
    ASSUME NEW p, Instance = {p}, OutcomeInv(p), [ServiceNext]_serviceVars
    PROVE  OutcomeInv(p)'
<1>1. ServiceInv' /\ StepKind(p)
  BY ServiceInvNext, StepKinds DEF OutcomeInv
<1>2. [Next]_vars
  BY ServiceNextRefines DEF OutcomeInv, ServiceInv, QueueInv
<1>3. ActiveIsLast' /\ RunningShape(p)'
  BY <1>2, ActiveIsLastNext, RunningShapeNext DEF OutcomeInv, ServiceInv
<1> QED
  BY <1>1, <1>2, <1>3, MarkersExclusiveNext, MarkerShapeNext, SettledNext DEF OutcomeInv

-----------------------------------------------------------------------------
(* The theorems *)

\* The inductive invariant of the markers of a service of one process.
THEOREM OutcomeInvariant ==
    ASSUME NEW p, Instance = {p}
    PROVE  ServiceSpec => []OutcomeInv(p)
<1>1. ServiceInit => OutcomeInv(p)
  BY OutcomeInvInit
<1>2. OutcomeInv(p) /\ [ServiceNext]_serviceVars => OutcomeInv(p)'
  BY OutcomeInvNext
<1> QED
  BY <1>1, <1>2, PTL DEF ServiceSpec

\* No folder ever has both markers: each outcome removes the other's marker
\* before it writes its own, whatever interrupts it.
THEOREM NeverBothMarkers ==
    ASSUME NEW p, Instance = {p}
    PROVE  ServiceSpec => []MarkersExclusive
<1>1. OutcomeInv(p) => MarkersExclusive
  BY DEF OutcomeInv
<1> QED
  BY <1>1, OutcomeInvariant, PTL

\* The latest row of a folder without active rows is last and finished.
LEMMA LatestIsToldNow ==
    ASSUME TypeOK, Settled, NEW f \in Folder, NEW j \in DOMAIN jobs,
           LatestJob(f, j), ActiveJobs(f) = {}
    PROVE  Told(success[f], failure[f], jobs[j])
<1>1. jobs[j].folder = f /\ Last(j)
  BY DEF LatestJob, JobsOf, Last
<1>2. jobs[j].status \notin ActiveStatus
  BY <1>1 DEF ActiveJobs, WithStatus
<1> QED
  BY <1>1, <1>2 DEF Settled, ToldNow

\* The markers of a folder that no job works on tell how its last job ended.
THEOREM MarkersTell ==
    ASSUME NEW p, Instance = {p}
    PROVE  ServiceSpec => []MarkersTellOutcome
<1>1. OutcomeInv(p) => MarkersTellOutcome
  BY LatestIsToldNow DEF OutcomeInv, ServiceInv, QueueInv, MarkersTellOutcome, Told
<1> QED
  BY <1>1, OutcomeInvariant, PTL

\* A marker that is empty or torn belongs to a job that recovery has failed.
THEOREM IncompleteIsInterrupted ==
    ASSUME NEW p, Instance = {p}
    PROVE  ServiceSpec => []IncompleteMarkerIsInterrupted
<1>1. OutcomeInv(p) => IncompleteMarkerIsInterrupted
  BY LatestIsToldNow
     DEF OutcomeInv, ServiceInv, QueueInv, IncompleteMarkerIsInterrupted, Told, Interrupted
<1> QED
  BY <1>1, OutcomeInvariant, PTL

=============================================================================
