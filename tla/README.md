# GregFlix Metadata Service: formal models

TLA+ models of the metadata service in `src/`, TLC configurations that check
them on small instances, and proofs checked by TLAPS. Every definition is
translated from the source; `PROJECT.json` maps each to its lines, lists every
hazard of the code with the properties aimed at it, and names, for every
property, a mutated definition that violates it.

## The system

| Component | State it keeps | Operations |
| --- | --- | --- |
| `app/jobs/runner.py`, `ScanCoordinator` | `_runner_task` (in memory), the rows of `metadata_jobs` | `trigger_scan`, `enqueue_path_job`, `retry_job`, `ensure_runner_started`, `_run_queue`, `recover_stale_running_jobs` |
| `app/jobs/queue.py`, `JobQueue` | scan flag, two locks | `begin_scan`, `end_scan`, `runner_lock` (the `asyncio.Queue` in it is unused) |
| `app/main.py`, `lifespan` | the objects of one process | schema gate, recovery, optional start-up scan |
| `app/services/scanner.py` | none; reads markers and Postgres, writes `metadata_issue` | `scan_all`, `_scan_child` |
| `app/services/marker_files.py` | `gf-meta-tag`, `gf-meta-failed` in each folder | detect, read, write |
| `app/services/metadata_ingester.py` | catalog tables, issues, markers, the status of its job | `ingest` |
| `app/services/provider_matching.py` | none | `score_candidates`, `select_best_candidate` |
| `app/api/*.py` | none | requests for scans, retries, paths, entities; read-only endpoints |
| `app/services/image_store.py`, `local_assets.py`, the views of migration 0006 | the image files, shared by the folders of an entry; `artwork_asset` | download, discover, copy, the artwork that the views show |
| `alembic/versions` | the tables of an earlier release | the backfill of 0002, the documents of 0005 |
| `tmdb_client`, `filename_parser`, `search_repository`, `config`, `migrations` | search documents | helpers of the above |

How they interact. A process is one asyncio event loop. Request handlers that
change state and the runner are coroutines on it, and all database and file
calls are synchronous: a handler runs from its first line to its last without
another in between. `ingest` gives up the loop only while it awaits TMDB.
Concurrency is therefore (1) between a handler and the runner suspended in an
ingest, (2) between processes that share the database, which a rolling update
of `deploy/k8s/deployment.yaml` produces, (3) with a crash between any two
commits or file operations, and (4) with people who move folders, close issues
and restore databases.

What is hard, and what makes each part correct:

* **Queue.** Wakeups are not lost though the runner ends when the queue is
  empty; one active row per folder though the select and the insert are apart;
  recovery finds exactly the rows that nobody runs; outcomes are written once;
  every row is eventually finished.
* **Scanner and ingester.** Markers, job rows, issues and the catalog are four
  records of one outcome that no transaction spans, and a marker is truncated
  first and written later. A folder never has both markers, markers agree with
  the last job, an incomplete marker belongs to an interrupted one, a success
  marker is only completed once the catalog is committed, and no folder is left
  unsettled.
* **Matching.** The code looks at two results after a sort. What it selects
  must lead all of them, and the issue it records must be true of all of them.
* **Catalog upsert.** One transaction per ingest over eight tables, in a session
  that does not autoflush: a select does not see what the session has added
  and not flushed. Roots of trees have no unique constraint, yet two processes
  must not make two; the legacy and the canonical tables must list the same files
  and images; identifiers must never change; every entity must be searchable. All of
  it must also hold on what the migration of an older database leaves behind, and
  for files that two ingests write at once: nothing locks a folder across processes.
* **Artwork.** Image files are written before the transaction and belong to
  none; rows are rewritten but never deleted; people change folders while an
  ingest awaits the provider, and operators the preference. A row must have its
  file, what was just ingested must be whole, and of the rows an ingest writes the
  views must show those that the current preference asks for, each of the entity it
  belongs to. Rows that it does not write keep their flags and may still be shown.

## Modules

| Module | Role |
| --- | --- |
| `JobQueue` | `metadata_jobs` and the `ScanCoordinator` of each process: the core |
| `WorkQueue` | abstract specification of the queue of one process |
| `MetadataService` | extends `JobQueue` with folders, markers, issues, the catalog flag and the statements of `ingest` |
| `CatalogData` | the rows one ingest writes, as a function of the provider's answer and the folder |
| `Backfill` | the tables an earlier release has filled, as migration 0002 leaves them |
| `Catalog` | abstract specification of a catalog of whole ingests, one after the other, with one reservation for files that two of them write; it knows nothing of this schema |
| `CatalogUpsert` | `_upsert_database`, statement by statement, in the transactions of several processes |
| `Artwork` | downloads, copies, `artwork_asset` and the views that show it |
| `ProviderMatching` | the searches, the score and the selection |
| `MCJobQueue`, `MCMetadataService`, `MCCatalogUpsert`, `MCArtwork`, `MCProviderMatching` | instances for TLC |
| `JobQueueProofs`, `MetadataServiceProofs` | theorems on the queue and the service, first for any number of processes, then for one; the refinements of `WorkQueue` and `JobQueue` |
| `CatalogProofs`, `CatalogEntityProofs`, `CatalogFileProofs` | theorems on the catalog's lock, identities, entities, search documents and files |
| `CatalogRefinementProofs` | the refinement of `Catalog` |
| `ArtworkProofs`, `ProviderMatchingProofs` | theorems on artwork and on matching |

Operators that begin with the comment "Mutant of ..." are variants that a
plausible bug would give. No specification uses them; they show that a
property depends on the code.

### JobQueue

`jobs` is the table, oldest row first: a row's identifier is its place in
`(created_at, id)`, the order of the claim. `app[i]` is how far process `i` is
in its life, `runner[i]` the state of `_runner_task`, `cur[i]` the row it is
ingesting, `todo[i]` what a scan in progress has still to insert and `stale[i]`
what recovery has read and not yet written.

| Code | Action |
| --- | --- |
| `recover_stale_running_jobs` | `SelectStaleRunningJobs`, `FailStaleRunningJobs` (another process may write in between) |
| `lifespan` without a scan | `StartWithoutScan` |
| `trigger_scan` | `ScanBegin`, a `ScanCreate` per candidate (each commits), `ScanEnd` or `ScanRaises` |
| `enqueue_path_job`, `retry_job` | `EnqueuePathJob`, `RetryJob`, `RequestRaises` |
| `_run_queue`, `_claim_next_pending_job` | `ClaimNextPendingJob`, `RunnerReturns`, `ClaimRaises` |
| the end of `ingest` | `IngestSucceeds`, `IngestFails`, `IngestRaises` |
| crash, kill, shutdown | `Crash` |

A request that finds an active row returns it and changes nothing: it is a
stutter. A recovery that selected a row can write it after another process
has finished it, and an ingest writes its status over whatever the row has
become; both are modelled, as is `FOR UPDATE SKIP LOCKED`, by which a claim
passes over the rows other claims hold.

Abstracted: retry counts, requesters, job types, timestamps; the order of
`todo` (sorted directories) is arbitrary. "Scan already in progress" is not
reachable: `trigger_scan` awaits nothing between `begin_scan` and `end_scan`
but an uncontended lock, so in one loop no second scan can meet the flag set.
A count of pending rows that another process has emptied since the insert has
the effect of `RequestRaises`. The status `cancelled` is never written by the
code and never occurs.

### MetadataService

The whole service. Every step of the queue is a step of `JobQueue` conjoined
with what happens to the folder. `phase[i]` names the next statement of the
ingest. Between its last await and the next claim no other handler of its
process runs (`Suspended`), but `ServiceCrash` and the edits may come between
any two phases.

| Code | Action |
| --- | --- |
| `scan_all`, `scan_library`, `scan_folder`, `_scan_child` | `StartupScan`, `RequestedScan` via `Queued` and `ScanIssues`; `ScanAborts` when a marker cannot be read |
| `index_path`, `retry_path`, `refresh_*` | `TriggerPath` |
| `POST /jobs/{id}/retry` | `RetryFailedJob` (also with a database error after the marker is removed), `RetryInterrupted` (crash after the marker is removed) |
| `ingest`, try block | `UpsertDatabase`, `ClearFailureMarker`, `OpenSuccessMarker`, `TearSuccessMarker`, `WriteSuccessMarker`, `Succeed` |
| no candidate selected | `RecordMatchIssue` |
| another exception | `IngestError`, `RecordFailureIssue` |
| except block | `ClearSuccessMarker`, `OpenFailureMarker`, `TearFailureMarker`, `WriteFailureMarker`, `Fail`, or `IngestEscapes` |
| outside the code | `MoveFolder`, `CloseIssue`, `LoseCatalog` |

A marker is absent, empty (opened or truncated and not yet written), torn (written
up to somewhere inside an entry) or complete. `read_marker_file` takes an empty one
for a mapping without references and raises on a torn one: the exception ends the
scan, or the whole start-up, for every folder of every library until the file is
removed or its folder ingested again. A file cut off exactly between two entries reads like a marker
that lacks the later references and is not told apart from an empty one. A
complete failure marker is identified by the issue it refers to; the catalog
is one flag per folder; the three types of match issues are one.

All decisions of one scan are taken in one step: no other handler of its process
can run in between, and the writes of `_scan_child` are issues only. `LikeMatch`
names the folders whose paths match another's LIKE prefix, in which `_` and `%` of
a folder name are wildcards.

### ProviderMatching

Scores are integers in units of 1/10000, component scores hundredths, so a
weight of 0.45 is the factor 45. The title similarity is a constant set, the
popularity a set of integers; a result always has a rank of at most 20, as
TMDB's first page has. The code subtracts floats: at a difference of exactly the delta
the comparison may go either way, and both `MayBeTooClose` and `MayBeClear`
allow it.

### CatalogUpsert

`db` is the committed database: a function from keys to values, where a key
is what a unique constraint makes unique and a value the columns that refer to
other rows. `own[i]` holds what process `i` has flushed and not committed,
`session[i]` the rows its session has yet to flush, each with what a select
found when it was added. Entities are named by the root of their tree and
their node, as the unique indexes on children make them; roots get fresh
identifiers.

| Code | Action |
| --- | --- |
| `_get_or_create_media_item` | `Begin` (select), `FlushMediaItem` |
| `_upsert_media_files` | a `SelectFile` per file, written by `FlushRoot` |
| `_upsert_media_images`, `_get_or_create_root_entity` | the selects in `FlushMediaItem`, written by `FlushRoot` |
| `_get_or_create_child_entity`, `_upsert_provider_identity` | `SelectChild`, `FlushChild`, `FlushChildIdentity`; `SelectRootIdentity` |
| `_upsert_entity_aliases`, `_upsert_artwork_assets`, `_upsert_local_artwork_assets` | `FlushRootIdentity`, written by `Commit` |
| `_upsert_canonical_media_files` | a `SelectFile` per file, written by `Commit` |
| `refresh_search_documents` | `RefreshSearchDocuments` |
| `session.commit`, `IntegrityError` in a flush, any other error or the end of the process | `Commit`, `Violate`, `RollBack` |

What Postgres and SQLAlchemy do is modelled from how the code relies on it: a
flush inserts what was not found and updates what differs (`metadata_fetched_at`
always differs); a write waits for the transaction that has written its key
(`MayWrite`); an insert of a key that exists by then, or that the session holds
twice, fails (`Violates`). A flush and the selects that follow it are one step
where they select rows of the entry, which the flush of the media item has locked.
Files are not locked by it, and each is a select of its own: any process may begin
any folder at any time. Two can be in one folder after a recovery that overlaps with
an ingest (`rolling_update_overlap`), and `POST /scans?path=` takes a directory
inside a folder for one of its own, so folders may have files in common, with
numbers that are read differently in each.

If two such processes ingest for different entries, a row that the later one finds
unchanged is not written and locks nothing. After that the legacy row of a file may
name one entry and its canonical row an entity of the other, until the folder is
ingested again. `FilesAgree` and `ImplementsCatalog` say exactly this much: both
layouts have the same files; images and everything else are those of one ingest after
the other; and a file's row may be left as an ingest has written it that committed
after this one had locked its entry. The history variable `contested` records these
files. Ingests that do not overlap leave both layouts in agreement.

The initial database is new, or one that an earlier release has filled and the
migrations have carried over: `Legacy` says what was ingested, `Migrated` (in
`Backfill`) what 0002 makes of it, `WithDocuments` what 0005 adds. The migration
differs from the ingester in ways that the ingester has to make good: children
have no identity, all images belong to the root, and specials are episodes. It
fails by `uq_entity_alias` where a title and an original title normalise to one alias
(`Migrates`), and with it the schema check of every start after it.

`ImplementsCatalog` is a refinement of `Catalog`, in which an ingest is one
assignment of its rows over those that are there, but for rows of files (`Shared`)
that another ingest has written since it began (`left`). The mapping names trees by
their entries instead of by the identifiers of their roots, and leaves search
documents out, since they lag behind by one ingest; by how much is what
`AliasesReachSearch` says.

Left out: titles and other plain columns, the evidence rows (only ever added), the
match candidates (written by an earlier transaction).

### Artwork

One film or series. `store` says of every stored path whether its file is absent,
torn or whole, `rows` is `artwork_asset`, `present` the local artwork in the
folders, `preference` the configuration of the running process; `work` and `left`
are the locals of the ingest. A stored path gives away source, role and node, as
the paths of `ImageStore` do.

| Code | Action |
| --- | --- |
| `discover_local_assets`, the list of images | `Begin` |
| `_download_images`, `download_tmdb_image` | `DownloadImage` per image, in order; `ImagesDownloaded` |
| `_copy_local_artwork`, `copy_file` | `CopyFile` per file, in order: a target that exists is left alone |
| `_upsert_artwork_assets`, `_upsert_local_artwork_assets`, `session.commit` | `Commit`, unless two new rows have one path |
| a failure or the end of the process at any statement | `Interrupt`, which may leave the current file torn |
| outside the code | `EditFolder`, `Reconfigure` (a restart with another preference) |
| `catalog_card_view`, `media_detail_view`, `series_episode_view` | `Slot`, `Shown`: what `ORDER BY is_preferred DESC, fallback_rank, created_at` may put first |

A row that existed keeps its `created_at`; nothing deletes rows or files. The node of
an image is read back from its path (`NodeFound`), which fails for the code of an
episode with a number above 99 (`Readable`): such a still goes to the root, as one of
an entity that the provider does not list. The initial database is new or has the rows of the backfill, which gave every image
to the root. Left out: the regular expressions that read a role off a file name,
and sidecar files, which only become evidence.

## Runs

| Run | Checks | Instance |
| --- | --- | --- |
| `queue_one` | `TypeOK`, `RunningIsOwned`, `NoLostWakeup`, `TerminalIsFinal`, `ServedInOrder`, `ImplementsWorkQueue`, `EveryJobFinishes`, `RunnerDrainsQueue` | one process, 2 folders, 4 rows, start-up scan, fairness |
| `queue_rolling` | `OneActivePerFolder`, `RowIngestedOnce`, `NoResurrection` | 2 processes, 2 folders, 3 rows, every fault |
| `service_one` | `ServiceTypeOK`, `MarkersExclusive`, `MarkersTellOutcome`, `IncompleteMarkerIsInterrupted`, `SuccessAfterCatalog`, `ImplementsJobQueue` | one process, one folder, 3 rows, every fault, torn writes and every edit |
| `service_fair` | `EveryFolderIsSettled` | one process, 2 folders of which one aliases the other under LIKE, 3 rows, torn writes, fairness |
| `matching` | `MatchTypeOK`, `SelectionIsClear`, `IssueIsTrue`, `EpisodesAreSeries` | answers of up to 2 results each, the shipped threshold and delta |
| `catalog` | `CatalogTypeOK`, `EntitiesAreIdentified`, `FilesAgree`, `EntryIsLocked`, `EntitiesAreSearchable`, `AliasesReachSearch`, `IdentityIsStable`, `ImplementsCatalog` | 2 processes, a folder of a show and the season inside it, which share a file, a film and the show as answers, endless ingests and re-matches, both processes in one folder or in both, rollbacks at every statement, on a migrated database (a new one is the initial database of the two runs with a violation) |
| `artwork` | `ArtworkTypeOK`, `AssetsAreStored`, `CommittedArtworkIsWhole`, `PreferenceIsHonoured`, `PosterIsOfItsEntity` | 2 folders of one series, 2 local posters with one stored path, 2 answers, 2 committed ingests and any number of interrupted ones, all preferences, on a new and on a migrated database |

Five runs end in a violation. Each checks one statement of the repository's
documentation against what the code does (`findings` quotes the lines):

| Run | Statement | What happens |
| --- | --- | --- |
| `rolling_update_overlap` | exactly one metadata job at a time | two processes of a rolling update ingest at once |
| `pending_after_restart` | the queue is durable | after a restart without a start-up scan nothing starts the runner for rows that are pending |
| `retry_scan_skips_failed` | failed folders can be retried with `retry_failed=true` | a folder whose job a crash interrupted has no marker, and the scan takes it for settled |
| `search_without_aliases` | search documents include aliases and are refreshed | the refresh runs before the aliases are flushed, so the document has only those of earlier ingests |
| `local_artwork_collision` | poster, cover and folder images are stored | two of them in one folder have one stored path, and every ingest of the folder fails |

Seen while modelling, against statements of the repository's README, without a run of
their own: files of specials (season 0) are attached to the series by the ingester,
and to the episode by the migration only ("Episode files point to episode entities",
README.md:204); the still that the ingester stores has a role that
`series_episode_view` does not look for ("with still image reference",
README.md:141), in which only local artwork is ever shown; rank and popularity are
"tie-breakers" (README.md:104) that with the shipped delta never break a tie, since
two results that differ in nothing else are always ambiguous
(`RankAndPopularityNeverDecide`).

Seen as well, where the repository says nothing: an exception without a message
leaves a failed job without stage and reason; a reprocessing scan reports a current
success marker as stale; a title that differs from the original title in case only
fails the ingest, or the migration, by `uq_entity_alias`; an answer that lists one
result twice fails by the unique key of the match candidates; an image that was
copied in part is never copied again; nothing closes an issue.

Bounds. `MaxJobs` bounds the rows ever inserted and is the only unbounded
thing of the queue; a folder's history of failure, retry, crash and success needs
three rows, and an older row of one folder among rows of the other four. Folders
interact through the order of the queue, the set `todo` and their names as LIKE
patterns only, hence two; in `service_one` they interact in no other way than in
`queue_one`, hence one. Two processes are what a rolling update of one replica
makes. In `catalog` nothing needs a bound: ingests only insert and update rows of
known keys, and the identifiers in `RootId` are more than two entries and two
processes can use. Two folders can meet in one entry, be re-matched across two, or
share a file, and the show's tree that the migration leaves with a special gets the
season and the episode of the provider. In `artwork` `MaxIngests`
counts commits only: the first makes rows or finds those of the migration, the
second meets them with another folder, answer or preference; the two files compete
with a provider image for a view, are of a season the provider does not know, and fail
the commit when both are new (`Collides`). Two results per answer give four results, more than the two the
selection looks at. Processes are interchangeable in `queue_rolling` and `catalog`,
and symmetry is used there.

Fairness, as `JobQueue` states it. The handler that has begun runs to its end,
and start-up does (weak fairness). The ready queue of the event loop is
first-in first-out, so the runner gets its turn though handlers keep
arriving and disable it for a while (strong fairness of `RunQueue`). Every
await of an ingest is an httpx call with a timeout of 30 or 60 seconds, so it
ends (strong fairness of `Ingest`). The orchestrator restarts a process.
Requests and scans are never assumed to come. Both liveness properties on
whole rows or folders are conditional on crashes that stop;
`EveryFolderIsSettled` is conditional on staying below `MaxJobs`, for at the
bound a scan cannot begin. `RunnerDrainsQueue` has no such condition.

## Proofs

**`JobQueueProofs`**, for any set of processes and folders, any bound and every
fault. `QueueInv` joins type correctness, `OneActivePerFolder`, the shape of a
runner (a process is ingesting exactly if it has a current row, a process that
is not serving has none) and `RowIngestedOnce`. It is inductive as a whole only:
that a claim takes a row nobody ingests needs that rows being ingested are not
pending, which needs that late writes and recoveries only write rows
that have been claimed. Theorems: `TypeCorrect`, `OneActiveJob`,
`ClaimIsExclusive`, `FinishedStaysFinished`.

The rest of **`JobQueueProofs`** is for one process without exceptions that escape
(`OneProcess`), with crashes. `OneInv` adds to `QueueInv` that what recovery
selected is still what is running, that after recovery a row is running exactly
if the runner ingests it, and that a serving runner that returned left nothing
pending. Theorems: `RunningRowIsOwned`, `WakeupIsNotLost`, `OutcomeIsFinal`,
`FirstInFirstOut`, and `ServiceIsWorkQueue`: every step of the service is a
step of `WorkQueue` or a stutter under the mapping of `JobQueue`. With several
processes the first-in first-out order is false, because of `SKIP LOCKED`.

**`ProviderMatchingProofs`**, for every folder, answers of any length up to a
page, and every threshold and delta. `MatchInv` adds that scores are those of
the results. Theorems: `MatchTypeCorrect` (a confidence is between 0 and 1),
`SelectedLeadsAll`, `IssueTellsTruth`; `EpisodesMatchSeries` for thresholds
above 0.65, and `RankAndPopularityNeverDecide` for deltas above 0.0485. The
shipped 0.72 and 0.05 satisfy both, the second narrowly. It is proved and not
checked: the few popularities of a run come nowhere near the edge.

**`MetadataServiceProofs`**, for any number of processes and folders and every
fault. First `ServiceIsJobQueue`: every step of the composed service is a step of
`JobQueue` or leaves the queue alone, so all theorems of `JobQueueProofs` hold of the
service. `ServiceInv` adds the type of the folders' state and that a process is
at a statement of `ingest` exactly while its runner ingests. From it
`ServiceTypeCorrect` and `SuccessFollowsCatalog`.

The rest of **`MetadataServiceProofs`** is for one process, with crashes, torn
writes, every fault of the database and the share, and folders and issues that people change. Neither
`MarkersExclusive` nor `MarkersTellOutcome` is inductive. `OutcomeInv` adds that an
active row is the last of its folder, that the markers of a folder whose last row
is finished tell its outcome, which markers exist at each statement between the
first marker operation and the status write, and that recovery and the runner only write
rows that are running. Theorems: `NeverBothMarkers`, `MarkersTell`,
`IncompleteIsInterrupted`.

**`CatalogProofs`**, for any number of processes, answers, folders and migrated
databases. `LockInv`: no two transactions hold writes to one row, and a
transaction that has written anything holds its media item; hence `EntryLock`,
the flush of the media item is a lock on the entry. `TreeInv` rests on it: the
identities of an entry, in the database and in the transaction that ingests it,
belong to one tree, and the root a transaction has looked up is still the one
that is committed, for nobody else can have committed another. Hence
`StableIdentities`.

**`CatalogEntityProofs`** rests on both. `EntityInv` says that entries have roots of
their own, in the database and among open transactions; that an identity has its
entity in the same table; that the entities of a transaction are its root, the
children it is done with and the one it is at; and that children it is done with
are identified. It holds initially because the migration gives an identity to
every root and to no child. Hence `IdentifiedEntities`, which no unique
constraint of the schema gives. `SearchInv` follows a transaction's aliases and
documents: the aliases stay in the session until the commit, the refresh leaves a
document for every entity the provider lists, and as roots are not shared, nobody
commits an alias of these entities between the refresh and the commit. Hence
`SearchableEntities` and `SearchedAliases`.

**`CatalogFileProofs`** adds `FilesInv`, which follows the files and images of a
folder: their legacy rows are flushed with the root, their counterparts stay in the
session until the commit, and a row a transaction does not write is in the
database. A row of the entry is there as the transaction wants it and stays so, since
the entry is locked; a row of a file need not be, as nothing keeps another process
from its folder, but then it is `contested`. Either way it exists, in both
layouts, and refers to entities that exist. Hence `CatalogTypeCorrect` and
`LayoutsAgree`.

**`CatalogRefinementProofs`** shows that interleaved transactions amount to ingests
one after the other: `IngestsAreSerial`, and `CatalogRefined` (`Spec => Abstract!Spec`).
Two arguments meet in it.

1. A commit leaves the rows of its ingest in the database, and no others of its own.
   `RowsInv` says that what a transaction holds are rows of its ingest with the root
   it has looked up, that it has written the entities it is done with, that the rows
   it keeps to the commit are in its session or in the database already, and that
   every entity and alias belongs to a tree some identity roots. A row that it does
   not write is in the database as the ingest wants it, unless it is of a contested
   file: that is `FilesInv` for files and images, the lock for the entry's own rows.
   The contested ones are what the ingest leaves (`left` in `Catalog`). `RowsUnique` and `MigratedUnique`
   add that an ingest and a migration have one value for each key once the last turn
   counts.
2. The names are those of the abstract catalog. `Legible` says that every row
   refers to entities of trees that exactly one entry roots, so that renaming roots
   to entries loses no row and merges none (`NamedTable`), and a commit keeps the
   names that are there (`NamesStay`). Hence a commit, seen by names, is one `Upsert` (`CommitUpserts`),
   and a migration into trees with identifiers is one into trees with names
   (`CatalogInitView`).

**`ArtworkProofs`**, for any artwork, folders and answers. `ArtworkInv` adds to the
type that the images downloaded so far are whole and the files copied so far
stored, which is what makes `AssetsAreStored` inductive and gives
`CommittedIsWhole`. `PreferenceDecides` and `PosterFindsEntity` are about the commit
alone: what is preferred, and of which entity, is decided anew for every row it
writes.

Assumptions on constants are `MaxJobsAssumption` and `ConfigAssumption` (queue),
`TornWritesAssumption`, `EditsAssumption` and `LikeMatchAssumption` (service),
`DataAssumption`, `PageAssumption` and `MatchingAssumption` (matching),
`DetailAssumption`, `FolderAssumption`, `LegacyAssumption` and `RootAssumption` (catalog),
`DetailAssumption`, `ImageAssumption`, `FileAssumption` and `BoundAssumption` (artwork); TLC
evaluates them in every run. `RootAssumption`, that there are enough identifiers for
the roots of a migrated database, stands for an unlimited supply of UUIDs.

Only model-checked: all liveness properties (`EveryJobFinishes`,
`RunnerDrainsQueue`, `EveryFolderIsSettled`), which are out of the prover's reach,
and what the runs with a violation refute.

## Not modelled

Path validation, the schema gate and the DDL of the migrations, the filename
parser, match candidates and evidence, logging and configuration files, and the
read-only endpoints. `PROJECT.json` gives the reason for each. Endpoints declared
with `def` run in a thread pool, but only read.

## Plan

1. Paths: `_validated_library_folder` against the unmapped `path=` of scans, which can
   give a season folder a job, a lock key and markers of its own, inside those of its
   series. `CatalogUpsert` has such folders; the queue and the markers treat them as
   any others.
2. Composition of `ProviderMatching` with the ingest, as the guard of
   `UpsertDatabase` and `RecordMatchIssue`, and the match candidates.
3. The schema gate across a rolling update.
