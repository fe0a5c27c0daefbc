\* One process and one folder, with every fault, every crash and every edit from outside.
SPECIFICATION ServiceSpec
CONSTANTS
    Instance = {p1}
    Folder = {f1}
    MaxJobs = 3
    ScanOnStartup = TRUE
    DatabaseFaults = TRUE
    EscapingIngest = TRUE
    TornWrites = TRUE
    Edits = {"folders", "issues", "catalog"}
    LikeMatch <- OwnFilesOnly
INVARIANTS
    ServiceTypeOK
    MarkersExclusive
    MarkersTellOutcome
    IncompleteMarkerIsInterrupted
PROPERTIES
    SuccessAfterCatalog
    ImplementsJobQueue
