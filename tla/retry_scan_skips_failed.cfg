\* One folder; nothing is changed from outside.
SPECIFICATION ServiceSpec
CONSTANTS
    Instance = {p1}
    Folder = {f1}
    MaxJobs = 2
    ScanOnStartup = FALSE
    DatabaseFaults = FALSE
    EscapingIngest = FALSE
    TornWrites = FALSE
    Edits = {}
    LikeMatch <- OwnFilesOnly
INVARIANTS
    FailedFolderIsRetried
