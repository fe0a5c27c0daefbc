\* Two folders, the start-up scan and crashes; nothing is changed from outside.
SPECIFICATION FairServiceSpec
CONSTANTS
    Instance = {p1}
    Folder = {f1, f2}
    MaxJobs = 3
    ScanOnStartup = TRUE
    DatabaseFaults = FALSE
    EscapingIngest = FALSE
    TornWrites = TRUE
    Edits = {}
    LikeMatch <- Aliasing
PROPERTIES
    EveryFolderIsSettled
