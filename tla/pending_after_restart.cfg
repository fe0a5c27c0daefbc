\* The deployed configuration: one process, no start-up scan.
SPECIFICATION FairSpec
CONSTANTS
    Instance = {p1}
    Folder = {f1}
    MaxJobs = 2
    ScanOnStartup = FALSE
    DatabaseFaults = FALSE
    EscapingIngest = FALSE
PROPERTIES
    EveryJobFinishes
