\* Two processes on one database: the new one is up before the old one is gone.
SPECIFICATION Spec
CONSTANTS
    Instance = {p1, p2}
    Folder = {f1}
    MaxJobs = 2
    ScanOnStartup = FALSE
    DatabaseFaults = FALSE
    EscapingIngest = FALSE
INVARIANTS
    OneIngestAtATime
