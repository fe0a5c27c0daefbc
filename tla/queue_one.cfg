\* One process that keeps being restarted, with the start-up scan enabled: every
\* interleaving of scans, requests, ingests and crashes on two folders.
SPECIFICATION FairSpec
CONSTANTS
    Instance = {p1}
    Folder = {f1, f2}
    MaxJobs = 4
    ScanOnStartup = TRUE
    DatabaseFaults = FALSE
    EscapingIngest = FALSE
INVARIANTS
    TypeOK
    RunningIsOwned
    NoLostWakeup
PROPERTIES
    TerminalIsFinal
    ServedInOrder
    ImplementsWorkQueue
    EveryJobFinishes
    RunnerDrainsQueue
