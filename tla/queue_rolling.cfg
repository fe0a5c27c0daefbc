\* Two processes on one database (a rolling update), every fault enabled.
SPECIFICATION Spec
CONSTANTS
    Instance = {p1, p2}
    Folder = {f1, f2}
    MaxJobs = 3
    ScanOnStartup = FALSE
    DatabaseFaults = TRUE
    EscapingIngest = TRUE
SYMMETRY ProcessSymmetry
INVARIANTS
    OneActivePerFolder
    RowIngestedOnce
PROPERTIES
    NoResurrection
