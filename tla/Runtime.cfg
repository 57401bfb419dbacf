CONSTANTS
    Signals = {2, 15}
    ExitCodes = {37}
    Dirs = {d1, d2}
    MaxKids = 2
SPECIFICATION FairSpec
CHECK_DEADLOCK FALSE
INVARIANTS
    TypeOK
    StatusReported
    NothingOutlives
    NoOrphan
    SignalsKept
    RootIsExpected
PROPERTIES
    LauncherDeathEndsAll
    EndIsReported
    SignalsArrive
    OrphansReaped
