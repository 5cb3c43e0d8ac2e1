SPECIFICATION Spec
CONSTANTS
    Packages <- ReportedPackages
    Faults <- WaitFaults
    MaxInstalls = 3
    MaxRestarts = 1
INVARIANTS
    WaitWatched
PROPERTIES
    CancelOnlyAfterOwnTimer
    InstallReturns
CHECK_DEADLOCK FALSE
