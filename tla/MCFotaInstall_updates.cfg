SPECIFICATION Spec
CONSTANTS
    Packages <- NadPackages
    Faults <- UpdateFaults
    MaxInstalls = 2
    MaxRestarts = 1
INVARIANTS
    TypeOK
    StartOnlySynchronized
    SwitchOwnUpdate
    SwitchAccounted
CHECK_DEADLOCK FALSE
