SPECIFICATION LifeSpec
CONSTANTS
    Packages <- LifePackages
    Faults <- LifeFaults
    Built <- AnyBuild
    MaxInstalls = 2
    MaxRestarts = 3
PROPERTIES
    DeployedTakenDown
    ResumeEnds
    ImplementsContract
INVARIANTS
    LifeTypeOK
    RollbackRestores
    ResumeWaitWatched
CHECK_DEADLOCK FALSE
