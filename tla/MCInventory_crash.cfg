SPECIFICATION InventorySpec
CONSTANTS
    Versions <- MCVersions
    OemContents <- WholeOrNone
    IoFaults <- CrashFaults
    MaxInstalls = 3
    MaxCrashes = 2
INVARIANTS
    InventoryTypeOK
    OldOrNew
PROPERTIES
    ImplementsDurable
CHECK_DEADLOCK FALSE
