SPECIFICATION InventorySpec
CONSTANTS
    Versions <- MCVersions
    OemContents <- WholeOrNone
    IoFaults <- NoFaults
    MaxInstalls = 0
    MaxCrashes = 0
PROPERTIES DataFollowsOem
CHECK_DEADLOCK FALSE
