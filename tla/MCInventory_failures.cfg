SPECIFICATION InventorySpec
CONSTANTS
    Versions <- MCVersions
    OemContents <- Contents
    IoFaults <- AnyIoFault
    MaxInstalls = 3
    MaxCrashes = 1
PROPERTIES
    FailedUpdateKeeps
    CompletedSurvives
CHECK_DEADLOCK FALSE
