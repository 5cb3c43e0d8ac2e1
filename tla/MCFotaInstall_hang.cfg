SPECIFICATION Spec
CONSTANTS
    Packages <- IocPackages
    Faults <- NoFaults
    MaxInstalls = 1
    MaxRestarts = 0
PROPERTIES InstallReturns
CHECK_DEADLOCK FALSE
