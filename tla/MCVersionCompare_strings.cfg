SPECIFICATION CompareSpec
CONSTANTS
    Numbers = {0, 1, 2}
    MaxLength = 4
    Strings <- ShortStrings
INVARIANTS
    VersionsTypeOK
    CompareRight
PROPERTIES
    TurnsAdvance
    CompareEnds
CHECK_DEADLOCK FALSE
