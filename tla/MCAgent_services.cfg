SPECIFICATION AgentSpec
INVARIANTS
    AgentTypeOK
    FlagHeld
PROPERTIES
    StartUpEnds
    CallbacksReturn
CHECK_DEADLOCK FALSE
