CONSTANTS
    Slots <- MCSlots
    MaxPid <- MCMaxPid
    ExitCodes <- MCExitCodes
    FaultCodes <- MCFaultCodes
    ParentWaitsOnly = TRUE
SPECIFICATION Spec
INVARIANTS
    TypeOK
    TaskListConsistent
PROPERTIES
    StarvationFree
