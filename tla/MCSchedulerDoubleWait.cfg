CONSTANTS
    Slots <- MCSlots
    MaxPid <- MCMaxPid
    ExitCodes <- MCExitCodes
    FaultCodes <- MCFaultCodes
    ParentWaitsOnly = FALSE
SPECIFICATION Spec
PROPERTIES
    WaitpidReapsItsTarget
