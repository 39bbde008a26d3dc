CONSTANTS
    Slots <- MCSlots
    MaxPid <- MCMaxPid
    ExitCodes <- MCExitCodes
    FaultCodes <- MCFaultCodes
    ParentWaitsOnly = TRUE
    QueueSize <- MCQueueSize
    MaxCommands = 2
SPECIFICATION NvmeSpec
PROPERTIES
    StatusOfOwnCommand

