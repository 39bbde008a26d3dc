CONSTANTS
    Slots <- MCSlots
    MaxPid <- MCMaxPidForks
    ExitCodes <- MCExitCodes
    FaultCodes <- MCFaultCodes
    ParentWaitsOnly = TRUE
    QueueSize <- MCSmallQueueSize
    MaxCommands = 3
SPECIFICATION NvmeSpec
INVARIANTS
    NvmeTypeOK
    CommandIdUnique
    SqNeverOverfull
PROPERTIES
    CompletionConsumedOnce
    IoEventuallyReturns
