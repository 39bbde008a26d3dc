CONSTANTS
    VT_INPUT_BUFFER_LENGTH = 4
    Readers = {r1, r2}
    Lengths = {1, 2}
    Scancodes <- MCScancodes
    MaxBurst = 2
    MaxScancodes = 4
SPECIFICATION Spec
INVARIANTS
    TtyTypeOK
    InputFifo
PROPERTIES
    ReadReturnsOnceArrived
CHECK_DEADLOCK FALSE
