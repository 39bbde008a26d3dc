CONSTANTS
    Width = 2
    Height = 2
    Vts = {1, 2}
    Tty1 = 1
    Text = {"x"}
    Writes <- MCWrites
    FaultMessage <- MCFaultMessage
    MaxWrites = 4
SPECIFICATION Spec
INVARIANTS
    TtyOutTypeOK
    ScreenStaleOnlyIfFlagged
