CONSTANTS
    Width = 6
    Height = 2
    Text = {"x"}
    CAP = 3
    Outputs <- MCOutputs
    MaxKeys = 7
    Letters = {"x", "y"}
    MaxLine = 6
SPECIFICATION Spec
INVARIANTS
    ShellTypeOK
    LineMatchesEditor
    LineShown
    ParseMatchesReference
    NamesCompareExactly
    DecimalRoundTrip
CHECK_DEADLOCK FALSE
