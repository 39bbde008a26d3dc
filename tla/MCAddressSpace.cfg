CONSTANTS
    NumPages = 26
    PageArrayPages = 1
    Tasks = {1, 2, 3}
    KernelThread = 2
    InitTask = 1
    InitImage <- MCAlignedImage
    Images <- MCImages
    PageUnits = 2
    Fanout = 2
    StackPage = 7
    BrkTargets = {0, 1, 8}
INIT ASInit
NEXT ASNext
INVARIANTS
    ASTypeOK
    UsedPagesCounted
    FramesOwnedOnce
    KpageScanIsFirstFit
