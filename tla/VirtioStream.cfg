SPECIFICATION MCSpec
CONSTANTS
    c1 = c1
    c2 = c2
    Queue <- MCQueue
    Chain <- MCChain
    Kind <- StreamKind
    Device <- MCStream
    Num = 2
    IdxMod = 4
    DescIdx = {0, 1, 2}
    Addr = {0, 1, 2, 3, 4}
    Ram = {0, 1, 2, 3}
    PageSize = 2
    MaxLen = 3
    MAX_QUEUE = 2
    MAX_QUEUE_NUM = 4
    HalfRange = 2
    Ring = {"desc", "used"}
    NumVal = {0, 2, 3}
    SelVal = {0, 1, 2}
    Room = 6
    Button = {0, 1}
INVARIANTS
    NewsSignalled
    CopiesSlice
    DriverReadsBack
    ButtonsTold
SYMMETRY MCSymmetry
