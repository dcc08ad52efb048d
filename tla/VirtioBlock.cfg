SPECIFICATION MCSpec
CONSTANTS
    c1 = c1
    c2 = c2
    c3 = c3
    Queue <- MCQueue
    Chain <- MCChain
    Ret <- MCRet
    Kind <- BlockKind
    Num = 2
    IdxMod = 4
    NbSectors = 3
    Extra = 3
    DataVal = {1, 2}
    UintMod = 5
INVARIANT DiskRight
PROPERTIES
    InOrder
    Answered
