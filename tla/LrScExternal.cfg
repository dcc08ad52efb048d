SPECIFICATION MCReservation
CONSTANTS
    Hart = {h1, h2}
    Ram <- MCRam
    Mmio <- MCMmio
    NoAddr <- MCNoAddr
    Agent = {dma}
    MaxSeq = 2
    EXP_SIZE = 5
    MANT_SIZE = 9
    WIDE_EXP = 6
    WIDE_MANT = 14
    WORD_SIZE = 8
    IntSize = {8, 16}
    FpVal <- MCVal
    UnaryVal <- MCUnaryVal
    FmaVal <- MCFmaVal
    WideVal <- MCWideVal
    Word <- MCWord
    IntVal <- MCIntVal
    XLEN = 8
    WLEN = 4
    HLEN = 3
    BLEN = 2
    CtzOfZero = {0, 4}
    Operand <- MCOperand
    OneOperand <- MCOneOperand
    Immediate <- MCImmediate
    Word20 <- MCWord20
    FpMode <- MCFpMode
    VLENB = 4
    VREGS = 8
    ByteBits = 4
    PageSize = 4
    Pages = {0, 1, 2, 3, 4, 5, 6}
    Resident = {{}, {2}, {0, 1, 2, 3, 4, 5, 6}}
    MemInsns <- MCMemInsns
    AddInsns <- MCAddInsns
    Configs <- MCConfigs
CHECK_DEADLOCK FALSE
INVARIANT ScSeesExternalAgents
