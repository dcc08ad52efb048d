SPECIFICATION MCSpec
CONSTANTS
    UserSize = 3
    UserInsn <- UserKind
    Irq <- MCTimerExternal
    Core = {c1, c2}
    RamAddr = {0, 1, 2}
    IoAddr = {8}
    InorderSize = {1, 2}
    OooSize = {1, 2}
    Datum = {0, 1}
    MaxInorder = 3
    MaxInst = 3
INVARIANT InterruptFollowed
CHECK_DEADLOCK FALSE
