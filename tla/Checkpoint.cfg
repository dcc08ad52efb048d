SPECIFICATION MCSpec
CONSTANTS
    CounterBits = 14
    Hpms = {3, 31}
    Pmps = {0, 1, 8}
    simpoint_en_bbv = TRUE
    Xs = {1, 2, 3, 10}
    Fs = {1, 3}
    Value <- MCValue
    Pc <- MCPc
    RTC_FREQ_DIV = 5
    MaxInsns = 2
    MaxBeforeSave = 1
    Sets = 2
    Assoc = 2
    LineSize = 2
    MemBase = 4
    MemEnd = 12
    Access = {3, 4, 5, 6, 8, 10, 12, 13}
    MaxAccess = 5
CHECK_DEADLOCK FALSE
INVARIANTS
    CheckpointRestores
    TraverseIsRecent
PROPERTIES
    BelowMachineConfined
    UnitsTracked
