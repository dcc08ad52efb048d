SPECIFICATION MCSpec
CONSTANTS
    Hart = {0, 1}
    Source = {1, 2}
    Dw = {1}
    Char = {"a", "C-a", "C-b"}
    MaxTyped = 3
    IerVal = {{}, {"rdi"}, {"rdi", "thri"}, {"msi"}}
    ClintHart = {0}
    Half = 4
    RTC_FREQ_DIV = 2
INVARIANTS
    NotLost
    SignalExact
    PortKeepsUp
    TimerNotEarly
PROPERTIES
    NoDoubleClaim
    TimerFires
