SPECIFICATION MCSpec
CONSTANTS
    PMP_N = 3
    AddrBits = 2
    CfgVal <- MCCfgVal
    AddrVal <- MCAddrVal
    Irq = {1}
    Pc = {0, 1}
    Tvec = 1
    MstatusVal <- MCMstatusVal
INVARIANT NoNestedInterrupt
PROPERTIES
    LockedStaysPut
    MachineDenialIsForever
    ReturnRestores
