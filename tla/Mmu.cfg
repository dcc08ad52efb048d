SPECIFICATION MmuSpec
CONSTANTS
    PMP_N = 1
    AddrBits = 2
    CfgVal <- MCCfgVal
    AddrVal <- MCAddrVal
    PageSize = 1
    TLB_SIZE = 1
    Fanout = 2
    VPage <- MCVPage
    Page <- MCPage
    RamPage <- MCRam
    Root <- MCRoot
    Pte <- MCPte
    MstatusVal <- MCMstatusVal
INVARIANTS
    TlbsCoherent
    WindowCoherent
