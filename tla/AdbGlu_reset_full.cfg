SPECIFICATION Spec
CONSTANTS
    none = none
    NoCommand = none
    ResponseTicks = 2
    TwoFrames = 2
    MaxTicks = 1
    RespCap = 3
    Commands <- OneByteRead
    Enables <- DataOnly
    MouseAxes <- Nothing
    Keys = FALSE
    HostActions <- CtrlOnly
    Snapshots <- Nothing
    MaxCycles = 5
INVARIANT FullHasData
