SPECIFICATION BenchSpec
CONSTANTS
    none = none
    NoCommand = none
    ResponseTicks = 2
    TwoFrames = 2
    MaxTicks = 2
    RespCap = 3
    Commands <- SomeCommands
    Enables <- AllEnables
    MouseAxes <- XAxis
    Keys = TRUE
    HostActions <- BothResets
    Snapshots <- SomeSnapshots
    MaxCycles = 7
INVARIANTS
    TypeOK
    AnswersAnnounced
    LineFollowsSources
    KeyHasAscii
    ValveBounds
