SPECIFICATION BoardSpec
CONSTANTS
    TopBank = 5
    Populated = 4
    Rom03 = TRUE
    ShadowValues <- GuestShadow
    StateValues <- GuestState
    MaxTrail = 3
    Starts = {0, 36, 870}
    Span = 30
    MaxCycles = 5
    CopyTicks = 20
    f1 = f1
    f2 = f2
    f3 = f3
    None = None
    Images <- BoardImages
    BlockBytes = 2
    Datum = {1}
    Contents <- BoardContents
    MaxBlock = 1
    HardDisks = {f1, f3}
    Floppies = {f1, f2}
    SavePending = FALSE
    Addresses <- Cells
    Radix = 256
    ClockBytes = 2
    SavePeriod = 2
    Bytes = {56}
    HostTimes = {200}
    Snapshots <- ClockSaves
    Accumulators <- AluAccumulators
    Words <- AluWords
    Stacks = {1}
    Indexes = {259}
    Masks <- CpuMasks
    Targets <- CpuTargets
    MaxNest = 2
    MaxSteps = 4
    Ports = {1}
    Commands = {14, 16}
    Letters = {7}
    MaxQueue = 1
    MaxCount = 1
    Moments = {1}
    Disks = {5}
    MaxFileSteps = 4
INVARIANTS
    MapInPlace
    ReadsSeeWrites
    SameScreen
    EnableEarned
    BatteryKept
    WriteThrough
    DecimalExact
    AluWidths
    RegisterRules
PROPERTIES
    MapRestored
    AccessesPhased
    SlowOnGrid
    TransactionsExact
    NoStaleIo
    ReturnsExact
    LoadHonest
CHECK_DEADLOCK FALSE
