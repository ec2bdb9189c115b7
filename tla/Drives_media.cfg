SPECIFICATION DrivesSpec
CONSTANTS
    d1 = d1
    d2 = d2
    v0 = v0
    v1 = v1
    Bad = Bad
    Blank = Blank
    NoFile = NoFile
    Cyls = 2
    Disks <- RawPair
    Good <- Values
    Zero = v0
    WriteBack = TRUE
    Mounts <- EitherWay
    Remount = FALSE
    GuestTracks <- CrossTracks
    None = None
    Images <- Mixed
    LastHalf = 2
    Sector <- Sectors
    GuestWrites <- FirstSector
    WritePorts = {13}
    Failures <- FailingHost
    Quiet <- AllButHalf
    Shelves <- Desks
    Garbage = v0
INVARIANTS
    StoppedIsDurable
    SessionUnderHead
    SessionUnderArm
    CleanIsSaved
    SectorsSurvive
PROPERTIES
    ImplementsStore
    SealedUntouched
    OwnerKeepsContents
    SessionLands
CHECK_DEADLOCK FALSE
