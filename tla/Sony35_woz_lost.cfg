SPECIFICATION Spec
CONSTANTS
    d1 = d1
    d2 = d2
    v0 = v0
    v1 = v1
    Bad = Bad
    Blank = Blank
    NoFile = NoFile
    Cyls = 2
    Disks <- OneWoz
    Good <- Values
    Zero = v0
    WriteBack = TRUE
    Mounts <- Writable
    Remount = FALSE
    GuestTracks <- CrossTracks
INVARIANT
    StoppedIsDurable
