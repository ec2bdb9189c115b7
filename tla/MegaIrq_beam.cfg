SPECIFICATION Spec
CONSTANTS
    LineTicks = 2
    Lines = 4
    VblLine = 2
    ScbLines = 3
    MaxTicks = 3
    QuarterFrames = 1
    SecondFrames = 2
    Oscs = 2
    ScbWritable <- FirstAndBorder
    Snapshots <- NoSnapshots
INVARIANTS
    TypeOK
    BeamSync
    LineLevels
    DocLine
PROPERTIES
    VblExact
    ScanExact
