SPECIFICATION Spec
CONSTANTS
    LineTicks = 2
    Lines = 2
    VblLine = 1
    ScbLines = 1
    MaxTicks = 1
    QuarterFrames = 1
    SecondFrames = 2
    Oscs = 1
    ScbWritable <- LineZero
    Snapshots <- SomeSnapshots
INVARIANT DocLine
