SPECIFICATION FileSpec
CONSTANTS
    Ports = {1}
    Commands = {9, 14, 16, 192}
    Letters = {7}
    MaxQueue = 3
    Moments = {1, 2}
    Disks = {5}
    MaxCount = 2
    MaxFileSteps = 5
PROPERTY
    FailedLoadIntact
CHECK_DEADLOCK FALSE
