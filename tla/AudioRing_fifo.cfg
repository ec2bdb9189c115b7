SPECIFICATION Spec
CONSTANTS
    quiet = quiet
    loud = loud
    soft = soft
    Size = 4
    Wrap = 8
    Prefill = 1
    Base = 2
    Nudge = 1
    Low = 1
    High = 2
    Periods <- OneOrTwo
    Silence = quiet
    Waves <- TwoWaves
INVARIANTS
    TypeOK
    NoRace
PROPERTY
    ImplementsQueue
