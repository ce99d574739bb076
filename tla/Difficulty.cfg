CONSTANTS
    Base = 4
    Size = 9
    MaxExp = 20
    Pow <- MCPow
    MaxAttainable <- MCMaxAttainable
    NoRetargeting = FALSE
    DigishieldHeight = 3
    EarlyEnd = 0
    MidEnd = 1
    EpochTimespan = 64
    DigishieldTimespan = 60
    Times <- MCTimes
    SlowTimespans <- MCSlowTimespans
    MaxHeight = 4
    StartBits <- MCStartBits
    Interval = 2
    TimeWrap = 4096
    MaxDifficulty = 5
    MaxHeaders = 4
SPECIFICATION AllSpec
INVARIANTS
    BitsSound
    DogecoinMonotone
    HeadersSound
PROPERTIES
    AdjustmentsWithinThresholds
    DogecoinRecovers
