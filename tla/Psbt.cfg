CONSTANTS
    HashOf <- MCHash
    Parties = {1, 2}
    Jobs <- MCJobs
    Keys <- MCKeys
    MAX = 1000
    Kilo = 10
    BaseWeight = 4
    WitnessWeight = 1
    MaxFeeRate = 6
    MaxSent = 2
SPECIFICATION Spec
INVARIANTS
    
    CombineKeepsAll
    SentArrives
    ExtractSound
PROPERTY
    SignersKept
CHECK_DEADLOCK FALSE
