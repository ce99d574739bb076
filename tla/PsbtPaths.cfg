CONSTANTS
    HashOf <- MCHash
    Parties = {1, 2}
    Jobs <- MCPathJobs
    Keys <- MCKeys
    MAX = 1000
    Kilo = 10
    BaseWeight = 4
    WitnessWeight = 1
    MaxFeeRate = 6
    MaxSent = 2
SPECIFICATION Spec
INVARIANT
    NeverPanics
CHECK_DEADLOCK FALSE
