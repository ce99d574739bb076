CONSTANTS
    QuarterBits = 2
    Quarter = 4
    MantissaBits = 3
    Bias = 2
    Lhs <- MCAll
    Rhs <- MCAll
    Digits = 5
    Width = 8
    Pow2 <- MCPow2
    DIGITS = 3
SPECIFICATION CallsSpec
INVARIANTS
    CarriesExact
    DivisionSound
    ArithmeticExact
PROPERTIES
    LoopsTerminate
