CONSTANTS
    Base = 6
    MAX_VEC_SIZE = 15
    VERSION_AUXPOW = 2
    ByteBits = 3
    AddrLimit = 6
    ONION = 3
    V4MAPPED = 4
    CJDNS = 2
    BlockVersions = {1, 3}
    Types = {"Message"}
    Values <- MCOddValues
    NumberBytes <- MCNumberBytes
    MaxStream <- MCMaxStream
    IndexWidth = 2
    InitialSpace = 3
    AnnexPrefix = 4
    ControlSize = 2
    Elements <- MCElements
    MaxElements = 3
SPECIFICATION Spec
INVARIANT RoundTrips
CHECK_DEADLOCK FALSE
