SPECIFICATION FairSpec
CONSTANTS
    MAX_CMD_TYPE = 3
    CMD_HDR_LEN = 4
    MAC_HDR_LEN = 8
    CmdLen = 5
    Maclens <- AllMaclens
    MaxLoads = 3
INVARIANTS
    TypeOK
    LowerTypesFirst
    LenIsRemaining
    FirstpkgOnWire
PROPERTIES
    FrameFilled
    Drained
