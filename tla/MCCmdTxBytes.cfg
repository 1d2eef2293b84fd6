SPECIFICATION Spec
CONSTANTS
    MAX_CMD_TYPE = 1
    CMD_HDR_LEN = 4
    MAC_HDR_LEN = 8
    CmdLen = 5
    Maclens <- AllMaclens
    MaxLoads = 2
INVARIANTS
    EveryByteSent
