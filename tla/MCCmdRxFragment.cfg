SPECIFICATION FairSpec
CONSTANTS
    CMD_HDR_LEN = 4
    HELLO_LEN = 2
    MAX_NODE_NUM = 1
    Headers <- FragmentHeaders
    Frames <- FragmentFrames
    MaxFrames = 1
PROPERTIES
    RxReturns
CHECK_DEADLOCK FALSE
