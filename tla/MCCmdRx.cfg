SPECIFICATION FairSpec
CONSTANTS
    CMD_HDR_LEN = 4
    HELLO_LEN = 2
    MAX_NODE_NUM = 2
    Headers <- AnyHeader
    Frames <- AnyFrame
    MaxFrames = 2
INVARIANTS
    TypeOK
    HandledInOrder
PROPERTIES
    CommandsReturn
\* The receiver stops after MaxFrames frames, and where the program does.
CHECK_DEADLOCK FALSE
