SPECIFICATION FairSpec
CONSTANTS
    N = 3
    WIDTH = 3
    DataBlocks = 12
\* Lines of 20 bytes, of which 3 make the 50 bytes.
    Programs = {1, 2}
    Limit = 3
    MaxLines = 9
    MaxUnmoved = 2
    MaxOpen = 2
    Netsegs <- MCNetsegs
    MaxCalls = 3
INVARIANTS
    TypeOK
    CollectSafe
    LogKept
    ConfIntact
PROPERTIES
    FilesEnd
\* The main thread may spin for ever on a counter that is 0, programs may
\* have written their lines, and no more calls be made.
CHECK_DEADLOCK FALSE
