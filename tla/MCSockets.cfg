SPECIFICATION FairSpec
CONSTANTS
\* A failure, another one while the client deals with it, and a soft error.
    MaxTroubles = 3
    Programs = {1, 2, 3}
INVARIANTS
    TypeOK
    ConnectionKept
    OneGetsThePort
PROPERTIES
    ReaderReconnects
\* The client may be killed, and the set-ups return.
CHECK_DEADLOCK FALSE
