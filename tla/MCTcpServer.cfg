\* Two slots and three descriptors: one more descriptor than slots, so that the
\* limit, and not the lack of descriptors, is what stops an accept.
SPECIFICATION FairSpec
CONSTANTS
    Fds <- MCFds
    sockfd <- MCsockfd
    UART_TCP_CLIENT_MAX = 2
    SendLen = 20
    Backlog = 1
INVARIANTS
    TypeOK
    TableConsistent
PROPERTIES
    LeaksExplained
    PoolSpec
    SlotZeroServed
\* SIGPIPE ends the process (WriteKills).
CHECK_DEADLOCK FALSE
