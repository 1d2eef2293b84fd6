SPECIFICATION MulticastSpec
CONSTANTS
    HEAD <- MCHEAD
    TAIL <- MCTAIL
    Datagrams <- MCDatagrams
\* Two of the longest pieces.
    BufLen = 10
    SduLen <- MCSduLen
\* A datagram and one before it, whose words may still be there.
    MaxDatagrams = 2
    multi_p_max = 2
    expire <- MCexpire
    due = 1
\* No service is due, the first, the second, and both.
    Ticks = {0, 3, 4, 1}
    TxBytes = 5
INVARIANTS
    BothTyped
    DatagramAccounted
PROPERTIES
    RxReturns
    SendsOwnBytes
\* A process that crashed does nothing more.
CHECK_DEADLOCK FALSE
