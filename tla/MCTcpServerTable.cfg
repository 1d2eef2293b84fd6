SPECIFICATION Spec
CONSTANTS
    Fds <- MCFds
    sockfd <- MCsockfd
    UART_TCP_CLIENT_MAX = 2
    SendLen = 20
    Backlog = 1
INVARIANTS
    OpenIsInTable
CHECK_DEADLOCK FALSE
