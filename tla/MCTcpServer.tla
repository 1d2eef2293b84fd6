---------------------------- MODULE MCTcpServer -----------------------------
(* Constants of the runs of TcpServer: descriptors are compared with       *)
(* max_fd, so they are numbers; the first free one after the listener is 4. *)
EXTENDS TcpServer

MCFds == 4 .. 6
MCsockfd == 3
=============================================================================
