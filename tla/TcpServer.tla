----------------------------- MODULE TcpServer ------------------------------
(***************************************************************************)
(* The TCP server of src/src/protocol_socket.c: acceptTcpConnet and the    *)
(* three polling functions send_tcpserver, recv_tcpserver and              *)
(* rw_tcpserver, which a single thread calls in a loop on one              *)
(* sttcpserver_crol.  Peers and the kernel run between any two steps.      *)
(*                                                                         *)
(* The fields of sttcpserver_crol are variables of the same names.  A call *)
(* is split where the kernel may change under it: the entry (with its      *)
(* accept), the select, and in each turn of the loop the write and the     *)
(* read.  Payloads are abstracted away: only whether a system call         *)
(* succeeds, would block, or fails decides what the code does next.        *)
(***************************************************************************)
EXTENDS Integers, FiniteSets

CONSTANTS
    Fds,                  \* descriptors accept may return
    sockfd,               \* the listening descriptor
    UART_TCP_CLIENT_MAX,  \* length of connfd_alive
    SendLen,              \* bytes the caller asks to write to every client
    Backlog               \* bound of the kernel's accept queue (listen)

(* Descriptor 0 marks a free slot, so accept must never return it: the     *)
(* code relies on stdin being open.                                        *)
ASSUME FdsAssumption == /\ Fds \subseteq Nat \ {0}
                        /\ IsFiniteSet(Fds)
                        /\ sockfd \in Nat \ Fds
ASSUME SizeAssumption == /\ UART_TCP_CLIENT_MAX \in Nat \ {0}
                         /\ SendLen \in Nat
                         /\ Backlog \in Nat

VARIABLES
    connfd_alive, connfd_alivenum, max_fd, read_set, write_set,
    select_read_set, select_write_set,
    pc, op, i, connMax,   \* the polling call in progress
    conn,                 \* the kernel's view of every descriptor
    backlog               \* connections waiting in the accept queue

table == <<connfd_alive, connfd_alivenum, max_fd, read_set, write_set>>
selected == <<select_read_set, select_write_set>>
call == <<pc, op, i, connMax>>
kernel == <<conn, backlog>>
vars == <<table, selected, call, kernel>>

Slots == 0 .. UART_TCP_CLIENT_MAX - 1
Ops == {"send_tcpserver", "recv_tcpserver", "rw_tcpserver"}

(* A connection is up, or its peer has closed it (fin: reads return 0), or *)
(* reset it (rst: the next read or write returns an error), or both        *)
(* (finrst: reads still return 0, a write raises SIGPIPE).                 *)
ConnStates == {"closed", "up", "fin", "rst", "finrst"}
open == {fd \in Fds : conn[fd] # "closed"}

Init ==
    /\ connfd_alive = [s \in Slots |-> 0]
    /\ connfd_alivenum = 0
    /\ max_fd = 0
    /\ read_set = {} /\ write_set = {}
    /\ select_read_set = {} /\ select_write_set = {}
    /\ pc = "idle" /\ op = "send_tcpserver" /\ i = 0 /\ connMax = 0
    /\ conn = [fd \in Fds |-> "closed"]
    /\ backlog = 0

-----------------------------------------------------------------------------
(* Peers and the kernel.                                                   *)

PeerConnect ==
    /\ backlog < Backlog
    /\ backlog' = backlog + 1
    /\ UNCHANGED <<table, selected, call, conn>>

PeerMoves(fd, from, to) ==
    /\ conn[fd] = from
    /\ conn' = [conn EXCEPT ![fd] = to]
    /\ UNCHANGED <<table, selected, call, backlog>>

PeerCloses(fd) == PeerMoves(fd, "up", "fin")
PeerResets(fd) == PeerMoves(fd, "up", "rst")
PeerResetsAfterClose(fd) == PeerMoves(fd, "fin", "finrst")

-----------------------------------------------------------------------------
(* acceptTcpConnet.                                                        *)

HasRoomOffByOne == connfd_alivenum <= UART_TCP_CLIENT_MAX      \* a bug
HasRoom == connfd_alivenum < UART_TCP_CLIENT_MAX

(* The loop looks for a free slot, but stores the descriptor at index      *)
(* connfd_alivenum.                                                        *)
NewSlotTooLow == IF connfd_alivenum = 0 THEN 0 ELSE connfd_alivenum - 1  \* a bug
NewSlot == connfd_alivenum

RaisedMaxFdLast(fd) == fd                                      \* a bug
RaisedMaxFd(fd) == IF fd > max_fd THEN fd ELSE max_fd

(* The table is full, or accept returns -1.                                *)
NothingAccepted ==
    /\ ~HasRoom \/ backlog = 0 \/ open = Fds
    /\ UNCHANGED <<table, kernel>>

(* With no free slot the accepted descriptor would just be forgotten.      *)
Accepted(fd) ==
    /\ HasRoom /\ backlog > 0 /\ fd \notin open
    /\ backlog' = backlog - 1
    /\ conn' = [conn EXCEPT ![fd] = "up"]
    /\ IF \E s \in Slots : connfd_alive[s] = 0
       THEN /\ connfd_alive' = [connfd_alive EXCEPT ![NewSlot] = fd]
            /\ connfd_alivenum' = connfd_alivenum + 1
            /\ read_set' = read_set \cup {fd}
            /\ write_set' = write_set \cup {fd}
            /\ max_fd' = RaisedMaxFd(fd)
       ELSE UNCHANGED table

acceptTcpConnet == NothingAccepted \/ \E fd \in Fds : Accepted(fd)

-----------------------------------------------------------------------------
(* The polling functions.                                                  *)

FirstSkipped == 1                                              \* a bug
First == 0

(* Entry: accept one connection, then latch the number of clients.         *)
Enter(f) ==
    /\ pc = "idle"
    /\ acceptTcpConnet
    /\ connMax' = connfd_alivenum'
    /\ op' = f /\ pc' = "select" /\ i' = First
    /\ UNCHANGED selected

Reads == op # "send_tcpserver"
Writes == op # "recv_tcpserver"
LoopStart == IF Writes THEN "write" ELSE "read"

(* select with a zero timeout: a failed connection is always ready, a      *)
(* healthy one may have data, or room, or not.                             *)
ReadySets(watched, sure) ==
    {r \in SUBSET {fd \in watched : fd <= max_fd} :
        \A fd \in watched : fd \in Fds /\ fd <= max_fd /\ conn[fd] \in sure => fd \in r}

(* Nothing ready, or no client at all: the call returns.  Otherwise the    *)
(* listener, were it ever watched (see WatchSetsMatchOpen), would be       *)
(* accepted from once more, and the loop starts.                           *)
Select ==
    /\ pc = "select"
    /\ \E r \in IF Reads THEN ReadySets(read_set, {"fin", "rst", "finrst"}) ELSE {{}},
          w \in IF Writes THEN ReadySets(write_set, {"rst", "finrst"}) ELSE {{}} :
         /\ select_read_set' = IF Reads THEN r ELSE select_read_set
         /\ select_write_set' = IF Writes THEN w ELSE select_write_set
         /\ IF sockfd \in r THEN acceptTcpConnet ELSE UNCHANGED <<table, kernel>>
         /\ pc' = IF r \cup w # {} /\ connMax > 0 THEN LoopStart ELSE "idle"
    /\ UNCHANGED <<op, i, connMax>>

NextClient ==
    IF i + 1 < connMax THEN pc' = LoopStart /\ i' = i + 1
                       ELSE pc' = "idle" /\ i' = 0

connfd == connfd_alive[i]

(* close(connfd) and the bookkeeping of every error branch.                *)
CloseFailed(fd) ==                                             \* a bug
    conn' = [c \in Fds |-> IF conn[c] = "rst" THEN "closed" ELSE conn[c]]
Close(fd) == conn' = [conn EXCEPT ![fd] = "closed"]
FreedSlotKept == connfd_alive                                  \* a bug
FreedSlot == [connfd_alive EXCEPT ![i] = 0]
OneLessForgotten == connfd_alivenum                            \* a bug
OneLess == connfd_alivenum - 1
StillWatched(set) == set                                       \* a bug
NotWatched(set) == set \ {connfd}

CloseClient ==
    /\ Close(connfd)
    /\ connfd_alive' = FreedSlot
    /\ connfd_alivenum' = OneLess
    /\ read_set' = NotWatched(read_set)
    /\ write_set' = NotWatched(write_set)
    /\ UNCHANGED <<max_fd, backlog>>

MustWrite == connfd \in select_write_set /\ SendLen > 0

(* The write succeeds, would block, or is not attempted; rw_tcpserver then *)
(* goes on to the read of the same client.                                 *)
WriteDone ==
    /\ pc = "write"
    /\ MustWrite => conn[connfd] \in {"up", "fin"}
    /\ IF Reads THEN pc' = "read" /\ UNCHANGED i ELSE NextClient
    /\ UNCHANGED <<table, selected, op, connMax, kernel>>

WriteFails ==
    /\ pc = "write" /\ MustWrite
    /\ conn[connfd] = "rst"
    /\ CloseClient
    /\ NextClient
    /\ UNCHANGED <<selected, op, connMax>>

(* EPIPE comes with SIGPIPE, which nothing in src/ ignores or handles.     *)
WriteKills ==
    /\ pc = "write" /\ MustWrite
    /\ conn[connfd] = "finrst"
    /\ pc' = "killed"
    /\ UNCHANGED <<table, selected, op, i, connMax, kernel>>

(* Data, nothing yet, or end of file: only an error closes the client.     *)
ReadDone ==
    /\ pc = "read"
    /\ connfd \in select_read_set => conn[connfd] # "rst"
    /\ NextClient
    /\ UNCHANGED <<table, selected, op, connMax, kernel>>

ReadFails ==
    /\ pc = "read"
    /\ connfd \in select_read_set
    /\ conn[connfd] = "rst"
    /\ CloseClient
    /\ NextClient
    /\ UNCHANGED <<selected, op, connMax>>

Peer == \/ PeerConnect
        \/ \E fd \in Fds : PeerCloses(fd) \/ PeerResets(fd) \/ PeerResetsAfterClose(fd)

Server == \/ \E f \in Ops : Enter(f)
          \/ Select
          \/ WriteDone \/ WriteFails \/ WriteKills \/ ReadDone \/ ReadFails

Next == Peer \/ Server
Spec == Init /\ [][Next]_vars

(* The caller polls for ever: task_sock (common.c) was written as an       *)
(* endless loop around one of the polling functions.                       *)
FairSpec == Spec /\ WF_vars(Server)

-----------------------------------------------------------------------------
(* Properties.                                                             *)

entries == {connfd_alive[s] : s \in Slots} \ {0}
lost == open \ entries

(* Every field stays within its range: in particular connfd_alivenum never *)
(* indexes past connfd_alive when a connection is stored.                  *)
TypeOK ==
    /\ connfd_alive \in [Slots -> Fds \cup {0}]
    /\ connfd_alivenum \in 0 .. UART_TCP_CLIENT_MAX
    /\ max_fd \in Fds \cup {0}
    /\ read_set \in SUBSET Fds /\ write_set \in SUBSET Fds
    /\ select_read_set \in SUBSET Fds /\ select_write_set \in SUBSET Fds
    /\ pc \in {"idle", "select", "write", "read", "killed"}
    /\ op \in Ops
    /\ i \in Slots
    /\ connMax \in 0 .. UART_TCP_CLIENT_MAX
    /\ conn \in [Fds -> ConnStates]
    /\ backlog \in 0 .. Backlog

(* The sets handed to select hold exactly the open connections: none is    *)
(* forgotten by it, and no closed descriptor makes it fail with EBADF.     *)
WatchSetsMatchOpen == read_set = open /\ write_set = open

(* connfd_alivenum, a counter kept apart from the table it indexes, is the *)
(* number of open connections, those that lost their slot included.        *)
AliveCount == connfd_alivenum = Cardinality(open)

(* A used slot holds an open descriptor, and no two slots the same one: a  *)
(* polling function never writes to, or closes, a descriptor twice.        *)
TableLive ==
    /\ entries \subseteq open
    /\ \A s, t \in Slots :
          connfd_alive[s] # 0 /\ connfd_alive[s] = connfd_alive[t] => s = t

(* acceptTcpConnet never accepts a connection that it then finds no slot   *)
(* for: below the limit some slot is free.                                 *)
AcceptHasSlot == HasRoom => \E s \in Slots : connfd_alive[s] = 0

(* max_fd is never lowered, and select's first argument, max_fd + 1, never *)
(* cuts off an open connection.                                            *)
MaxFdCovers == \A fd \in open : fd <= max_fd

(* The table, the counter kept apart from it, the watched sets and max_fd  *)
(* agree with the connections that are open, whoever failed in whatever    *)
(* order: what each of the four says is above.                             *)
TableConsistent == WatchSetsMatchOpen /\ AliveCount /\ TableLive /\ MaxFdCovers

(* A connection whose slot was overwritten is never closed again by the    *)
(* server: the capacity it takes is gone for good.                         *)
LeakIsForever == [][lost \subseteq lost']_vars

(* A connection loses its slot while it is still open only when a slot     *)
(* below its own has been freed: as long as no client fails, none is lost. *)
DropNeedsHole ==
    [][\A s \in Slots :
          /\ connfd_alive[s] \in open
          /\ connfd_alive[s] \in lost'
          => \E t \in 0 .. s - 1 : connfd_alive[t] = 0]_vars

(* A connection is lost for good, and only over a hole in the table: the   *)
(* capacity of the server shrinks by clients that fail, never otherwise.   *)
LeaksExplained == LeakIsForever /\ DropNeedsHole

(* Seen from outside, the server is a pool of connections that admits a    *)
(* connection only below its limit and closes only failed ones.            *)
Pool == INSTANCE ConnPool WITH
            MaxConns <- UART_TCP_CLIENT_MAX,
            failed <- {fd \in Fds : conn[fd] = "rst"}
PoolSpec == Pool!Spec

(* A reset connection in slot 0 is eventually closed (unless SIGPIPE from  *)
(* another one has killed the process): slot 0 is polled by every call.    *)
SlotZeroServed ==
    \A fd \in Fds :
        connfd_alive[0] = fd /\ conn[fd] = "rst"
            ~> conn[fd] = "closed" \/ pc = "killed"

(* protocol_socket.c:323 says of an accepted connection that it is a long  *)
(* one, kept until it is closed; then it would stay in the table as well.  *)
OpenIsInTable == open \subseteq entries
=============================================================================
