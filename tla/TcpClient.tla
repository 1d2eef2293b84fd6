----------------------------- MODULE TcpClient ------------------------------
(***************************************************************************)
(* The TCP client of src/src/protocol_socket.c: init_tcpclient and, called *)
(* again and again as in task_sock (common.c), one of send_tcpclient,      *)
(* recv_tcpclient and rw_tcpclient.  An action is one system call; the     *)
(* server and the network act between any two of them.                     *)
(*                                                                         *)
(* The socket is Linux's: connect on one whose attempt or connection has   *)
(* failed only takes the failure off it (ECONNABORTED), and it is the next *)
(* connect that sends a SYN; SO_ERROR reads and clears a failure, and a    *)
(* soft error (an ICMP message) when there is none; a write to a socket    *)
(* that is not connected raises SIGPIPE, which nothing handles.            *)
(* getsockopt itself cannot fail on an open descriptor.                    *)
(***************************************************************************)
EXTENDS Integers

CONSTANT MaxTroubles    \* bound: what server and network do against the client

ClientAssumption == MaxTroubles \in Nat

VARIABLES
    use, sendLen,     \* the function called, and its argument
    pc, after,        \* the next system call; where tcpconnect returns to
    tcp, ss,          \* the socket: state of TCP, and what connect goes by
    err, soft,        \* failure and soft error to be read
    troubles,
    softSeen, finned, \* there was a soft error, an orderly close
    again             \* connect has sent another SYN than the first

client == <<use, sendLen, pc, after>>
socket == <<tcp, ss, err, soft>>
seen == <<troubles, softSeen, finned>>
vars == <<client, socket, seen, again>>

Init ==
    /\ use \in {"send", "recv", "rw"} /\ sendLen \in {0, 1} /\ (use = "recv" => sendLen = 0)
    /\ pc = "init" /\ after = "call"
    /\ tcp = "closed" /\ ss = "unconnected" /\ err = "none" /\ soft = FALSE
    /\ troubles = 0 /\ softSeen = FALSE /\ finned = FALSE /\ again = FALSE

Trouble == troubles < MaxTroubles /\ troubles' = troubles + 1
Quiet == UNCHANGED seen

-----------------------------------------------------------------------------
(* connect on the socket as it is                                          *)

StartConnect ==
    /\ ss = "unconnected"
    /\ \/ tcp' = "syn" /\ ss' = "connecting" /\ Quiet
       \/ Trouble /\ UNCHANGED <<tcp, ss, softSeen, finned>>         \* no route
    /\ UNCHANGED <<err, soft>>

connectOnce ==
    \/ StartConnect
    \/ /\ ss = "connecting" /\ tcp = "closed"                  \* ECONNABORTED
       /\ ss' = "unconnected" /\ err' = "none"
       /\ UNCHANGED <<tcp, soft>> /\ Quiet
    \/ /\ ss = "connecting" /\ tcp \in {"open", "peerclosed"}  \* now it is noticed
       /\ ss' = "connected"
       /\ UNCHANGED <<tcp, err, soft>> /\ Quiet
    \/ /\ ss = "connected" \/ tcp = "syn"                      \* EISCONN, EALREADY
       /\ UNCHANGED socket /\ Quiet

(* The result of the first connect is not looked at.                       *)
init_tcpclient ==
    /\ pc = "init"
    /\ \/ pc' = "call" /\ StartConnect
       \/ pc' = "ended" /\ UNCHANGED socket /\ Quiet           \* no socket
    /\ UNCHANGED <<use, sendLen, after, again>>

connectTwice ==                                                       \* a bug
    IF ss = "connecting" /\ tcp = "closed"
    THEN /\ tcp' = "syn" /\ err' = "none" /\ UNCHANGED <<ss, soft>> /\ Quiet
    ELSE connectOnce

Connects == connectOnce
tcpconnect ==
    /\ pc = "connect" /\ pc' = after
    /\ Connects
    /\ again' = (again \/ tcp # tcp')
    /\ UNCHANGED <<use, sendLen, after>>

-----------------------------------------------------------------------------
(* the calls of send_tcpclient, recv_tcpclient and rw_tcpclient            *)

ErrorIgnored(then) == pc' = then /\ UNCHANGED after                   \* a bug
RetriesCall(then) == pc' = "connect" /\ after' = pc                   \* a bug
Reconnect(then) == pc' = "connect" /\ after' = then
GoOn(then) == pc' = then /\ UNCHANGED after

(* SO_ERROR first; only if it is 0 there is something to do.               *)
GetError(then) ==
    /\ pc = "call"
    /\ IF err = "none" /\ ~soft THEN GoOn(then) ELSE Reconnect("call")
    /\ err' = "none"
    /\ soft' = (soft /\ err # "none")
    /\ UNCHANGED <<use, sendLen, tcp, ss, again>> /\ Quiet

(* Nothing happens on EAGAIN, whether TCP is still connecting or has no    *)
(* room; a failure that has come since SO_ERROR was read is taken.         *)
Write(then) ==
    /\ pc = "write"
    /\ \/ tcp # "closed" /\ GoOn(then) /\ UNCHANGED err
       \/ /\ tcp = "closed" /\ err \in {"refused", "reset"}
          /\ err' = "none" /\ Reconnect(then)
       \/ /\ tcp = "closed" /\ err \in {"none", "pipe"}        \* SIGPIPE
          /\ GoOn("killed") /\ UNCHANGED err
    /\ UNCHANGED <<use, sendLen, tcp, ss, soft, again>> /\ Quiet

ReadFailsOnNothing == tcp \in {"syn", "open"} \/ err # "none"         \* a bug
ReadFails ==
    /\ tcp = "closed"
    /\ err \in {"refused", "reset"} \/ (err = "none" /\ ss = "unconnected")
(* 0 at the end of the stream, which is no error.                          *)
Read ==
    /\ pc = "read"
    /\ IF ReadFails THEN Reconnect("call") /\ err' = "none"
                    ELSE GoOn("call") /\ UNCHANGED err
    /\ UNCHANGED <<use, sendLen, tcp, ss, soft, again>> /\ Quiet

send_tcpclient ==
    use = "send" /\ (GetError(IF sendLen > 0 THEN "write" ELSE "call") \/ Write("call"))
recv_tcpclient == use = "recv" /\ (GetError("read") \/ Read)
rw_tcpclient ==
    use = "rw" /\ (GetError(IF sendLen > 0 THEN "write" ELSE "read") \/ Write("read") \/ Read)

-----------------------------------------------------------------------------
(* server and network                                                      *)

Running == pc \notin {"init", "killed", "ended"}

Accepted ==
    /\ Running /\ tcp = "syn" /\ tcp' = "open" /\ soft' = FALSE
    /\ UNCHANGED <<client, ss, err, seen, again>>

(* A refusal or a timeout; a reset, which is EPIPE after an orderly close. *)
Fails ==
    /\ Running /\ tcp # "closed" /\ tcp' = "closed" /\ Trouble
    /\ err' = CASE tcp = "syn" -> "refused" [] tcp = "open" -> "reset" [] OTHER -> "pipe"
    /\ UNCHANGED <<client, ss, soft, softSeen, finned, again>>

Closes ==
    /\ Running /\ tcp = "open" /\ tcp' = "peerclosed" /\ Trouble
    /\ finned' = TRUE
    /\ UNCHANGED <<client, ss, err, soft, softSeen, again>>

SoftError ==
    /\ Running /\ tcp # "closed" /\ ~soft /\ soft' = TRUE /\ Trouble
    /\ softSeen' = TRUE
    /\ UNCHANGED <<client, tcp, ss, err, finned, again>>

Program == init_tcpclient \/ tcpconnect \/ send_tcpclient \/ recv_tcpclient \/ rw_tcpclient
Network == Accepted \/ Fails \/ Closes \/ SoftError
Next == Program \/ Network

Spec == Init /\ [][Next]_vars
(* The program's loop goes on; a server that can be reached accepts.       *)
FairSpec == Spec /\ WF_vars(Program) /\ WF_vars(Accepted)

-----------------------------------------------------------------------------
(* The socket's fields agree: a failure is pending only on a closed one.   *)
TypeOK ==
    /\ pc \in {"init", "call", "write", "read", "connect", "killed", "ended"}
    /\ after \in {"call", "read"}
    /\ tcp \in {"closed", "syn", "open", "peerclosed"}
    /\ ss \in {"unconnected", "connecting", "connected"}
    /\ err \in {"none", "refused", "reset", "pipe"} /\ (err # "none" => tcp = "closed")
    /\ soft \in BOOLEAN /\ troubles \in 0 .. MaxTroubles
    /\ ss = "unconnected" => tcp = "closed" /\ err = "none"

Writes == sendLen > 0
Reads == use # "send" /\ sendLen = 0

(* tcpconnect is called on a sound connection after a soft error only.     *)
(* That matters: it makes the socket one that connect will not touch any   *)
(* more (EISCONN), so that after a reset the client would never come back. *)
SoundIsLeftAlone == ss = "connected" => softSeen

(* Only a program that writes is killed, and only after trouble.  As       *)
(* tcpconnect does not look at connect's result, the first call after a    *)
(* failure merely clears it and the next one writes: without soft errors   *)
(* send_tcpclient never sends a second SYN, and a program that writes      *)
(* never has another connection once the server has closed one in order.   *)
NoWayBack ==
    /\ pc = "killed" => Writes /\ troubles > 0
    /\ use = "send" /\ again => softSeen
    /\ Writes /\ finned /\ tcp \in {"syn", "open"} => softSeen

(* A client that does not write comes back after every refusal and reset,  *)
(* unless a soft error has made its socket useless.                        *)
ReaderReconnects == Reads /\ Running /\ tcp = "closed" /\ ss # "connected" ~> tcp = "open"
=============================================================================
