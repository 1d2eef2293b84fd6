------------------------------- MODULE Sockets -------------------------------
(***************************************************************************)
(* The parts of src/src/protocol_socket.c that open a socket and, for a    *)
(* client, keep it connected:                                              *)
(*   Cli    init_tcpclient, then send_, recv_ or rw_tcpclient (TcpClient)  *)
(*   Ini    init_udp, init_udpmulti and init_tcpserver (SocketInit)        *)
(* task_sock (common.c, itself commented out) calls one or the other; they *)
(* share nothing.  The variable task says which one runs.                  *)
(***************************************************************************)
EXTENDS Integers, FiniteSets

CONSTANTS
    MaxTroubles,       \* Cli
    Programs           \* Ini

VARIABLES
    task,
    use, sendLen, pc, after, tcp, ss, err, soft, troubles, softSeen, finned, again,
    what, at, sock, broken

cliVars == <<use, sendLen, pc, after, tcp, ss, err, soft, troubles, softSeen, finned, again>>
iniVars == <<what, at, sock, broken>>
vars == <<task, cliVars, iniVars>>

Cli == INSTANCE TcpClient
Ini == INSTANCE SocketInit

ASSUME SocketsAssumptions == Cli!ClientAssumption

Init ==
    /\ task \in {"Cli", "Ini"}
    /\ Cli!Init /\ Ini!Init
    (* What does not run has nothing to choose.                            *)
    /\ task # "Cli" => use = "recv"
    /\ task # "Ini" => \A p \in Programs : what[p] = "tcp"

-----------------------------------------------------------------------------
(* Task t runs, and nothing else changes.                                  *)
Runs(t) ==
    /\ task = t /\ UNCHANGED task
    /\ IF t = "Cli" THEN TRUE ELSE UNCHANGED cliVars
    /\ IF t = "Ini" THEN TRUE ELSE UNCHANGED iniVars

Next ==
    \/ Runs("Cli") /\ Cli!Next
    \/ Runs("Ini") /\ Ini!Next

Spec == Init /\ [][Next]_vars

(* The client's loop goes on; a server that can be reached accepts.        *)
FairSpec == Spec /\ WF_vars(Runs("Cli") /\ Cli!Program) /\ WF_vars(Runs("Cli") /\ Cli!Accepted)

-----------------------------------------------------------------------------
(* The type invariants of both.                                            *)
TypeOK == Cli!TypeOK /\ Ini!TypeOK

(* Client.  tcpconnect leaves a sound connection alone unless a soft error *)
(* has come; only a program that writes is killed, after trouble only;     *)
(* and, short of a soft error, such a program has no other connection once *)
(* the server has closed one in order, and send_tcpclient none at all.     *)
ConnectionKept == Cli!SoundIsLeftAlone /\ Cli!NoWayBack

(* Set-up.  Of the programs that want a port exactly one gets it, unless   *)
(* the system fails, also if two TCP servers are bound before one listens; *)
(* and a failure leaves no socket open.                                    *)
OneGetsThePort == Ini!OneGetsThePort

(* Client.  One that does not write comes back after every refusal and     *)
(* reset, unless a soft error has made its socket useless.                 *)
ReaderReconnects == Cli!ReaderReconnects
=============================================================================
