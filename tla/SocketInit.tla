----------------------------- MODULE SocketInit -----------------------------
(***************************************************************************)
(* init_udp, init_udpmulti and init_tcpserver of src/src/protocol_socket.c *)
(* called by programs on one host for one port.  An action is a system     *)
(* call that may fail.                                                     *)
(*                                                                         *)
(* Only init_tcpserver makes the address reusable: the option init_udp     *)
(* names, SO_BROADCAST | SO_REUSEADDR, is SO_BROADCAST (2 | 6 = 6), and    *)
(* its value, which is not initialised, decides nothing here.  On Linux    *)
(* several sockets with SO_REUSEADDR may be bound to a port as long as     *)
(* none of them listens.                                                   *)
(***************************************************************************)
EXTENDS Integers, FiniteSets

CONSTANT Programs

VARIABLES
    what,        \* the socket each program wants: "udp", "multi" or "tcp"
    at,          \* its next system call, "ready" or "failed"
    sock,        \* its socket: "none", "made", "bound" or "listening"
    broken       \* a system call has failed for another reason than the port

vars == <<what, at, sock, broken>>

Init ==
    /\ what \in [Programs -> {"udp", "multi", "tcp"}]
    /\ at = [p \in Programs |-> "socket"]
    /\ sock = [p \in Programs |-> "none"]
    /\ broken = FALSE

Protocol(p) == IF what[p] = "tcp" THEN "tcp" ELSE "udp"
Rivals(p) == {q \in Programs \ {p} : Protocol(q) = Protocol(p)}

MayBind(p) ==
    \A q \in Rivals(p) :
        sock[q] \notin (IF what[p] = "tcp" THEN {"listening"} ELSE {"bound"})
MayListen(p) == \A q \in Rivals(p) : sock[q] # "listening"

-----------------------------------------------------------------------------
Goes(p, state, then) ==
    /\ sock' = [sock EXCEPT ![p] = state]
    /\ at' = [at EXCEPT ![p] = then]

(* Every failure closes the descriptor before INVALID is returned.         *)
LeftOpen(p) == Goes(p, sock[p], "failed")                             \* a bug
Fails(p) == Goes(p, "none", "failed")

(* The call of that name by p; it fails if the port does not allow it, or  *)
(* for reasons of the system.                                              *)
Step(p, call, allowed, state, then) ==
    /\ at[p] = call
    /\ \/ allowed /\ Goes(p, state, then) /\ UNCHANGED broken
       \/ Fails(p) /\ broken' = (broken \/ allowed)
    /\ UNCHANGED what

Socket(p) == Step(p, "socket", TRUE, "made", "bind")
Membership(p) == Step(p, "membership", TRUE, "bound", "ready")

init_udp(p) == /\ what[p] = "udp"
               /\ Socket(p) \/ Step(p, "bind", MayBind(p), "bound", "ready")
init_udpmulti(p) == /\ what[p] = "multi"
                    /\ \/ Socket(p) \/ Step(p, "bind", MayBind(p), "bound", "membership")
                       \/ Membership(p)
init_tcpserver(p) == /\ what[p] = "tcp"
                     /\ \/ Socket(p) \/ Step(p, "bind", MayBind(p), "bound", "listen")
                        \/ Step(p, "listen", MayListen(p), "listening", "ready")

Next == \E p \in Programs : init_udp(p) \/ init_udpmulti(p) \/ init_tcpserver(p)

Spec == Init /\ [][Next]_vars

-----------------------------------------------------------------------------
Returned(p) == at[p] \in {"ready", "failed"}

(* Each program is at a call of the function it runs.                      *)
TypeOK ==
    /\ what \in [Programs -> {"udp", "multi", "tcp"}]
    /\ at \in [Programs -> {"socket", "bind", "listen", "membership", "ready", "failed"}]
    /\ sock \in [Programs -> {"none", "made", "bound", "listening"}]
    /\ broken \in BOOLEAN

(* Of the programs that want a port one at most gets it, and, as a failure *)
(* leaves no socket behind that others run into, one does get it unless    *)
(* the system fails: also if both TCP servers are bound before either      *)
(* listens.                                                                *)
OneGetsThePort ==
    \A p \in Programs :
        /\ at[p] = "ready" => \A q \in Rivals(p) : at[q] # "ready"
        /\ at[p] = "failed" => sock[p] = "none"
        /\ (\A q \in Rivals(p) \cup {p} : Returned(q)) /\ ~broken
               => \E q \in Rivals(p) \cup {p} : at[q] = "ready"
=============================================================================
