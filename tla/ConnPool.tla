------------------------------ MODULE ConnPool ------------------------------
(***************************************************************************)
(* What the TCP server of protocol_socket.c promises its peers, whatever   *)
(* its table of descriptors looks like: at most MaxConns connections are   *)
(* open at any time, and a connection is closed by the server only after   *)
(* it has failed (a read or a write on it returned an error).              *)
(***************************************************************************)
EXTENDS Naturals, FiniteSets

CONSTANTS Fds,       \* the descriptors a connection may get
          MaxConns   \* how many connections may be open at once

VARIABLES open,      \* the descriptors of the open connections
          failed     \* those on which the peer reset the connection

Init == open = {} /\ failed = {}

(* A connection is admitted only while the pool has room. *)
Admit(fd) ==
    /\ fd \notin open
    /\ Cardinality(open) < MaxConns
    /\ open' = open \cup {fd}
    /\ UNCHANGED failed

Fail(fd) ==
    /\ fd \in open \ failed
    /\ failed' = failed \cup {fd}
    /\ UNCHANGED open

Evict(fd) ==
    /\ fd \in failed
    /\ open' = open \ {fd}
    /\ failed' = failed \ {fd}

Next == \E fd \in Fds : Admit(fd) \/ Fail(fd) \/ Evict(fd)

Spec == Init /\ [][Next]_<<open, failed>>
=============================================================================
