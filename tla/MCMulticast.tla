---------------------------- MODULE MCMulticast ----------------------------
(* Small instance of Multicast.  A datagram is one or two pieces: PDUs     *)
(* that are well formed, and others that are cut or that lie about their   *)
(* length.  The periods of the services coincide at some ticks only.       *)
EXTENDS Multicast

MCHEAD == 90
MCTAIL == 91

Pieces == {
    <<90, 5, 0, 7, 91>>,      \* message 0, whose data are of another length
    <<90, 5, 1, 7, 91>>,      \* message 1 with its data
    <<90, 3, 91>>,            \* the tail in the place of the type
    <<90, 1>>, <<90>>,
    <<90, 6, 0, 7>>,          \* longer than what there is of it
    <<91>>}

MCDatagrams == Pieces \cup {p \o q : p \in Pieces, q \in Pieces}
MCSduLen == [t \in {0, 1} |-> 2 - t]
MCexpire == [s \in 0 .. multi_p_max - 1 |-> s + 2]
=============================================================================
