----------------------- MODULE MCProcessInteractive ------------------------
(* Small instances of the programs of process_interactive.c.               *)
EXTENDS ProcessInteractive
CONSTANTS n1, n2
MCInstances == {n1, n2}
=============================================================================
