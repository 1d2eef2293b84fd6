------------------------------ MODULE MCCmdTx -------------------------------
(* Constants of the runs of CmdTx.  The headers have their real sizes.  A  *)
(* command has 5 bytes: frames of 13 and 15 bytes take 1 and 3 of them, one *)
(* of 21 a whole command and nothing of the next, 27 a command and a piece, *)
(* 40 all three.  Frames of 8 and 12 have room for nothing.                 *)
EXTENDS CmdTx

AllMaclens == {8, 12, 13, 15, 21, 27, 40}
=============================================================================
