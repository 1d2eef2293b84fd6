------------------------------- MODULE MCFiles -------------------------------
(* Small instances of what keeps a file.                                   *)
EXTENDS Files

(* As many digits, one more and two more.                                  *)
MCNetsegs == {<<"2">>, <<"9">>, <<"2", "0">>, <<"2", "0", "0">>}
=============================================================================
