------------------------------- MODULE MCCmdRx -------------------------------
(* Constants of the runs of CmdRx: two nodes and 2 bytes of data, so that  *)
(* type 3 is the next node's buffer or behind them all, and a payload can  *)
(* be too long.                                                            *)
EXTENDS CmdRx

header(t, firstpkg, fragment, sublen) ==
    [type |-> t, firstpkg |-> firstpkg, fragment |-> fragment, index |-> 1, sublen |-> sublen]
whole(t, sublen) == header(t, TRUE, FALSE, sublen)
firstFragment == header(0, TRUE, TRUE, 5)
lastFragment == header(0, FALSE, FALSE, 5)

(* Whole commands that fit, to a handler and to none; one without payload, *)
(* with a payload too long, and as tx_cmd first sends it, with sublen 0;   *)
(* and fragments.                                                          *)
AnyHeader == {whole(0, 5), whole(2, 6), whole(3, 5), whole(1, 4), whole(1, 7), whole(1, 0),
              firstFragment, lastFragment}

places(pdus) ==
    LET at[j \in 1 .. Len(pdus) + 1] == IF j = 1 THEN 0 ELSE at[j - 1] + pdus[j - 1].sublen
    IN  at

framesOf(sequences, extras, kinds, crcs) ==
    {f \in {[pdus |-> s, at |-> places(s), mac_frame_len |-> places(s)[Len(s) + 1] + e,
             mac_pdu_type |-> t, crc |-> c] :
                s \in sequences, e \in extras, t \in kinds, c \in crcs} : IsFrame(f)}

(* Two sub-packets of any kind; one, where mac_frame_len is as tx_cmd:228  *)
(* writes it or too short for the last payload; and every way to be        *)
(* accepted or not.                                                        *)
AnyFrame == framesOf(BoundedSeq(AnyHeader, 2), {0}, {"other"}, {1})
            \cup framesOf(BoundedSeq(AnyHeader, 1), {8, -1}, {"other"}, {1})
            \cup framesOf({<<whole(0, 5)>>, <<whole(2, 6), whole(0, 5)>>}, {0},
                          {"cmd", "merged", "other"}, {0, 1})

(* A command in two fragments, with headers as cmd_handle.h describes them.*)
FragmentHeaders == {firstFragment, lastFragment}
FragmentFrames == framesOf({<<firstFragment, lastFragment>>, <<firstFragment>>, <<lastFragment>>},
                           {0}, {"cmd"}, {1})
=============================================================================
