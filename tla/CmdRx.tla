------------------------------- MODULE CmdRx --------------------------------
(***************************************************************************)
(* rx_cmd of src/src/cmd_handle.c: the loop that takes the sub-packets out *)
(* of a received MAC frame, one action per turn, with the receive buffers  *)
(* of all nodes.  Calls follow one another on one thread.                  *)
(*                                                                         *)
(* Every header field comes from the wire and none is checked.  A turn     *)
(* that does not get stuck moves rxlen past a header and a byte, so the    *)
(* headers it reads do not overlap, and a frame is the sequence of them.   *)
(* The payload of a sub-packet is one opaque chunk.                        *)
(***************************************************************************)
EXTENDS Integers, SequencesExt

CONSTANTS
    CMD_HDR_LEN,     \* sizeof(cmd_pdu_t)
    HELLO_LEN,       \* bytes of data in a cmd_buf_t
    MAX_NODE_NUM,    \* nodes in g_rx_cmd_buf
    Headers,         \* the headers that may lie in the receive buffer
    Frames,          \* the MAC frames that may arrive
    MaxFrames        \* bound: frames received

MAX_CMD_TYPE == 3
UINT8 == 0 .. 255
UINT16 == 0 .. 65535
Nodes == 0 .. MAX_NODE_NUM - 1

(* at[j] is where the sub-packet j of a frame begins, and at[n + 1] where  *)
(* the last of them ends, counted from behind the MAC header.              *)
IsFrame(f) ==
    /\ f \in [pdus : Seq(Headers), at : Seq(Nat), mac_frame_len : UINT16,
              mac_pdu_type : {"cmd", "merged", "other"}, crc : UINT16]
    /\ Len(f.at) = Len(f.pdus) + 1 /\ f.at[1] = 0
    /\ \A j \in 1 .. Len(f.pdus) : /\ f.at[j] < f.mac_frame_len
                                   /\ f.at[j + 1] = f.at[j] + f.pdus[j].sublen

ASSUME RxAssumption ==
    /\ CMD_HDR_LEN \in Nat /\ HELLO_LEN \in Nat
    /\ MAX_NODE_NUM \in Nat \ {0} /\ MaxFrames \in Nat
    /\ Headers \subseteq [type : UINT8, firstpkg : BOOLEAN, fragment : BOOLEAN,
                          index : 0 .. 63, sublen : UINT16]
    /\ \A f \in Frames : IsFrame(f)

VARIABLES
    bufs,            \* g_rx_cmd_buf, as one array of cmd_buf_t
    pc, node, frame, \* the call in progress
    k, found,        \* the turn, and the sub-packet found at rxlen
    rxlen,
    handled,         \* what the switch did for the sub-packets of frames, in order
    due,             \* what it should do
    beyond,          \* what it did for what lies behind frames
    frames           \* frames received so far

vars == <<bufs, pc, node, frame, k, found, rxlen, handled, due, beyond, frames>>

(* cmd_buf_init, the receiving half.                                       *)
EmptyBuf == [len |-> 0, firstpkg |-> FALSE, fragment |-> FALSE, index |-> 0,
             sublen |-> 0, data |-> <<>>]
NoFrame == [pdus |-> <<>>, at |-> <<0>>, mac_frame_len |-> 0,
            mac_pdu_type |-> "other", crc |-> 1]
NoSubPacket == [type |-> 0, firstpkg |-> FALSE, fragment |-> FALSE, index |-> 0,
                sublen |-> 0, chunk |-> <<0, 0>>]

Init ==
    /\ bufs = [a \in 0 .. MAX_NODE_NUM * MAX_CMD_TYPE - 1 |-> EmptyBuf]
    /\ pc = "idle" /\ node = 0 /\ frame = NoFrame
    /\ k = 1 /\ found = NoSubPacket /\ rxlen = 0
    /\ handled = <<>> /\ due = <<>> /\ beyond = <<>> /\ frames = 0

-----------------------------------------------------------------------------
(* One buffer b and one sub-packet p. *)

datalen(p) == p.sublen - CMD_HDR_LEN

Continues(b, p) == b.firstpkg /\ b.fragment /\ b.index = p.index /\ ~p.firstpkg

(* Append to the command begun, or start over with this sub-packet.        *)
rx_cmd_frag_combine(b, p) ==
    IF b.len # 0 /\ Continues(b, p)
    THEN [b EXCEPT !.data = Append(@, p.chunk),
                   !.len = @ + datalen(p),
                   !.fragment = p.fragment]
    ELSE [len |-> datalen(p), firstpkg |-> p.firstpkg, fragment |-> p.fragment,
          index |-> p.index, sublen |-> p.sublen, data |-> <<p.chunk>>]

rx_check_cmddata_complete(b) == b.len # 0 /\ b.firstpkg /\ ~b.fragment

(* The buffer of a type of a node: a type that does not exist is one of a  *)
(* later node's, or behind all of them.                                    *)
address(n, p) == n * MAX_CMD_TYPE + p.type

(* The case of the switch; a type of no handler is only printed.           *)
rx_handler(type) ==
    CASE type = 0 -> "rx_hello" [] type = 1 -> "rx_dist_base" [] type = 2 -> "rx_dist_rpt"
      [] OTHER -> "cmd type err"

(* A sub-packet that is a whole command, has a payload and a buffer to fit.*)
passes(n, p) ==
    /\ p.firstpkg /\ ~p.fragment
    /\ datalen(p) \in 1 .. HELLO_LEN
    /\ address(n, p) < MAX_NODE_NUM * MAX_CMD_TYPE
command(n, p, chunk) == <<n, rx_handler(p.type), <<chunk>>>>

-----------------------------------------------------------------------------
(* The checks at the start: CRC, then the length against len, according to *)
(* mac_pdu_type (0xAAA and 0xBBB; 0xAAB; others are not checked).          *)
AcceptedIgnoringCrc(f, len) ==                                        \* a bug
    /\ f.mac_pdu_type = "cmd" => f.mac_frame_len = len
    /\ f.mac_pdu_type = "merged" => f.mac_frame_len < len
Accepted(f, len) ==
    /\ f.crc = 1
    /\ f.mac_pdu_type = "cmd" => f.mac_frame_len = len
    /\ f.mac_pdu_type = "merged" => f.mac_frame_len < len

MoreOrAtEnd(at, f) == at <= f.mac_frame_len                           \* a bug
More(at, f) == at < f.mac_frame_len

(* What the turn n finds: the frame's own sub-packet, or anything.         *)
Header(h, n) == [type |-> h.type, firstpkg |-> h.firstpkg, fragment |-> h.fragment,
                 index |-> h.index, sublen |-> h.sublen, chunk |-> <<frames', n>>]
SubPackets(f, at, n) ==
    IF ~More(at, f) THEN {NoSubPacket}
    ELSE IF n <= Len(f.pdus) THEN {Header(f.pdus[n], n)}
    ELSE {Header(h, n) : h \in Headers}

(* due grows by the sub-packets of a sound frame, up to the first that     *)
(* does not pass.                                                          *)
Call(f, n, len) ==
    LET sound == {m \in 0 .. Len(f.pdus) : \A j \in 1 .. m : passes(n, f.pdus[j])}
        last == CHOOSE m \in sound : \A l \in sound : l <= m
    IN
    /\ pc = "idle" /\ frames < MaxFrames
    /\ frames' = frames + 1
    /\ IF Accepted(f, len)
       THEN /\ pc' = "loop" /\ node' = n /\ frame' = f /\ k' = 1 /\ rxlen' = 0
            /\ found' \in SubPackets(f, 0, 1)
       ELSE UNCHANGED <<pc, node, frame, k, found, rxlen>>
    /\ due' = IF f.crc = 1 /\ Accepted(f, len)
              THEN due \o [j \in 1 .. last |-> command(n, f.pdus[j], <<frames + 1, j>>)]
              ELSE due
    /\ UNCHANGED <<bufs, handled, beyond>>

Receive ==
    \E f \in Frames, n \in Nodes, surplus \in {-1, 0, 1} : Call(f, n, f.mac_frame_len + surplus)

InLoop == pc = "loop" /\ More(rxlen, frame)

here == address(node, found)
Inside == here < MAX_NODE_NUM * MAX_CMD_TYPE
combined == rx_cmd_frag_combine(bufs[here], found)

(* memcpy stays inside the buffer.                                         *)
Copies == Inside /\ datalen(found) >= 0 /\ combined.len <= HELLO_LEN

RxlenByData == rxlen + datalen(found)                                 \* a bug
NextRxlen == rxlen + found.sublen

(* A complete command goes to the switch, and the loop moves on.           *)
Handle ==
    /\ InLoop /\ Copies /\ rx_check_cmddata_complete(combined)
    /\ bufs' = [bufs EXCEPT ![here] = combined]
    /\ LET outcome == <<node, rx_handler(found.type), combined.data>> IN
       IF k <= Len(frame.pdus)
       THEN handled' = Append(handled, outcome) /\ UNCHANGED beyond
       ELSE beyond' = Append(beyond, outcome) /\ UNCHANGED handled
    /\ rxlen' = NextRxlen /\ k' = k + 1
    /\ UNCHANGED <<pc, node, frame, due, frames>>
    /\ found' \in SubPackets(frame, rxlen', k + 1)

(* "continue": the turn ends without moving on.                            *)
Incomplete ==
    /\ InLoop /\ Copies /\ ~rx_check_cmddata_complete(combined)
    /\ bufs' = [bufs EXCEPT ![here] = combined]
    /\ UNCHANGED <<pc, node, frame, k, found, rxlen, handled, due, beyond, frames>>

(* A sublen below the header's length makes datalen negative, and memcpy,  *)
(* which takes it for a huge number, runs into memory that is not there.   *)
Killed ==
    /\ InLoop /\ Inside /\ datalen(found) < 0
    /\ pc' = "killed"
    /\ UNCHANGED <<bufs, node, frame, k, found, rxlen, handled, due, beyond, frames>>

(* A payload longer than the buffer, or a type whose buffer lies behind    *)
(* them all: memory the model does not have is written.  What the program  *)
(* does from here on is undefined.                                         *)
Overwrite ==
    /\ InLoop /\ (Inside => datalen(found) >= 0 /\ combined.len > HELLO_LEN)
    /\ pc' = "undefined"
    /\ UNCHANGED <<bufs, node, frame, k, found, rxlen, handled, due, beyond, frames>>

Return ==
    /\ pc = "loop" /\ ~InLoop
    /\ pc' = "idle" /\ node' = 0 /\ frame' = NoFrame
    /\ k' = 1 /\ found' = NoSubPacket /\ rxlen' = 0
    /\ UNCHANGED <<bufs, handled, due, beyond, frames>>

Rx == Handle \/ Incomplete \/ Killed \/ Overwrite \/ Return
Next == Receive \/ Rx

Spec == Init /\ [][Next]_vars
(* A call, once made, runs on.                                             *)
FairSpec == Spec /\ WF_vars(Rx)

-----------------------------------------------------------------------------
(* Properties. *)

SubPacketsLen(f) == f.at[Len(f.pdus) + 1]

(* Fields in range, at most HELLO_LEN bytes in a buffer; and in every turn *)
(* the loop looks at the beginning of a sub-packet, as long as there is    *)
(* one.                                                                    *)
TypeOK ==
    /\ \A a \in DOMAIN bufs : bufs[a].len \in 0 .. HELLO_LEN
    /\ pc \in {"idle", "loop", "killed", "undefined"}
    /\ node \in Nodes /\ IsFrame(frame)
    /\ frames \in 0 .. MaxFrames
    /\ k <= Len(frame.pdus) + 1 => rxlen = frame.at[k]
    /\ k > Len(frame.pdus) => rxlen >= SubPacketsLen(frame)

(* The switch is given the whole commands of the accepted frames, each     *)
(* once, in order, with the frame's own bytes, up to the first sub-packet  *)
(* that is no whole command of a size that fits: for all of them if the    *)
(* call returns, and before it looks at anything behind the frame.  It     *)
(* does that only for frames whose mac_frame_len counts more than their    *)
(* sub-packets.                                                            *)
HandledInOrder ==
    /\ IsPrefix(handled, due)
    /\ pc = "idle" \/ k > Len(frame.pdus) => handled = due
    /\ beyond # <<>> => \E f \in Frames : f.mac_frame_len > SubPacketsLen(f)

(* rx_cmd returns from every frame of whole commands of a size that fits,  *)
(* if their length is not less than mac_frame_len.                         *)
FrameOfCommands ==
    /\ \A j \in DOMAIN frame.pdus : passes(node, frame.pdus[j])
    /\ frame.mac_frame_len <= SubPacketsLen(frame)
CommandsReturn == pc = "loop" /\ FrameOfCommands ~> pc = "idle"

(* cmd_handle.c:5: data are stored until a command is complete and then    *)
(* handed on, so rx_cmd returns from every frame.                          *)
RxReturns == pc = "loop" ~> pc = "idle"
=============================================================================
