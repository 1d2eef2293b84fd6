------------------------------- MODULE CmdTx --------------------------------
(***************************************************************************)
(* The sending side of src/src/cmd_handle.c: one buffer per signalling     *)
(* type, filled by tx_cmd_indata and emptied into MAC frames by tx_cmd,    *)
(* which may cut a command in several sub-packets.  One thread calls both, *)
(* in any order; tx_cmd is one action per turn of its loop.                *)
(*                                                                         *)
(* cmd_buf[t] has the fields of cmd_buf_t and cmd_pdu_t, but not the data: *)
(* a byte of a command is named by its offset.                             *)
(***************************************************************************)
EXTENDS Integers, Sequences

CONSTANTS
    MAX_CMD_TYPE,   \* number of signalling types
    CMD_HDR_LEN,    \* sizeof(cmd_pdu_t)
    MAC_HDR_LEN,    \* sizeof(mac_pdu_t)
    CmdLen,         \* bytes tx_add_cmd puts in a buffer
    Maclens,        \* the max_maclen values tx_cmd is called with
    MaxLoads        \* bound: commands loaded in a behaviour

(* A frame shorter than the MAC header would make mac_remainlen negative   *)
(* and, compared with a size_t, huge: the code relies on its caller here.  *)
ASSUME SizesAssumption ==
    /\ MAX_CMD_TYPE \in Nat /\ CMD_HDR_LEN \in Nat /\ MAC_HDR_LEN \in Nat
    /\ CmdLen \in Nat \ {0}
    /\ MaxLoads \in Nat
    /\ Maclens \subseteq {m \in Nat : m >= MAC_HDR_LEN}

Types == 0 .. MAX_CMD_TYPE - 1

VARIABLES
    cmd_buf,                   \* g_tx_cmd_buf
    pc, i, wlen, max_maclen,   \* the tx_cmd in progress
    frame,                     \* the types that have a sub-packet in mactx_buf
    wire,                      \* per type, the sub-packets of its current command
    loads                      \* commands loaded so far

call == <<pc, i, wlen, max_maclen>>
vars == <<cmd_buf, call, frame, wire, loads>>

(* cmd_buf_init *)
Init ==
    /\ cmd_buf = [t \in Types |-> [len |-> 0, firstpkg |-> TRUE, fragment |-> FALSE,
                                   index |-> 0, sublen |-> 0]]
    /\ pc = "idle" /\ i = 0 /\ wlen = MAC_HDR_LEN /\ max_maclen = MAC_HDR_LEN
    /\ frame = {}
    /\ wire = [t \in Types |-> <<>>]
    /\ loads = 0

-----------------------------------------------------------------------------
tx_check_isget_cmd(t) == cmd_buf[t].len = 0

FirstpkgKept(t) == cmd_buf[t].firstpkg                                \* a bug
ResetFirstpkg(t) == TRUE

(* tx_cmd_indata: tx_new_cmd_reset, then tx_add_cmd.                       *)
tx_cmd_indata(t) ==
    /\ pc = "idle"
    /\ loads < MaxLoads
    /\ tx_check_isget_cmd(t)
    /\ cmd_buf' = [cmd_buf EXCEPT ![t] =
                      [len |-> CmdLen, firstpkg |-> ResetFirstpkg(t), fragment |-> FALSE,
                       index |-> (@.index + 1) % 64, sublen |-> 0]]
    /\ wire' = [wire EXCEPT ![t] = <<>>]
    /\ loads' = loads + 1
    /\ UNCHANGED <<call, frame>>

-----------------------------------------------------------------------------
(* tx_cmd. *)

Call(m) ==
    /\ pc = "idle"
    /\ pc' = "loop" /\ i' = 0 /\ wlen' = MAC_HDR_LEN /\ max_maclen' = m
    /\ frame' = {}
    /\ UNCHANGED <<cmd_buf, wire, loads>>

mac_remainlen == max_maclen - wlen

HasSpaceForHeader == mac_remainlen >= CMD_HDR_LEN                     \* a bug
HasMoreSpace == mac_remainlen > CMD_HDR_LEN + 1                       \* a bug
HasSpace == mac_remainlen > CMD_HDR_LEN

FitsWithoutHeader(t) == cmd_buf[t].len <= mac_remainlen               \* a bug
Fits(t) == cmd_buf[t].len + CMD_HDR_LEN <= mac_remainlen

(* The next sub-packet: the whole rest of the command, or what fits.       *)
sublen(t) == IF Fits(t) THEN cmd_buf[t].len + CMD_HDR_LEN ELSE mac_remainlen

RestWithHeader(t) == cmd_buf[t].len - sublen(t)                       \* a bug
Rest(t) == cmd_buf[t].len - (sublen(t) - CMD_HDR_LEN)

InLoop == pc = "loop" /\ i < MAX_CMD_TYPE

NothingOrTooMuchToSend ==                                             \* a bug
    /\ InLoop /\ (cmd_buf[i].len = 0 \/ ~Fits(i))
    /\ i' = i + 1
    /\ UNCHANGED <<cmd_buf, pc, wlen, max_maclen, frame, wire, loads>>

NothingToSend ==
    /\ InLoop /\ cmd_buf[i].len = 0
    /\ i' = i + 1
    /\ UNCHANGED <<cmd_buf, pc, wlen, max_maclen, frame, wire, loads>>

(* The header goes out as it was before this sub-packet updates it, and    *)
(* the payload is copied from the start of data, whatever was sent before. *)
Send ==
    /\ InLoop /\ cmd_buf[i].len # 0 /\ HasSpace
    /\ wire' = [wire EXCEPT ![i] = Append(@,
                   [firstpkg |-> cmd_buf[i].firstpkg, fragment |-> cmd_buf[i].fragment,
                    index |-> cmd_buf[i].index, sublen |-> cmd_buf[i].sublen,
                    from |-> 0, n |-> sublen(i) - CMD_HDR_LEN])]
    /\ wlen' = wlen + sublen(i)
    /\ frame' = frame \cup {i}
    /\ cmd_buf' = [cmd_buf EXCEPT ![i].firstpkg = FALSE,
                                  ![i].len = Rest(i),
                                  ![i].fragment = Rest(i) # 0,
                                  ![i].sublen = sublen(i)]
    /\ i' = i + 1
    /\ UNCHANGED <<pc, max_maclen, loads>>

(* No space for a header and a byte (break), or every type visited.        *)
Return ==
    /\ pc = "loop"
    /\ i < MAX_CMD_TYPE => cmd_buf[i].len # 0 /\ ~HasSpace
    /\ pc' = "idle"
    /\ UNCHANGED <<cmd_buf, i, wlen, max_maclen, frame, wire, loads>>

Tx == (\E m \in Maclens : Call(m)) \/ NothingToSend \/ Send \/ Return

Next == (\E t \in Types : tx_cmd_indata(t)) \/ Tx

Spec == Init /\ [][Next]_vars

(* The MAC layer keeps asking for frames, and again and again for one that *)
(* has room for a header and a byte.                                       *)
RoomyCall == \E m \in Maclens : m > MAC_HDR_LEN + CMD_HDR_LEN /\ Call(m)
FairSpec == Spec /\ WF_vars(Tx) /\ SF_vars(RoomyCall)

-----------------------------------------------------------------------------
(* Properties. *)

(* The payload bytes of a sequence of sub-packets.                         *)
Payload(s) == LET sum[k \in 0 .. Len(s)] == IF k = 0 THEN 0 ELSE sum[k - 1] + s[k].n
              IN  sum[Len(s)]

SubPackets == [firstpkg : BOOLEAN, fragment : BOOLEAN, index : 0 .. 63,
               sublen : Nat, from : Nat, n : Nat \ {0}]

(* Fields in range; no sub-packet is sent without payload.                 *)
TypeOK ==
    /\ cmd_buf \in [Types -> [len : 0 .. CmdLen, firstpkg : BOOLEAN,
                              fragment : BOOLEAN, index : 0 .. 63, sublen : Nat]]
    /\ pc \in {"idle", "loop"}
    /\ i \in 0 .. MAX_CMD_TYPE
    /\ wlen \in Nat
    /\ max_maclen \in Maclens \cup {MAC_HDR_LEN}
    /\ frame \in SUBSET Types
    /\ wire \in [Types -> Seq(SubPackets)]
    /\ loads \in 0 .. MaxLoads

(* tx_cmd never writes past the max_maclen bytes of mactx_buf.             *)
FrameFits == wlen <= max_maclen

(* A call ends with data left only if there is no room for a byte of it.   *)
FilledUp ==
    pc = "loop" /\ pc' = "idle" /\ (\E t \in Types : cmd_buf[t].len # 0)
        => mac_remainlen <= CMD_HDR_LEN

(* Step by step a frame is filled as far as its max_maclen bytes allow,    *)
(* and no further.                                                         *)
FrameFilled == [][FrameFits' /\ FilledUp]_vars

(* A type gets into a frame only after all the lower ones were emptied:    *)
(* within one call the order of the enumeration is a strict priority.      *)
LowerTypesFirst ==
    pc = "loop" => \A t \in frame : \A u \in 0 .. t - 1 : cmd_buf[u].len = 0

(* len is what tx_cmd has yet to send: no byte is counted twice or lost    *)
(* from the count, however the command is cut (index 0: nothing loaded).   *)
LenIsRemaining ==
    \A t \in Types :
        cmd_buf[t].index # 0 => Payload(wire[t]) + cmd_buf[t].len = CmdLen

(* On the wire the first sub-packet of a command, and no other, has        *)
(* firstpkg set: the receiver starts a new command exactly there.          *)
FirstpkgOnWire ==
    \A t \in Types : \A k \in DOMAIN wire[t] : wire[t][k].firstpkg <=> k = 1

(* Once commands stop coming (MaxLoads), every pending one is drained,     *)
(* whatever lower types are pending and however small most frames are.     *)
Drained == \A t \in Types : cmd_buf[t].len # 0 ~> cmd_buf[t].len = 0

(* cmd_handle.c:4: the data of a buffer are all sent before new ones are   *)
(* added, so a drained buffer has had every offset sent.                   *)
EveryByteSent ==
    \A t \in Types :
        wire[t] # <<>> /\ cmd_buf[t].len = 0 =>
            \A b \in 0 .. CmdLen - 1 :
                \E k \in DOMAIN wire[t] :
                    b \in wire[t][k].from .. wire[t][k].from + wire[t][k].n - 1

=============================================================================
