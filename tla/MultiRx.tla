------------------------------ MODULE MultiRx ------------------------------
(***************************************************************************)
(* multi_rx of src/src/protocol_socket.c: a datagram is received into      *)
(* g_databuf[e_tx], and multi_data_rx splits it into PDUs, an action per   *)
(* PDU.                                                                    *)
(*                                                                         *)
(* The buffer is a sequence of 16-bit words and lengths are counted in     *)
(* words: a PDU is head, len, msg_type, data and tail, all but the data a  *)
(* word each.  Datagrams have an even number of bytes, and so have the     *)
(* lengths they name.  What a longer datagram left in the buffer is still  *)
(* there behind a shorter one; multi_tx, which shares the buffer, writes   *)
(* to its first word only, which each datagram replaces.                   *)
(***************************************************************************)
EXTENDS Integers, Sequences

CONSTANTS
    HEAD, TAIL,       \* MULTI_HEAD, MULTI_TAIL
    Datagrams,        \* what may be received
    BufLen,           \* SOCK_BUF_LEN
    SduLen,           \* per msg_type that is handled, the length of its data
    MaxDatagrams      \* bound: datagrams received

HDR == 3
TIL == 1

ASSUME MultiRxAssumption ==
    /\ HEAD \in Nat /\ TAIL \in Nat /\ HEAD # TAIL /\ {HEAD, TAIL} \cap (0 .. HDR) = {}
    /\ BufLen \in Nat /\ MaxDatagrams \in Nat
    /\ \A d \in Datagrams : d \in Seq(Nat) /\ Len(d) \in 1 .. BufLen

VARIABLES
    buf, len,         \* g_databuf[e_tx]; word k is buf[k + 1]
    pc, dataidx,      \* multi_data_rx: where it is
    dispatched,       \* the PDUs of this datagram given to multi_pdu_rx
    received          \* the number of datagrams received

vars == <<buf, len, pc, dataidx, dispatched, received>>

Init ==
    /\ buf = [k \in 1 .. BufLen |-> 0] /\ len = 0
    /\ pc = "idle" /\ dataidx = 0 /\ dispatched = <<>> /\ received = 0

-----------------------------------------------------------------------------
(* A word of the buffer.  The header or the tail of a PDU may be looked for *)
(* a word outside of it: before it is the upper half of g_databuf[e_tx].len, *)
(* behind it g_databuf[e_rx].len, and both are 0.                          *)
word(k) == IF k \in 0 .. BufLen - 1 THEN buf[k + 1] ELSE 0

(* A PDU of n words may begin at i: it ends within what was received.      *)
InBuffer(i, n) == n + i <= BufLen                                \* a bug
InReceivedStrictly(i, n) == n + i < len                          \* a bug
InReceived(i, n) == n + i <= len

HasTailAfter(i, n) == word(i + n) = TAIL                         \* a bug
HasTail(i, n) == word(i + n - TIL) = TAIL

check_p_hdr_til(i) ==
    LET n == word(i + 1)
    IN  IF word(i) = HEAD /\ InReceived(i, n) /\ HasTail(i, n) THEN n ELSE 0

(* The PDU at i reaches the function of its message type.                  *)
multi_pdu_rx(i) ==
    LET type == word(i + 2)
    IN  [at |-> i, length |-> word(i + 1),
         handled |-> type \in DOMAIN SduLen /\ word(i + 1) - (HDR + TIL) = SduLen[type]]

AfterPdu(i, n) == i + n

(* A malformed PDU ends the splitting.                                     *)
GivesUpNever(i) == FALSE                                         \* a bug
GivesUp(i) == check_p_hdr_til(i) = 0

multi_rx(d) ==
    /\ pc = "idle" /\ received < MaxDatagrams
    /\ buf' = [k \in 1 .. BufLen |-> IF k <= Len(d) THEN d[k] ELSE buf[k]]
    /\ len' = Len(d)
    /\ pc' = "split" /\ dataidx' = 0 /\ dispatched' = <<>>
    /\ received' = received + 1

Split ==
    /\ pc = "split" /\ dataidx < len
    /\ check_p_hdr_til(dataidx) # 0
    /\ dispatched' = Append(dispatched, multi_pdu_rx(dataidx))
    /\ dataidx' = AfterPdu(dataidx, check_p_hdr_til(dataidx))
    /\ UNCHANGED <<buf, len, pc, received>>

Return ==
    /\ pc = "split"
    /\ dataidx < len => GivesUp(dataidx)
    /\ pc' = "idle"
    /\ UNCHANGED <<buf, len, dataidx, dispatched, received>>

Splitting == Split \/ Return

Next == (\E d \in Datagrams : multi_rx(d)) \/ Splitting

Spec == Init /\ [][Next]_vars

(* A call that was made goes on: the process runs.                         *)
FairSpec == Spec /\ WF_vars(Splitting)

-----------------------------------------------------------------------------
(* Every field is in range; in particular the position never passes the    *)
(* end of what was received.                                               *)
TypeOK ==
    /\ DOMAIN buf = 1 .. BufLen /\ \A k \in DOMAIN buf : buf[k] \in Nat
    /\ len \in 0 .. BufLen /\ dataidx \in 0 .. len
    /\ pc \in {"idle", "split"} /\ received \in 0 .. MaxDatagrams

datagram == SubSeq(buf, 1, len)

(* Words i .. i + n - 1 of what was received are a PDU of length n.        *)
IsPdu(i, n) ==
    /\ n >= HDR /\ i + n <= len
    /\ datagram[i + 1] = HEAD /\ datagram[i + 2] = n /\ datagram[i + n] = TAIL

(* check_p_hdr_til reads the header before it knows that the header was    *)
(* received, and the tail where the header says.  Whatever an earlier      *)
(* datagram left behind this one, the PDUs handed on are made of received  *)
(* words only, each complete, and follow each other from the first word.   *)
DispatchedWasReceived ==
    /\ \A j \in DOMAIN dispatched : IsPdu(dispatched[j].at, dispatched[j].length)
    /\ \A j \in DOMAIN dispatched :
           dispatched[j].at = IF j = 1 THEN 0 ELSE dispatched[j - 1].at + dispatched[j - 1].length

(* multi_data_rx gives up at a PDU that is malformed, and only there: when *)
(* it has returned, what it left of the datagram does not begin with a     *)
(* complete PDU.                                                           *)
NothingLeftBehind ==
    pc = "idle" /\ received > 0 =>
        LET rest == IF dispatched = <<>> THEN 0
                    ELSE dispatched[Len(dispatched)].at + dispatched[Len(dispatched)].length
        IN  \A n \in 1 .. len : ~ IsPdu(rest, n)

(* What was received is handed on as far as it consists of complete PDUs,  *)
(* and nothing else is.                                                    *)
DatagramAccounted == DispatchedWasReceived /\ NothingLeftBehind

(* multi_data_rx returns, whatever lengths a datagram names.               *)
RxReturns == pc = "split" ~> pc = "idle"
=============================================================================
