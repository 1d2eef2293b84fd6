----------------------------- MODULE Multicast -----------------------------
(***************************************************************************)
(* The two halves of the multicast ranging of src/src/protocol_socket.c on *)
(* the one thread that calls them: a datagram that multi_rx receives for   *)
(* MultiRx is, for MultiTx, foreign bytes in the buffer it sends from; and *)
(* no call is made while another one is in progress.                       *)
(***************************************************************************)
EXTENDS MultiRx

CONSTANTS multi_p_max, expire, due, Ticks,   \* as in MultiTx
          TxBytes                            \* bytes of the buffer MultiTx models

VARIABLES flg, data, txbuf, txlen, txpc, i, sent

txVars == <<flg, data, txbuf, txlen, txpc, i, sent>>
allVars == <<vars, txVars>>

Tx == INSTANCE MultiTx WITH BufLen <- TxBytes, buf <- txbuf, len <- txlen, pc <- txpc

ASSUME MulticastAssumption == Tx!MultiTxAssumption

MulticastInit == Init /\ Tx!Init

(* A word is two bytes; MultiTx looks at the first TxBytes of them.        *)
BytesSeen(d) == IF 2 * Len(d) < TxBytes THEN 2 * Len(d) ELSE TxBytes

Receive(d) == txpc = "idle" /\ multi_rx(d) /\ Tx!multi_rx(BytesSeen(d))
SplitOn == Splitting /\ UNCHANGED txVars
TxCalled == pc = "idle" /\ Tx!Called /\ UNCHANGED vars
CollectOn == Tx!Collecting /\ UNCHANGED vars

MulticastNext == (\E d \in Datagrams : Receive(d)) \/ SplitOn \/ TxCalled \/ CollectOn

(* A call, once made, runs on.                                             *)
MulticastSpec ==
    /\ MulticastInit /\ [][MulticastNext]_allVars
    /\ WF_allVars(SplitOn) /\ WF_allVars(CollectOn)

-----------------------------------------------------------------------------
(* The types of both halves.                                               *)
BothTyped == TypeOK /\ Tx!TypeOK

(* Received bytes share the buffer with what is sent: still a datagram has *)
(* one byte per marked service, and they are the first bytes of the last   *)
(* one's data, nothing that was in the buffer before.                      *)
SendsOwnBytes == Tx!SendsOwnBytes
=============================================================================
