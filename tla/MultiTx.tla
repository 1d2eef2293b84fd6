------------------------------ MODULE MultiTx ------------------------------
(***************************************************************************)
(* expire_handle and multi_tx of src/src/protocol_socket.c: services are   *)
(* marked when they are due, and multi_tx lets each marked service put its *)
(* data in g_databuf[e_tx] and sends what is there.  multi_rx receives in  *)
(* the same buffer.                                                        *)
(*                                                                         *)
(* The calls are made on one thread, from outside of the code, in any      *)
(* order; multi_tx takes an action per service.  A byte of the buffer is   *)
(* the service and the offset in its data that it was copied from.         *)
(***************************************************************************)
EXTENDS Integers, Sequences, FiniteSets

CONSTANTS
    multi_p_max,      \* e_multi_p_max
    expire,           \* per service, the period in ticks
    due,              \* 100: the tick in each period at which it is due
    Ticks,            \* what expire_handle may be called with
    BufLen            \* bytes of the buffer that are modelled

Services == 0 .. multi_p_max - 1

MultiTxAssumption ==
    /\ multi_p_max \in Nat \ {0} /\ BufLen \in Nat /\ BufLen >= multi_p_max
    /\ expire \in [Services -> Nat \ {0}] /\ due \in Nat /\ Ticks \subseteq Nat

VARIABLES
    flg,              \* the services that are marked
    data,             \* the services whose data pointer is set
    buf, len,         \* g_databuf[e_tx]
    pc, i,            \* multi_tx: where it is
    sent              \* the datagram it sent

vars == <<flg, data, buf, len, pc, i, sent>>

foreign == [from |-> -1, offset |-> 0]    \* a byte another node sent, or the initial 0

(* dist_init.                                                              *)
Init ==
    /\ flg = {} /\ data = {}
    /\ buf = [k \in 1 .. BufLen |-> foreign] /\ len = 0
    /\ pc = "idle" /\ i = 0 /\ sent = <<>>

-----------------------------------------------------------------------------
(* Whoever uses a service sets its data pointer.                           *)
Supply(s) ==
    /\ pc = "idle" /\ s \notin data
    /\ data' = data \cup {s}
    /\ UNCHANGED <<flg, buf, len, pc, i, sent>>

expire_handle(icount) ==
    /\ pc = "idle"
    /\ flg' = flg \cup {s \in Services : icount % expire[s] = due}
    /\ UNCHANGED <<data, buf, len, pc, i, sent>>

multi_rx(n) ==
    /\ pc = "idle"
    /\ buf' = [k \in 1 .. BufLen |-> IF k <= n THEN foreign ELSE buf[k]]
    /\ len' = n
    /\ UNCHANGED <<flg, data, pc, i, sent>>

KeptLen == len                                                   \* a bug
FirstLen == 0

multi_tx ==
    /\ pc = "idle"
    /\ len' = FirstLen
    /\ pc' = "collect" /\ i' = 0 /\ sent' = <<>>
    /\ UNCHANGED <<flg, data, buf>>

Copied ==
    [k \in 1 .. BufLen |-> IF k <= len + 1 THEN [from |-> i, offset |-> k - 1] ELSE buf[k]]

PassesOver == i \notin flg

(* dist_basedata_snd and dist_len_snd: one byte more, and that many bytes  *)
(* of the service's data to the start of the buffer.                       *)
Collect ==
    /\ pc = "collect" /\ i < multi_p_max
    /\ ~ PassesOver /\ i \in data
    /\ len' = len + 1
    /\ buf' = Copied
    /\ i' = i + 1
    /\ UNCHANGED <<flg, data, pc, sent>>

Skip ==
    /\ pc = "collect" /\ i < multi_p_max
    /\ PassesOver
    /\ i' = i + 1
    /\ UNCHANGED <<flg, data, buf, len, pc, sent>>

(* memcpy from a data pointer that is still NULL ends the process.         *)
Crash ==
    /\ pc = "collect" /\ i < multi_p_max
    /\ ~ PassesOver /\ i \notin data
    /\ pc' = "dead"
    /\ UNCHANGED <<flg, data, buf, len, i, sent>>

Send ==
    /\ pc = "collect" /\ i = multi_p_max
    /\ sent' = [k \in 1 .. len |-> IF k <= BufLen THEN buf[k] ELSE foreign]
    /\ pc' = "idle" /\ i' = 0
    /\ UNCHANGED <<flg, data, buf, len>>

Called ==
    \/ \E s \in Services : Supply(s)
    \/ \E icount \in Ticks : expire_handle(icount)
    \/ multi_tx

Collecting == Collect \/ Skip \/ Crash \/ Send

Next ==
    \/ Called
    \/ \E n \in 1 .. BufLen : multi_rx(n)
    \/ Collecting

Spec == Init /\ [][Next]_vars
(* multi_tx, once called, runs on.                                         *)
FairSpec == Spec /\ WF_vars(Collecting)

-----------------------------------------------------------------------------
(* Every field is in range, and the lengths fit the buffer.                *)
TypeOK ==
    /\ flg \subseteq Services /\ data \subseteq Services
    /\ \A k \in DOMAIN buf : buf[k] = foreign \/ buf[k].from \in Services
    /\ DOMAIN buf = 1 .. BufLen /\ len \in 0 .. BufLen
    /\ pc \in {"idle", "collect", "dead"} /\ i \in 0 .. multi_p_max

(* Received bytes and earlier collections share the buffer with what is    *)
(* sent: still a datagram has one byte per marked service and they are the *)
(* first bytes of the last one's data, nothing that was in the buffer      *)
(* before.                                                                 *)
SendsOwnBytes ==
    [][sent' # sent /\ sent' # <<>> =>
        LET last == CHOOSE s \in flg : \A t \in flg : t <= s
        IN  sent' = [k \in 1 .. Cardinality(flg) |-> [from |-> last, offset |-> k - 1]]]_vars
=============================================================================
